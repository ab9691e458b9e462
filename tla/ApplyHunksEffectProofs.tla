----------------------- MODULE ApplyHunksEffectProofs -----------------------
(***************************************************************************)
(* Proofs about what the apply engine does to the tree itself, exact or    *)
(* not, and how the delta and the summary relate to it:                    *)
(*                                                                         *)
(*   - with follow_symlinks off, links are left alone;                     *)
(*   - a move never loses text;                                            *)
(*   - the hunks take effect in order, and the engine stops only where it  *)
(*     must: Meaning compares the tree, at every call, with TreeAfter, the *)
(*     trees the patch means;                                              *)
(*   - exactness is given up only for a cause in those trees;              *)
(*   - the delta has one change for each hunk (Logged), the summary one    *)
(*     path (Listed), and so they agree.                                   *)
(***************************************************************************)
EXTENDS ApplyHunksProofs, SharedLemmas

(***************************************************************************)
(* The possible effects of a step on the tree: none, a write to the place  *)
(* the current hunk writes, or the removal of the path it names.           *)
(***************************************************************************)
WritesTarget ==
    /\ pc \in {"write", "retry"}
    /\ i \in DOMAIN hunks
    /\ ~Denied(HunkPath(Hunk), follow_symlinks)
    /\ \E contents \in Texts \cup {Binary} :
          fs' = [fs EXCEPT ![Resolve(HunkPath(Hunk))] = contents]

RemovesSource ==
    /\ pc = "remove"
    /\ i \in DOMAIN hunks
    /\ ~Denied(Hunk.path, follow_symlinks)
    /\ fs' = [fs EXCEPT ![Hunk.path] = None]

LEMMA TreeEffects ==
    ASSUME IInv, [Next]_vars
    PROVE  /\ UNCHANGED <<hunks, follow_symlinks, fs0>>
           /\ fs' = fs \/ WritesTarget \/ RemovesSource
<1>1. CASE Write \/ WriteError
  <2>1. UNCHANGED <<hunks, follow_symlinks, fs0>>
    BY <1>1 DEF Write, WriteError, patch
  <2>2. pc \in {"write", "retry"} => i \in DOMAIN hunks /\ new_contents \in Texts
    BY DEF IInv, TypeOK, Running, Shape, Writing
  <2>3. CASE Write
    BY <2>1, <2>2, <2>3 DEF Write, WriteFile, Writable, WritesTarget
  <2>4. CASE WriteError
    BY <2>1, <2>2, <2>4 DEF WriteError, WriteFails, Writable, WritesTarget
  <2> QED BY <1>1, <2>1, <2>3, <2>4
<1>2. CASE RemoveSource \/ RemoveError
  BY <1>2 DEF RemoveSource, RemoveError, RemoveFails, Remove, Removable, RemovesSource,
              patch, IInv, TypeOK, Running
<1>3. CASE UNCHANGED <<patch, fs>>
  BY <1>3 DEF patch
<1>4. ASSUME \/ RejectEmptyPatch \/ RejectPath \/ StartAdd \/ StartDelete \/ StartUpdate
             \/ ReadDestination \/ RejectDestination \/ WriteMissesParent \/ CreateParent
             \/ CheckNotDirectory \/ ConfirmSource \/ PrintSummary \/ UNCHANGED vars
      PROVE  UNCHANGED <<patch, fs>>
  BY <1>4 DEF RejectEmptyPatch, RejectPath, StartAdd, StartDelete, StartUpdate,
              ReadDestination, RejectDestination, WriteMissesParent, CreateParent,
              CheckNotDirectory, ConfirmSource, PrintSummary, storage, vars
<1> QED BY <1>1, <1>2, <1>3, <1>4 DEF Next, Step, Returned

-----------------------------------------------------------------------------
(* The destination of a move is written before the hunk completes, so it is  *)
(* known not to be a link from then on.                                      *)
Landed == Removing /\ IsMove(Hunk) => fs0[HunkPath(Hunk)] # Link

LinksInv == LinksAreLeftAlone /\ (~follow_symlinks => Landed)

(* A text that is read without following links comes from no link. *)
LEMMA ReadsNoLink ==
    ASSUME LinksAreLeftAlone, ~follow_symlinks, NEW p \in Paths,
           NEW read \in ReadText(p), read \in Texts
    PROVE  fs0[p] # Link
<1>1. ~Denied(p, follow_symlinks)
  BY StorageAssumption DEF ReadText, ReadFileText
<1> QED BY <1>1 DEF Denied, LinksAreLeftAlone

LEMMA OptionalReadsNoLink ==
    ASSUME LinksAreLeftAlone, ~follow_symlinks, NEW p \in Paths,
           NEW read \in ReadOptional(p), read.content # None
    PROVE  fs0[p] # Link
<1>1. PICK supported \in DeltaSupport(p), r \in ReadText(p) :
         read = [content |-> IF r \in Texts THEN r ELSE None,
                 exact |-> supported /\ r # Failed]
  BY DEF ReadOptional
<1>2. r \in Texts
  BY <1>1
<1> QED BY <1>2, ReadsNoLink

(* The tree, at the places that links concern. *)
LEMMA LinksStay ==
    ASSUME IInv, LinksAreLeftAlone, [Next]_vars, ~follow_symlinks
    PROVE  /\ fs'[Outside] = fs0[Outside]
           /\ \A p \in Paths : fs0[p] = Link <=> fs'[p] = Link
<1>1. /\ fs[Outside] = fs0[Outside] /\ fs \in [Files -> Nodes]
      /\ \A p \in Paths : fs0[p] = Link <=> fs[p] = Link
  BY DEF LinksAreLeftAlone, IInv, TypeOK, StorageTypeOK
<1>2. CASE WritesTarget
  <2> DEFINE target == HunkPath(Hunk)
  <2>1. target \in Paths /\ fs[target] # Link
    BY <1>2, HunkTypes DEF WritesTarget, Denied, IInv
  <2>2. PICK contents \in Texts \cup {Binary} : fs' = [fs EXCEPT ![target] = contents]
    BY <1>2, <2>1 DEF WritesTarget, Resolve
  <2> HIDE DEF target
  <2> QED BY <1>1, <2>1, <2>2, StorageAssumption DEF Files
<1>3. CASE RemovesSource
  <2>1. Hunk.path \in Paths /\ fs[Hunk.path] # Link
    BY <1>3, HunkTypes DEF RemovesSource, Denied, IInv
  <2> QED BY <1>1, <1>3, <2>1, StorageAssumption DEF RemovesSource, Files
<1> QED BY <1>1, <1>2, <1>3, TreeEffects

(* What the engine holds and what it has done, after a step that ends a hunk *)
(* whose places are no links. *)
LEMMA HunkDoneAtNoLink ==
    ASSUME IInv, LinksAreLeftAlone, ~follow_symlinks, i \in DOMAIN hunks,
           HunkDone(Hunk), UNCHANGED patch,
           fs0[Hunk.path] # Link, fs0[HunkPath(Hunk)] # Link
    PROVE  /\ original_contents' = None /\ overwritten_content' = None
           /\ \A k \in 1..(i' - 1) :
                 Link \notin {fs0[hunks[k].path], fs0[HunkPath(hunks[k])]}
           /\ Landed'
<1>1. i' = i + 1 /\ i \in Nat /\ pc' \in {"hunk", "report"}
  BY DEF HunkDone, IInv, TypeOK
<1>2. \A k \in 1..(i - 1) : Link \notin {fs0[hunks[k].path], fs0[HunkPath(hunks[k])]}
  BY DEF LinksAreLeftAlone
<1>3. \A k \in 1..(i' - 1) : k = i \/ k \in 1..(i - 1)
  BY <1>1
<1>4. Link \notin {fs0[hunks[i].path], fs0[HunkPath(hunks[i])]}
  BY DEF Hunk
<1> QED BY <1>1, <1>2, <1>3, <1>4 DEF HunkDone, Landed, Removing

LEMMA NextLinksInv == IInv /\ LinksInv /\ [Next]_vars => LinksInv'
<1> SUFFICES ASSUME IInv, LinksInv, [Next]_vars, ~follow_symlinks
             PROVE  LinksAreLeftAlone' /\ Landed'
  BY TreeEffects DEF LinksInv, LinksAreLeftAlone
<1> USE DEF LinksInv
<1> DEFINE HeldOK == /\ original_contents # None => fs0[Hunk.path] # Link
                     /\ overwritten_content # None => fs0[HunkPath(Hunk)] # Link
           DoneOK == \A k \in 1..(i - 1) :
                        Link \notin {fs0[hunks[k].path], fs0[HunkPath(hunks[k])]}
<1>1. UNCHANGED <<hunks, follow_symlinks, fs0>> /\ HeldOK /\ DoneOK /\ Landed
  BY TreeEffects DEF LinksAreLeftAlone
<1>2. SUFFICES HeldOK' /\ DoneOK' /\ Landed'
  BY <1>1, LinksStay DEF LinksAreLeftAlone
<1>3. ASSUME UNCHANGED i PROVE Hunk' = Hunk /\ HunkPath(Hunk)' = HunkPath(Hunk) /\ DoneOK'
  BY <1>1, <1>3 DEF Hunk, HunkPath, IsMove
<1>4. CASE UNCHANGED <<i, locals>> /\ ~Removing'
  BY <1>1, <1>3, <1>4 DEF locals, Landed
<1>5. CASE UNCHANGED <<i, locals>> /\ Removing
  BY <1>1, <1>3, <1>5 DEF locals, Landed, IsMove
<1>6. CASE RejectEmptyPatch \/ RejectPath \/ RejectDestination \/ WriteMissesParent
           \/ CreateParent \/ WriteError \/ PrintSummary
  BY <1>4, <1>6 DEF RejectEmptyPatch, RejectPath, RejectDestination, WriteMissesParent,
                    CreateParent, WriteError, PrintSummary, Fail, Removing
<1>7. CASE StartAdd
  <2>1. i \in DOMAIN hunks /\ Hunk.path \in Paths /\ HunkPath(Hunk) = Hunk.path
    BY <1>7, HunkTypes DEF StartAdd, IInv, Shape, HunkPath, IsMove
  <2>2. PICK read \in ReadOptional(Hunk.path) : overwritten_content' = read.content
    BY <1>7 DEF StartAdd
  <2>3. overwritten_content' # None => fs0[HunkPath(Hunk)] # Link
    BY <2>1, <2>2, OptionalReadsNoLink
  <2> QED BY <1>1, <1>3, <1>7, <2>3 DEF StartAdd, Landed, Removing
<1>8. CASE StartDelete
  <2>1. i \in DOMAIN hunks /\ Hunk.path \in Paths /\ ~IsMove(Hunk)
    BY <1>8, HunkTypes DEF StartDelete, IInv, Shape, IsMove
  <2>2. PICK read \in ReadText(Hunk.path) :
           original_contents' = IF read \in Texts THEN read ELSE None
    BY <1>8 DEF StartDelete
  <2>3. original_contents' # None => fs0[Hunk.path] # Link
    BY <2>1, <2>2, ReadsNoLink
  <2> QED BY <1>1, <1>3, <1>8, <2>1, <2>3 DEF StartDelete, Landed, IsMove
<1>9. CASE StartUpdate /\ ~Fail
  <2>1. /\ i \in DOMAIN hunks /\ Hunk.path \in Paths
        /\ DOMAIN Hunk.chunks \subseteq Texts
    BY <1>9, HunkTypes DEF StartUpdate, IInv, Shape
  <2>2. PICK read \in ReadText(Hunk.path) :
           /\ read \in DOMAIN Hunk.chunks
           /\ original_contents' = read
           /\ pc' = IF IsMove(Hunk) THEN "dest" ELSE "write"
           /\ UNCHANGED <<i, overwritten_content>>
    BY <1>9 DEF StartUpdate
  <2>3. fs0[Hunk.path] # Link
    BY <2>1, <2>2, ReadsNoLink
  <2> QED BY <1>1, <1>3, <2>2, <2>3 DEF Landed, Removing
<1>10. CASE StartUpdate /\ Fail
  BY <1>4, <1>10 DEF Fail, Removing
<1>11. CASE ReadDestination
  <2>1. /\ i \in DOMAIN hunks /\ Hunk.move_path \in Paths
        /\ HunkPath(Hunk) = Hunk.move_path
    BY <1>11, HunkTypes DEF ReadDestination, IInv, TypeOK, Running, Shape, HunkPath
  <2>2. PICK read \in ReadOptional(Hunk.move_path) : overwritten_content' = read.content
    BY <1>11 DEF ReadDestination
  <2>3. overwritten_content' # None => fs0[HunkPath(Hunk)] # Link
    BY <2>1, <2>2, OptionalReadsNoLink
  <2> QED BY <1>1, <1>3, <1>11, <2>3 DEF ReadDestination, Landed, Removing
<1>12. CASE Write
  <2>1. /\ i \in DOMAIN hunks /\ HunkPath(Hunk) \in Paths
        /\ fs[HunkPath(Hunk)] # Link
    BY <1>12, HunkTypes
       DEF Write, WriteFile, Writable, Denied, IInv, TypeOK, Running
  <2>2. fs0[HunkPath(Hunk)] # Link
    BY <2>1 DEF LinksAreLeftAlone
  <2>3. CASE IsMove(Hunk)
    BY <1>1, <1>3, <1>12, <2>2, <2>3 DEF Write, locals, Landed, IsMove
  <2>4. CASE ~IsMove(Hunk)
    <3>1. HunkPath(Hunk) = Hunk.path
      BY <2>4 DEF HunkPath
    <3> QED BY <1>1, <1>12, <2>1, <2>2, <2>4, <3>1, HunkDoneAtNoLink DEF Write
  <2> QED BY <2>3, <2>4
<1>13. CASE CheckNotDirectory
  <2>1. Removing /\ UNCHANGED <<i, locals>>
    BY <1>13 DEF CheckNotDirectory, Fail, Removing
  <2> QED BY <1>5, <2>1
<1>14. CASE RemoveSource
  <2>1. i \in DOMAIN hunks /\ Hunk.path \in Paths /\ Removing /\ fs[Hunk.path] # Link
    BY <1>14, HunkTypes
       DEF RemoveSource, Remove, Removable, Denied, IInv, TypeOK, Running, Removing
  <2>2. fs0[Hunk.path] # Link
    BY <2>1 DEF LinksAreLeftAlone
  <2>3. fs0[HunkPath(Hunk)] # Link
    BY <1>1, <2>1, <2>2 DEF Landed, HunkPath
  <2> QED BY <1>1, <1>14, <2>1, <2>2, <2>3, HunkDoneAtNoLink DEF RemoveSource
<1>15. CASE RemoveError \/ ConfirmSource
  <2>1. Removing /\ UNCHANGED <<i, locals>>
    BY <1>15 DEF RemoveError, ConfirmSource, Fail, Removing
  <2> QED BY <1>5, <2>1
<1>16. CASE UNCHANGED vars
  BY <1>1, <1>3, <1>16 DEF vars, locals, Landed, Removing, IsMove
<1> QED BY <1>6, <1>7, <1>8, <1>9, <1>10, <1>11, <1>12, <1>13, <1>14, <1>15, <1>16
        DEF Next, Step, Returned

(* With follow_symlinks off nothing that the engine holds was read through a *)
(* link, nothing is written through one, no link is replaced, removed or     *)
(* made, and no hunk that names a link completes.                            *)
THEOREM LinksSafe == Spec => []LinksAreLeftAlone
<1>1. Init => LinksInv
  BY DEF Init, LinksInv, LinksAreLeftAlone, Landed, Removing
<1> QED BY <1>1, NextLinksInv, Invariant, PTL DEF Spec, LinksInv

-----------------------------------------------------------------------------
(***************************************************************************)
(* A move, call by call: the source reads as it did until the destination  *)
(* is written, and from then on the destination reads as the new text.     *)
(***************************************************************************)
Source == fs[Resolve(Hunk.path)]

Destination == fs[Resolve(Hunk.move_path)]

Moving == i \in DOMAIN hunks /\ IsMove(Hunk)

MoveSafe ==
    /\ fs[Outside] # Link
    /\ pc = "hunk" => original_contents = None
    /\ pc \in {"report", "succeeded"} => i \notin DOMAIN hunks
    /\ Moving /\ (pc = "dest" \/ Writing) => Source = original_contents
    /\ Moving /\ Removing /\ Hunk.move_path # Hunk.path => Destination = new_contents
    /\ pc = "failed" => MoveNeverLosesText

LEMMA MoveSafeSuffices == IInv /\ MoveSafe => MoveNeverLosesText
<1> SUFFICES ASSUME IInv, MoveSafe, Moving, original_contents # None,
                    Resolve(Hunk.path) # Resolve(Hunk.move_path), pc # "failed"
             PROVE  Source = original_contents \/ Destination = new_contents
  BY DEF MoveSafe, MoveNeverLosesText, Moving, Source, Destination
<1>1. pc = "dest" \/ Writing \/ Removing
  BY DEF MoveSafe, Moving, IInv, TypeOK, Running, Writing, Removing
<1>2. Hunk.move_path # Hunk.path
  OBVIOUS
<1> QED BY <1>1, <1>2 DEF MoveSafe

LEMMA InitMoveSafe == Init => MoveSafe
<1> SUFFICES ASSUME Init PROVE MoveSafe
  OBVIOUS
<1>1. fs[Outside] # Link
  BY PatchAssumption, StorageAssumption DEF Init, WellFormedTree
<1> QED BY <1>1 DEF Init, MoveSafe, Writing, Removing

(* A failure that leaves the tree and the locals alone. *)
LEMMA FailMoveSafe ==
    ASSUME IInv, MoveSafe, Fail, UNCHANGED <<fs, hunks>>
    PROVE  MoveSafe'
<1>1. MoveNeverLosesText
  BY MoveSafeSuffices
<1>2. UNCHANGED <<i, original_contents, new_contents>> /\ Hunk' = Hunk /\ pc' = "failed"
  BY DEF Fail, locals, Hunk
<1>3. MoveNeverLosesText'
  BY <1>1, <1>2 DEF MoveNeverLosesText, Resolve
<1> QED BY <1>2, <1>3 DEF MoveSafe, Writing, Removing

(* So does going from hunk to hunk. *)
LEMMA HunkDoneMoveSafe ==
    ASSUME IInv, i \in DOMAIN hunks, HunkDone(Hunk), UNCHANGED hunks, fs'[Outside] # Link
    PROVE  MoveSafe'
<1>1. i \in Nat \ {0} /\ i <= Len(hunks) /\ i' = i + 1 /\ hunks \in Seq(Hunks)
  BY HunkTypes DEF IInv, HunkDone, TypeOK
<1>2. pc' = "report" => i' \notin DOMAIN hunks'
  BY <1>1 DEF HunkDone
<1> QED BY <1>2 DEF HunkDone, MoveSafe, Writing, Removing

(* A write leaves every link a link, and makes none. *)
LEMMA WriteKeepsResolve ==
    ASSUME IInv, MoveSafe, NEW p \in Paths, NEW contents \in Texts \cup {Binary},
           fs' = [fs EXCEPT ![Resolve(p)] = contents]
    PROVE  /\ fs'[Outside] # Link
           /\ fs'[Resolve(p)] = contents /\ Resolve(p)' = Resolve(p)
           /\ \A q \in Paths : q # p =>
                 /\ Resolve(q)' = Resolve(q)
                 /\ Resolve(q) # Resolve(p) => fs'[Resolve(q)] = fs[Resolve(q)]
<1>1. /\ fs \in [Files -> Nodes] /\ fs[Outside] # Link /\ contents # Link
      /\ Outside \notin Paths /\ Files = Paths \cup {Outside}
  BY StorageAssumption DEF IInv, TypeOK, StorageTypeOK, MoveSafe, Files
<1>2. CASE fs[p] = Link
  BY <1>1, <1>2 DEF Resolve
<1>3. CASE fs[p] # Link
  BY <1>1, <1>3 DEF Resolve
<1> QED BY <1>2, <1>3

LEMMA WriteMoveSafe == IInv /\ MoveSafe /\ Write => MoveSafe'
<1> SUFFICES ASSUME IInv, MoveSafe, Write PROVE MoveSafe'
  OBVIOUS
<1>1. /\ i \in DOMAIN hunks /\ Writing /\ UNCHANGED hunks
      /\ new_contents \in Texts /\ HunkPath(Hunk) \in Paths
      /\ fs' = [fs EXCEPT ![Resolve(HunkPath(Hunk))] = new_contents]
  BY HunkTypes DEF Write, WriteFile, Writing, IInv, TypeOK, Running, Shape, patch
<1>2. /\ fs'[Outside] # Link
      /\ fs'[Resolve(HunkPath(Hunk))] = new_contents
  BY <1>1, WriteKeepsResolve
<1>3. CASE ~IsMove(Hunk)
  BY <1>1, <1>2, <1>3, HunkDoneMoveSafe DEF Write
<1>4. CASE IsMove(Hunk)
  <2>1. /\ pc' = "check_dir" /\ Hunk' = Hunk /\ HunkPath(Hunk) = Hunk.move_path
        /\ UNCHANGED <<i, locals>>
    BY <1>1, <1>4 DEF Write, HunkPath, Hunk
  <2>2. Resolve(Hunk.move_path)' = Resolve(Hunk.move_path)
    BY <1>1, <2>1, WriteKeepsResolve
  <2>3. Destination' = new_contents'
    BY <1>2, <2>1, <2>2 DEF Destination, locals
  <2> QED BY <1>2, <2>1, <2>3 DEF MoveSafe, Writing
<1> QED BY <1>3, <1>4

LEMMA WriteErrorMoveSafe == IInv /\ MoveSafe /\ WriteError => MoveSafe'
<1> SUFFICES ASSUME IInv, MoveSafe, WriteError PROVE MoveSafe'
  OBVIOUS
<1>1. UNCHANGED hunks /\ Fail /\ pc' = "failed"
  BY DEF WriteError, patch, Fail
<1>2. CASE UNCHANGED fs
  BY <1>1, <1>2, FailMoveSafe
<1>3. CASE \E garbled \in Texts \cup {Binary} :
              fs' = [fs EXCEPT ![Resolve(HunkPath(Hunk))] = garbled]
  <2>1. /\ i \in DOMAIN hunks /\ Writing /\ Hunk.path \in Paths
        /\ HunkPath(Hunk) \in Paths
        /\ Hunk' = Hunk /\ UNCHANGED <<i, locals>>
    BY <1>1, HunkTypes DEF WriteError, Writing, IInv, TypeOK, Running, Fail, Hunk
  <2>2. PICK garbled \in Texts \cup {Binary} :
           fs' = [fs EXCEPT ![Resolve(HunkPath(Hunk))] = garbled]
    BY <1>3
  <2>3. /\ fs'[Outside] # Link
        /\ Resolve(HunkPath(Hunk))' = Resolve(HunkPath(Hunk))
        /\ Hunk.path # HunkPath(Hunk) =>
              /\ Resolve(Hunk.path)' = Resolve(Hunk.path)
              /\ Resolve(Hunk.path) # Resolve(HunkPath(Hunk)) =>
                    fs'[Resolve(Hunk.path)] = fs[Resolve(Hunk.path)]
    BY <2>1, <2>2, WriteKeepsResolve
  <2>4. MoveNeverLosesText'
    <3> SUFFICES ASSUME IsMove(Hunk), Resolve(Hunk.path)' # Resolve(Hunk.move_path)'
                 PROVE  (fs[Resolve(Hunk.path)])' = original_contents
      BY <2>1 DEF MoveNeverLosesText, locals
    <3>1. HunkPath(Hunk) = Hunk.move_path
      BY DEF HunkPath
    <3>2. Hunk.path # HunkPath(Hunk)
      BY <2>1, <3>1
    <3>3. (fs[Resolve(Hunk.path)])' = fs[Resolve(Hunk.path)]
      BY <2>1, <2>3, <3>1, <3>2 DEF Resolve
    <3>4. fs[Resolve(Hunk.path)] = original_contents
      BY <2>1 DEF MoveSafe, Moving, Source
    <3> QED BY <3>3, <3>4
  <2> QED BY <1>1, <2>3, <2>4 DEF MoveSafe, Writing, Removing
<1>4. UNCHANGED fs \/ \E garbled \in Texts \cup {Binary} :
                         fs' = [fs EXCEPT ![Resolve(HunkPath(Hunk))] = garbled]
  BY DEF WriteError, WriteFails
<1> QED BY <1>2, <1>3, <1>4

(* Removing the source leaves the destination, unless they are the same. *)
LEMMA RemovalKeeps ==
    ASSUME IInv, MoveSafe, i \in DOMAIN hunks, Removing,
           fs' = [fs EXCEPT ![Hunk.path] = None]
    PROVE  /\ fs'[Outside] # Link
           /\ IsMove(Hunk) /\ Hunk.move_path # Hunk.path =>
                 fs'[IF fs'[Hunk.move_path] = Link THEN Outside ELSE Hunk.move_path]
                    = new_contents
<1>1. /\ Hunk.path \in Paths /\ Outside \notin Paths
      /\ IsMove(Hunk) => Hunk.move_path \in Paths
  BY HunkTypes, StorageAssumption DEF IInv
<1>2. fs \in [Files -> Nodes] /\ Files = Paths \cup {Outside} /\ fs[Outside] # Link
  BY DEF IInv, TypeOK, StorageTypeOK, Files, MoveSafe
<1>3. IsMove(Hunk) /\ Hunk.move_path # Hunk.path =>
         fs[IF fs[Hunk.move_path] = Link THEN Outside ELSE Hunk.move_path] = new_contents
  BY DEF MoveSafe, Moving, Destination, Resolve
<1> QED BY <1>1, <1>2, <1>3

LEMMA RemoveSourceMoveSafe == IInv /\ MoveSafe /\ RemoveSource => MoveSafe'
<1> SUFFICES ASSUME IInv, MoveSafe, RemoveSource PROVE MoveSafe'
  OBVIOUS
<1>1. i \in DOMAIN hunks /\ Removing /\ HunkDone(Hunk) /\ UNCHANGED hunks
  BY DEF RemoveSource, Removing, IInv, TypeOK, Running, patch
<1>2. fs'[Outside] # Link
  BY <1>1, RemovalKeeps DEF RemoveSource, Remove
<1> QED BY <1>1, <1>2, HunkDoneMoveSafe

LEMMA RemoveErrorMoveSafe == IInv /\ MoveSafe /\ RemoveError => MoveSafe'
<1> SUFFICES ASSUME IInv, MoveSafe, RemoveError PROVE MoveSafe'
  OBVIOUS
<1>1. /\ i \in DOMAIN hunks /\ Removing /\ pc' = "confirm" /\ Hunk' = Hunk
      /\ UNCHANGED <<i, hunks, locals>>
  BY DEF RemoveError, Removing, IInv, TypeOK, Running, patch, Hunk
<1>2. CASE UNCHANGED fs
  BY <1>1, <1>2
     DEF MoveSafe, Writing, Removing, Moving, Source, Destination, Resolve, locals
<1>3. CASE fs' = [fs EXCEPT ![Hunk.path] = None]
  <2>1. /\ fs'[Outside] # Link
        /\ IsMove(Hunk) /\ Hunk.move_path # Hunk.path => Destination' = new_contents
    BY <1>1, <1>3, RemovalKeeps DEF Destination, Resolve
  <2> QED BY <1>1, <2>1 DEF MoveSafe, Writing, Moving, locals
<1> QED BY <1>2, <1>3 DEF RemoveError, RemoveFails, Remove

(* The steps before the destination is written only read. *)
LEMMA StartUpdateMoveSafe == IInv /\ MoveSafe /\ StartUpdate => MoveSafe'
<1> SUFFICES ASSUME IInv, MoveSafe, StartUpdate PROVE MoveSafe'
  OBVIOUS
<1>1. UNCHANGED <<fs, hunks>> /\ i \in DOMAIN hunks
  BY DEF StartUpdate, storage, patch, IInv, Shape
<1>2. CASE Fail
  BY <1>1, <1>2, FailMoveSafe
<1>3. CASE ~Fail
  <2>1. PICK read \in ReadText(Hunk.path) :
           /\ read \in DOMAIN Hunk.chunks
           /\ original_contents' = read
           /\ pc' = IF IsMove(Hunk) THEN "dest" ELSE "write"
           /\ i' = i
    BY <1>3 DEF StartUpdate
  <2>2. read \in Texts
    BY <1>1, <2>1, HunkTypes DEF StartUpdate, IInv
  <2>3. read = fs[Resolve(Hunk.path)]
    BY <2>2, StorageAssumption DEF ReadText, ReadFileText, Faults
  <2>4. Hunk' = Hunk /\ Source' = original_contents'
    BY <1>1, <2>1, <2>3 DEF Hunk, Source, Resolve
  <2> QED BY <1>1, <2>1, <2>4 DEF MoveSafe, Removing
<1> QED BY <1>2, <1>3

LEMMA ReadingMoveSafe ==
    ASSUME IInv, MoveSafe,
           ReadDestination \/ WriteMissesParent \/ CreateParent
    PROVE  MoveSafe'
<1>1. /\ UNCHANGED <<fs, hunks, i, original_contents>> /\ Hunk' = Hunk
      /\ pc = "dest" \/ Writing
      /\ pc' \in {"write", "mkdir", "retry"}
  BY DEF ReadDestination, WriteMissesParent, CreateParent, storage, patch, locals,
         Hunk, Writing
<1> QED BY <1>1 DEF MoveSafe, Writing, Removing, Moving, Source, Resolve

LEMMA OtherMoveSafe ==
    ASSUME IInv, MoveSafe,
           StartAdd \/ StartDelete \/ CheckNotDirectory \/ PrintSummary
    PROVE  MoveSafe'
<1>1. UNCHANGED <<fs, hunks, i>> /\ Hunk' = Hunk
  BY DEF StartAdd, StartDelete, CheckNotDirectory, Fail, PrintSummary, storage, patch, Hunk
<1>2. CASE StartAdd \/ StartDelete
  BY <1>1, <1>2
     DEF StartAdd, StartDelete, MoveSafe, Moving, IsMove, Writing, Removing
<1>3. CASE CheckNotDirectory /\ Fail
  BY <1>1, <1>3, FailMoveSafe
<1>4. CASE CheckNotDirectory /\ pc' = "remove" /\ UNCHANGED <<i, locals>>
  BY <1>1, <1>4
     DEF CheckNotDirectory, MoveSafe, Moving, Writing, Removing, Destination, Resolve, locals
<1>5. CASE PrintSummary
  BY <1>1, <1>5
     DEF PrintSummary, MoveSafe, MoveNeverLosesText, Moving, Writing, Removing
<1> QED BY <1>2, <1>3, <1>4, <1>5 DEF CheckNotDirectory

LEMMA FailingMoveSafe ==
    ASSUME IInv, MoveSafe,
           RejectEmptyPatch \/ RejectPath \/ RejectDestination \/ ConfirmSource
    PROVE  MoveSafe'
<1>1. Fail /\ UNCHANGED <<fs, hunks>>
  BY DEF RejectEmptyPatch, RejectPath, RejectDestination, ConfirmSource, storage, patch
<1> QED BY <1>1, FailMoveSafe

LEMMA StepMoveSafe == IInv /\ MoveSafe /\ [Next]_vars => MoveSafe'
<1>1. IInv /\ MoveSafe /\ Step => MoveSafe'
  BY FailingMoveSafe, StartUpdateMoveSafe, ReadingMoveSafe, OtherMoveSafe, WriteMoveSafe,
     WriteErrorMoveSafe, RemoveSourceMoveSafe, RemoveErrorMoveSafe
     DEF Step
<1>2. IInv /\ MoveSafe /\ UNCHANGED vars => MoveSafe'
  BY DEF vars, patch, locals, storage, MoveSafe, MoveNeverLosesText, Moving, Writing,
         Removing, Source, Destination, Resolve, Hunk
<1> QED BY <1>1, <1>2 DEF Next, Returned

(* Whatever call fails, and wherever the program is killed, a move has left  *)
(* the old text at its source or the new text at its destination.            *)
THEOREM MoveSafety == Spec => []MoveNeverLosesText
<1>1. Init => MoveSafe
  BY InitMoveSafe
<1>2. IInv /\ MoveSafe /\ [Next]_vars => MoveSafe'
  BY StepMoveSafe
<1>3. IInv /\ MoveSafe => MoveNeverLosesText
  BY MoveSafeSuffices
<1> QED BY <1>1, <1>2, <1>3, Invariant, PTL DEF Spec

-----------------------------------------------------------------------------
(***************************************************************************)
(* TreeAfter does what its definition says: the trees up to any number of  *)
(* hunks exist, so the function does.                                      *)
(***************************************************************************)
Unrolled(n, trees) ==
    trees = [k \in 0..n |-> IF k = 0 THEN fs0 ELSE Effect(hunks[k], trees[k - 1])]

LEMMA UnrolledExists == \A n \in Nat : \E trees : Unrolled(n, trees)
<1> DEFINE S == {n \in Nat : \E trees : Unrolled(n, trees)}
<1>1. 0 \in S
  <2>1. Unrolled(0, [k \in 0..0 |-> fs0])
    BY DEF Unrolled
  <2> QED BY <2>1
<1>2. ASSUME NEW n \in S PROVE n + 1 \in S
  <2>1. n \in Nat /\ n + 1 \in Nat
    OBVIOUS
  <2>2. PICK trees : Unrolled(n, trees)
    OBVIOUS
  <2> DEFINE longer == [k \in 0..(n + 1) |-> IF k = n + 1 THEN Effect(hunks[n + 1], trees[n])
                                                           ELSE trees[k]]
  <2>3. ASSUME NEW k \in 0..(n + 1)
        PROVE  longer[k] = IF k = 0 THEN fs0 ELSE Effect(hunks[k], longer[k - 1])
    <3>1. CASE k = n + 1
      <4>1. k # 0 /\ k - 1 = n /\ n \in 0..(n + 1) /\ n # n + 1
        BY <2>1, <3>1
      <4> QED BY <3>1, <4>1
    <3>2. CASE k # n + 1 /\ k # 0
      <4>1. k \in 0..n /\ k - 1 \in 0..(n + 1) /\ k - 1 # n + 1
        BY <2>1, <3>2
      <4>2. trees[k] = Effect(hunks[k], trees[k - 1])
        BY <2>2, <3>2, <4>1 DEF Unrolled
      <4> QED BY <3>2, <4>1, <4>2
    <3>3. CASE k = 0
      <4>1. k \in 0..n /\ k # n + 1
        BY <2>1, <3>3
      <4> QED BY <2>2, <3>3, <4>1 DEF Unrolled
    <3> QED BY <3>1, <3>2, <3>3
  <2>4. Unrolled(n + 1, longer)
    <3> HIDE DEF longer
    <3>1. longer = [k \in 0..(n + 1) |-> longer[k]]
      BY DEF longer
    <3> QED BY <2>3, <3>1 DEF Unrolled
  <2> QED BY <2>1, <2>4
<1>3. S = Nat
  <2>1. S \in SUBSET Nat
    OBVIOUS
  <2> HIDE DEF S
  <2> QED BY <1>1, <1>2, <2>1, SetInduction
<1> QED BY <1>3

LEMMA UnrolledUnique ==
    ASSUME NEW m \in Nat, NEW short, Unrolled(m, short),
           NEW n \in Nat, m <= n, NEW long, Unrolled(n, long)
    PROVE  long[m] = short[m]
<1> DEFINE S == {k \in Nat : k <= m => long[k] = short[k]}
<1>1. 0 \in S
  BY DEF Unrolled
<1>2. ASSUME NEW k \in S PROVE k + 1 \in S
  <2> SUFFICES ASSUME k + 1 <= m PROVE long[k + 1] = short[k + 1]
    OBVIOUS
  <2>1. /\ k \in Nat /\ k + 1 \in 0..m /\ k + 1 \in 0..n /\ k + 1 # 0 /\ (k + 1) - 1 = k
        /\ k <= m
    OBVIOUS
  <2> QED BY <2>1 DEF Unrolled
<1>3. S = Nat
  <2>1. S \in SUBSET Nat
    OBVIOUS
  <2> HIDE DEF S
  <2> QED BY <1>1, <1>2, <2>1, SetInduction
<1> QED BY <1>3

LEMMA TreesUnrolled ==
    /\ TreeAfter[0] = fs0
    /\ \A n \in Nat : TreeAfter[n + 1] = Effect(hunks[n + 1], TreeAfter[n])
<1> DEFINE trees(n) == CHOOSE t : Unrolled(n, t)
           f == [n \in Nat |-> trees(n)[n]]
           IsTreeAfter(g) == g = [n \in Nat |-> IF n = 0 THEN fs0 ELSE Effect(hunks[n], g[n - 1])]
<1>1. \A n \in Nat : Unrolled(n, trees(n))
  BY UnrolledExists
<1> HIDE DEF trees
<1>2. ASSUME NEW n \in Nat
      PROVE  f[n] = IF n = 0 THEN fs0 ELSE Effect(hunks[n], f[n - 1])
  <2>1. CASE n = 0
    BY <1>1, <2>1 DEF Unrolled
  <2>2. CASE n # 0
    <3>1. n - 1 \in Nat /\ n - 1 <= n /\ n \in 0..n
      BY <2>2
    <3>2. trees(n)[n] = Effect(hunks[n], trees(n)[n - 1])
      BY <1>1, <2>2, <3>1 DEF Unrolled
    <3>3. trees(n)[n - 1] = trees(n - 1)[n - 1]
      BY <1>1, <3>1, UnrolledUnique
    <3> QED BY <2>2, <3>1, <3>2, <3>3
  <2> QED BY <2>1, <2>2
<1>3. IsTreeAfter(f)
  <2>1. f = [n \in Nat |-> f[n]]
    OBVIOUS
  <2> HIDE DEF f
  <2> QED BY <1>2, <2>1
<1>4. IsTreeAfter(TreeAfter)
  <2>1. TreeAfter = CHOOSE g : IsTreeAfter(g)
    BY DEF TreeAfter
  <2> HIDE DEF IsTreeAfter, f
  <2> QED BY <1>3, <2>1
<1>5. ASSUME NEW n \in Nat PROVE TreeAfter[n + 1] = Effect(hunks[n + 1], TreeAfter[n])
  <2>1. n + 1 \in Nat /\ n + 1 # 0 /\ (n + 1) - 1 = n
    OBVIOUS
  <2> QED BY <1>4, <2>1
<1> QED BY <1>4, <1>5

LEMMA TreesStay == ASSUME UNCHANGED <<hunks, fs0>> PROVE TreeAfter' = TreeAfter
BY DEF TreeAfter

-----------------------------------------------------------------------------
(***************************************************************************)
(* What the tree is while a hunk is applied, against the tree the hunks    *)
(* before it left.                                                         *)
(***************************************************************************)
Base == TreeAfter[i - 1]

AppliedSoFar ==
    /\ \A k \in 0..(i - 1) : TreeAfter[k] \in [Files -> Nodes]
    /\ \A k \in 1..(i - 1) : Applicable(hunks[k], TreeAfter[k - 1])

(* From the read of its source to the write, a hunk has changed nothing, and *)
(* what it is about to write is what it means.                               *)
Prepared ==
    /\ fs = Base
    /\ Hunk.path \notin Unresolvable
    /\ Hunk.verb = "add" => new_contents = Hunk.contents
    /\ Hunk.verb = "update" =>
          /\ Reachable(Base, Hunk.path)
          /\ Base[At(Base, Hunk.path)] \in DOMAIN Hunk.chunks
          /\ new_contents = Updated(Hunk, Base)
    /\ Writing /\ IsMove(Hunk) => Hunk.move_path \notin Unresolvable

(* Before a removal, only the destination of a move has changed. *)
HalfDone ==
    /\ Hunk.path \notin Unresolvable
    /\ IsMove(Hunk) =>
          /\ Applicable(Hunk, Base)
          /\ new_contents = Updated(Hunk, Base)
          /\ fs = [Base EXCEPT ![At(Base, Hunk.move_path)] = new_contents]
    /\ ~IsMove(Hunk) => fs = Base
    /\ pc = "remove" => Removable(Hunk.path, follow_symlinks)

StoppedWhereItMust ==
    ~StorageMayFail /\ i \in DOMAIN hunks => ~Applicable(Hunk, Base) /\ fs = Base

Meaning ==
    /\ AppliedSoFar
    /\ pc = "hunk" => fs = Base
    /\ pc \in {"report", "succeeded"} => hunks # <<>> /\ i = Len(hunks) + 1 /\ fs = Base
    /\ pc = "dest" \/ Writing => Prepared
    /\ pc \in {"check_dir", "remove"} => HalfDone
    /\ pc = "confirm" => StorageMayFail
    /\ pc \in {"confirm", "failed"} => HunksTakeEffectInOrder
    /\ pc = "failed" => StoppedWhereItMust

-----------------------------------------------------------------------------
LEMMA InitMeaning == Init => Meaning
<1> SUFFICES ASSUME Init PROVE Meaning
  OBVIOUS
<1>1. i = 1 /\ i - 1 = 0 /\ pc = "hunk" /\ fs = fs0 /\ fs \in [Files -> Nodes]
  BY PatchAssumption DEF Init, WellFormedTree
<1>2. Base = fs0
  BY <1>1, TreesUnrolled DEF Base
<1>3. AppliedSoFar
  <2>1. 0..0 = {0} /\ 1..0 = {}
    OBVIOUS
  <2> QED BY <1>1, <2>1, TreesUnrolled DEF AppliedSoFar
<1> QED BY <1>1, <1>2, <1>3 DEF Meaning, Writing

(* Within a hunk, the hunks before it and their tree do not change. *)
LEMMA SameHunk ==
    ASSUME UNCHANGED <<patch, i>>
    PROVE  /\ Hunk' = Hunk /\ Base' = Base /\ hunks' = hunks
           /\ follow_symlinks' = follow_symlinks
           /\ AppliedSoFar => AppliedSoFar'
<1>1. TreeAfter' = TreeAfter
  BY TreesStay DEF patch
<1> QED BY <1>1 DEF patch, Hunk, Base, AppliedSoFar, Applicable, Reachable

(* Going from hunk to hunk. *)
LEMMA NextBase ==
    ASSUME IInv, i \in DOMAIN hunks, i' = i + 1, UNCHANGED patch
    PROVE  Base' = Effect(Hunk, Base)
<1>1. TreeAfter' = TreeAfter
  BY TreesStay DEF patch
<1>2. i - 1 \in Nat /\ (i - 1) + 1 = i /\ i' - 1 = i
  BY HunkTypes DEF IInv
<1>3. TreeAfter[i] = Effect(Hunk, Base)
  BY <1>2, TreesUnrolled DEF Base, Hunk
<1> QED BY <1>1, <1>2, <1>3 DEF Base

LEMMA HunkDoneMeaning ==
    ASSUME IInv, Meaning, i \in DOMAIN hunks, HunkDone(Hunk), UNCHANGED patch,
           Applicable(Hunk, Base), fs' = Effect(Hunk, Base), fs' \in [Files -> Nodes]
    PROVE  Meaning'
<1>1. /\ i \in Nat \ {0} /\ i <= Len(hunks) /\ i' = i + 1 /\ hunks \in Seq(Hunks)
      /\ pc' = IF i < Len(hunks) THEN "hunk" ELSE "report"
      /\ hunks' = hunks /\ hunks # <<>>
  BY HunkTypes DEF IInv, TypeOK, HunkDone, patch
<1>2. fs' = Base'
  BY <1>1, NextBase
<1>3. AppliedSoFar'
  <2>1. TreeAfter' = TreeAfter /\ TreeAfter[i] = Base'
    BY <1>1, TreesStay DEF patch, Base
  <2>2. 0..(i' - 1) = 0..(i - 1) \cup {i} /\ 1..(i' - 1) = 1..(i - 1) \cup {i}
    BY <1>1
  <2>3. follow_symlinks' = follow_symlinks
    BY DEF patch
  <2>4. \A k \in 0..(i' - 1) : TreeAfter[k] \in [Files -> Nodes]
    BY <1>2, <2>1, <2>2 DEF Meaning, AppliedSoFar
  <2>5. \A k \in 1..(i' - 1) : Applicable(hunks[k], TreeAfter[k - 1])
    BY <2>2 DEF Meaning, AppliedSoFar, Base, Hunk
  <2> QED BY <1>1, <2>1, <2>3, <2>4, <2>5 DEF AppliedSoFar, Applicable, Reachable
<1>4. pc' = "report" => i' = Len(hunks') + 1
  BY <1>1
<1> QED BY <1>1, <1>2, <1>3, <1>4 DEF Meaning, Writing

LEMMA FailMeaning ==
    ASSUME IInv, Meaning, Fail, UNCHANGED patch,
           HunksTakeEffectInOrder', StoppedWhereItMust'
    PROVE  Meaning'
<1>1. pc' = "failed" /\ AppliedSoFar'
  BY SameHunk DEF Fail, Meaning
<1> QED BY <1>1 DEF Meaning, Writing

(* A failure before anything was written. *)
LEMMA FailBeforeWrite ==
    ASSUME IInv, Meaning, Fail, UNCHANGED <<patch, fs>>, fs = Base,
           ~StorageMayFail /\ i \in DOMAIN hunks => ~Applicable(Hunk, Base)
    PROVE  Meaning'
<1>1. /\ Hunk' = Hunk /\ Base' = Base /\ hunks' = hunks /\ i' = i
  BY SameHunk DEF Fail
<1>2. TreeAfter'[i' - 1] = Base
  BY <1>1 DEF Base
<1>3. HunksTakeEffectInOrder'
  BY <1>2 DEF HunksTakeEffectInOrder
<1>4. StoppedWhereItMust'
  BY <1>1 DEF StoppedWhereItMust, Applicable, Reachable, patch
<1> QED BY <1>3, <1>4, FailMeaning

-----------------------------------------------------------------------------
(* A read returns what the place holds, unless it fails; on a storage that   *)
(* does not fail there is a reason for it in the tree.                       *)
LEMMA ReadIsContents ==
    ASSUME IInv, NEW p \in Paths, NEW read \in ReadText(p)
    PROVE  /\ read # Failed => read = fs[Resolve(p)] /\ ~Denied(p, follow_symlinks)
           /\ read = Failed /\ ~StorageMayFail =>
                 Denied(p, follow_symlinks) \/ fs[Resolve(p)] \in {Binary, Directory}
<1>1. fs[Resolve(p)] # Failed
  BY StorageFacts, StorageAssumption DEF IInv, Nodes
<1> QED BY <1>1 DEF ReadText, ReadFileText, Faults

LEMMA StartAddMeaning == IInv /\ Meaning /\ StartAdd => Meaning'
<1> SUFFICES ASSUME IInv, Meaning, StartAdd PROVE Meaning'
  OBVIOUS
<1>1. /\ pc = "hunk" /\ pc' = "write" /\ fs = Base /\ UNCHANGED <<patch, fs, i>>
      /\ new_contents' = Hunk.contents /\ Hunk.verb = "add"
      /\ Hunk.path \notin Unresolvable
  BY DEF StartAdd, AtHunk, Meaning, storage
<1>2. Hunk' = Hunk /\ Base' = Base /\ AppliedSoFar'
  BY <1>1, SameHunk DEF Meaning
<1>3. Prepared'
  BY <1>1, <1>2 DEF Prepared, IsMove
<1> QED BY <1>1, <1>2, <1>3 DEF Meaning

LEMMA StartDeleteMeaning == IInv /\ Meaning /\ StartDelete => Meaning'
<1> SUFFICES ASSUME IInv, Meaning, StartDelete PROVE Meaning'
  OBVIOUS
<1>1. /\ pc = "hunk" /\ pc' = "check_dir" /\ fs = Base /\ UNCHANGED <<patch, fs, i>>
      /\ Hunk.verb = "delete" /\ Hunk.path \notin Unresolvable
  BY DEF StartDelete, AtHunk, Meaning, storage
<1>2. Hunk' = Hunk /\ Base' = Base /\ AppliedSoFar'
  BY <1>1, SameHunk DEF Meaning
<1>3. HalfDone'
  BY <1>1, <1>2 DEF HalfDone, IsMove
<1> QED BY <1>1, <1>2, <1>3 DEF Meaning, Writing

LEMMA StartUpdateMeaning == IInv /\ Meaning /\ StartUpdate => Meaning'
<1> SUFFICES ASSUME IInv, Meaning, StartUpdate PROVE Meaning'
  OBVIOUS
<1>1. /\ pc = "hunk" /\ fs = Base /\ UNCHANGED <<patch, fs>>
      /\ Hunk.verb = "update" /\ Hunk.path \notin Unresolvable
      /\ i \in DOMAIN hunks /\ Hunk.path \in Paths
      /\ DOMAIN Hunk.chunks \subseteq Texts
      /\ Resolve(Hunk.path) = At(Base, Hunk.path)
      /\ follow_symlinks \in BOOLEAN
  BY HunkTypes DEF StartUpdate, AtHunk, Meaning, storage, IInv, Shape, Resolve, At, TypeOK
<1>2. PICK read \in ReadText(Hunk.path) :
         \/ /\ read \in DOMAIN Hunk.chunks
            /\ new_contents' = Hunk.chunks[read]
            /\ pc' = IF IsMove(Hunk) THEN "dest" ELSE "write"
            /\ i' = i
         \/ read \notin DOMAIN Hunk.chunks /\ Fail
  BY DEF StartUpdate
<1>3. CASE Fail /\ read \notin DOMAIN Hunk.chunks
  <2>1. ~StorageMayFail => ~Applicable(Hunk, Base)
    <3> SUFFICES ASSUME ~StorageMayFail, Applicable(Hunk, Base) PROVE FALSE
      OBVIOUS
    <3>1. /\ fs[Resolve(Hunk.path)] \in DOMAIN Hunk.chunks
          /\ ~Denied(Hunk.path, follow_symlinks)
      BY <1>1 DEF Applicable, Reachable, Denied
    <3>2. fs[Resolve(Hunk.path)] \notin {Binary, Directory}
      BY <1>1, <3>1, StorageAssumption
    <3> QED BY <1>1, <1>3, <3>1, <3>2, ReadIsContents
  <2> QED BY <1>1, <1>3, <2>1, FailBeforeWrite
<1>4. CASE /\ read \in DOMAIN Hunk.chunks
           /\ new_contents' = Hunk.chunks[read]
           /\ pc' = IF IsMove(Hunk) THEN "dest" ELSE "write"
           /\ i' = i
  <2>1. read # Failed
    BY <1>1, <1>4, StorageAssumption
  <2>2. read = fs[Resolve(Hunk.path)] /\ ~Denied(Hunk.path, follow_symlinks)
    BY <1>1, <2>1, ReadIsContents
  <2>3. /\ Hunk' = Hunk /\ Base' = Base /\ AppliedSoFar'
        /\ follow_symlinks' = follow_symlinks
    BY <1>1, <1>4, SameHunk DEF Meaning
  <2>4. Reachable(Base, Hunk.path)
    BY <1>1, <2>2 DEF Reachable, Denied
  <2>5. Base[At(Base, Hunk.path)] = read /\ new_contents' = Updated(Hunk, Base)
    BY <1>1, <1>4, <2>2 DEF Updated
  <2>6. Writing' => ~IsMove(Hunk)
    BY <1>4 DEF Writing
  <2>7. Prepared'
    BY <1>1, <1>4, <2>3, <2>4, <2>5, <2>6 DEF Prepared, Reachable
  <2> QED BY <1>4, <2>3, <2>7 DEF Meaning
<1> QED BY <1>2, <1>3, <1>4

LEMMA ReadDestinationMeaning == IInv /\ Meaning /\ ReadDestination => Meaning'
<1> SUFFICES ASSUME IInv, Meaning, ReadDestination PROVE Meaning'
  OBVIOUS
<1>1. /\ pc = "dest" /\ pc' = "write" /\ Prepared
      /\ UNCHANGED <<patch, fs, i, new_contents>>
      /\ Hunk.move_path \notin Unresolvable
  BY DEF ReadDestination, Meaning, storage
<1>2. /\ Hunk' = Hunk /\ Base' = Base /\ AppliedSoFar'
      /\ follow_symlinks' = follow_symlinks
  BY <1>1, SameHunk DEF Meaning
<1>3. Prepared'
  BY <1>1, <1>2 DEF Prepared, Reachable
<1> QED BY <1>1, <1>2, <1>3 DEF Meaning

LEMMA ParentMeaning == IInv /\ Meaning /\ (WriteMissesParent \/ CreateParent) => Meaning'
<1> SUFFICES ASSUME IInv, Meaning, WriteMissesParent \/ CreateParent PROVE Meaning'
  OBVIOUS
<1>1. /\ Writing /\ pc' \in {"mkdir", "retry"} /\ Prepared
      /\ UNCHANGED <<patch, fs, i, new_contents>>
  BY DEF WriteMissesParent, CreateParent, Meaning, storage, Writing, locals
<1>2. /\ Hunk' = Hunk /\ Base' = Base /\ AppliedSoFar'
      /\ follow_symlinks' = follow_symlinks
  BY <1>1, SameHunk DEF Meaning
<1>3. Prepared'
  BY <1>1, <1>2 DEF Prepared, Reachable
<1> QED BY <1>1, <1>2, <1>3 DEF Meaning

(* A hunk that may be written can be applied. *)
LEMMA WritableIsApplicable ==
    ASSUME IInv, Meaning, Writing, i \in DOMAIN hunks,
           Writable(HunkPath(Hunk), follow_symlinks)
    PROVE  Applicable(Hunk, Base)
<1>1. /\ Prepared /\ Hunk.verb \in {"add", "update"} /\ follow_symlinks \in BOOLEAN
      /\ IsMove(Hunk) => Hunk.verb = "update"
  BY DEF Meaning, IInv, Shape, TypeOK, IsMove
<1>2. Reachable(Base, HunkPath(Hunk)) /\ Base[HunkPath(Hunk)] # Directory
  BY <1>1 DEF Writable, Denied, Prepared, Reachable, HunkPath
<1> QED BY <1>1, <1>2 DEF Applicable, Prepared, HunkPath, IsMove

LEMMA WriteMeaning == IInv /\ Meaning /\ Write => Meaning'
<1> SUFFICES ASSUME IInv, Meaning, Write PROVE Meaning'
  OBVIOUS
<1>1. /\ i \in DOMAIN hunks /\ Writing /\ UNCHANGED patch
      /\ Prepared
      /\ Writable(HunkPath(Hunk), follow_symlinks)
      /\ fs' = [Base EXCEPT ![At(Base, HunkPath(Hunk))] = new_contents]
      /\ Hunk.verb \in {"add", "update"}
  BY DEF Write, WriteFile, Writing, Meaning, Prepared, Resolve, At, IInv, TypeOK, Running, Shape
<1>2. Applicable(Hunk, Base)
  BY <1>1, WritableIsApplicable
<1>3. CASE IsMove(Hunk)
  <2>1. /\ pc' = "check_dir" /\ UNCHANGED <<i, new_contents>>
        /\ HunkPath(Hunk) = Hunk.move_path
    BY <1>3 DEF Write, HunkPath, locals
  <2>2. /\ Hunk' = Hunk /\ Base' = Base /\ AppliedSoFar'
        /\ follow_symlinks' = follow_symlinks
    BY <1>1, <2>1, SameHunk DEF Meaning
  <2>3. HalfDone'
    BY <1>1, <1>2, <1>3, <2>1, <2>2 DEF HalfDone, Prepared, IsMove, Applicable, Reachable
  <2> QED BY <2>1, <2>2, <2>3 DEF Meaning, Writing
<1>4. CASE ~IsMove(Hunk)
  <2>1. HunkDone(Hunk) /\ HunkPath(Hunk) = Hunk.path
    BY <1>4 DEF Write, HunkPath
  <2>2. fs' = Effect(Hunk, Base)
    BY <1>1, <1>4, <2>1 DEF Effect, Prepared, IsMove, IsPlainUpdate
  <2>3. fs' \in [Files -> Nodes]
    BY WriteInvariant DEF IInv, TypeOK, StorageTypeOK
  <2> QED BY <1>1, <1>2, <2>1, <2>2, <2>3, HunkDoneMeaning
<1> QED BY <1>3, <1>4

LEMMA WriteErrorMeaning == IInv /\ Meaning /\ WriteError => Meaning'
<1> SUFFICES ASSUME IInv, Meaning, WriteError PROVE Meaning'
  OBVIOUS
<1>1. /\ i \in DOMAIN hunks /\ Writing /\ UNCHANGED patch /\ Prepared /\ Fail /\ i' = i
      /\ follow_symlinks \in BOOLEAN
      /\ Hunk.verb \in {"add", "update"} /\ HunkPath(Hunk) \in Paths
  BY HunkTypes
     DEF WriteError, Writing, Meaning, IInv, TypeOK, Running, Fail, Shape
<1>2. /\ Hunk' = Hunk /\ Base' = Base /\ hunks' = hunks
      /\ follow_symlinks' = follow_symlinks
  BY <1>1, SameHunk
<1>3. \/ fs' = fs
      \/ StorageMayFail /\ \E garbled :
            fs' = [Base EXCEPT ![At(Base, HunkPath(Hunk))] = garbled]
  BY <1>1 DEF WriteError, WriteFails, Prepared, Resolve, At
<1>4. CASE fs' = fs
  <2>1. ASSUME ~StorageMayFail PROVE ~Applicable(Hunk, Base)
    <3>1. Denied(HunkPath(Hunk), follow_symlinks) \/ fs[HunkPath(Hunk)] = Directory
      BY <2>1 DEF WriteError, WriteFails, Writable, CreateDirectoryFails
    <3>2. HunkPath(Hunk) = IF IsMove(Hunk) THEN Hunk.move_path ELSE Hunk.path
      BY DEF HunkPath
    <3>3. ASSUME IsPlainUpdate(Hunk) PROVE FALSE
      <4>1. /\ HunkPath(Hunk) = Hunk.path /\ Base[At(Base, Hunk.path)] \in Texts
            /\ Base[Hunk.path] = Link => follow_symlinks
        BY <1>1, <3>2, <3>3, HunkTypes
           DEF IsPlainUpdate, IsMove, Prepared, Reachable, IInv
      <4>2. Base[Hunk.path] # Directory
        BY <4>1, StorageAssumption DEF At
      <4> QED BY <1>1, <3>1, <4>1, <4>2 DEF Denied, Prepared
    <3> QED BY <1>1, <3>1, <3>2, <3>3
          DEF Applicable, Reachable, Denied, Prepared, IsPlainUpdate, IsMove
  <2> QED BY <1>1, <1>4, <2>1, FailBeforeWrite DEF Prepared
<1>5. CASE StorageMayFail /\ \E garbled :
              fs' = [Base EXCEPT ![At(Base, HunkPath(Hunk))] = garbled]
  <2>1. Base \in [Files -> Nodes]
    BY <1>1 DEF Prepared, IInv, TypeOK, StorageTypeOK
  <2>2. \A p \in Files : p # At(Base, HunkPath(Hunk)) => fs'[p] = Base[p]
    BY <1>5, <2>1
  <2>3. TreeAfter'[i' - 1] = Base
    BY <1>2 DEF Base
  <2>4. pc' # "hunk"
    BY <1>1 DEF Fail
  <2>5. HunksTakeEffectInOrder'
    BY <1>1, <1>2, <2>2, <2>3, <2>4 DEF HunksTakeEffectInOrder
  <2> QED BY <1>1, <1>5, <2>5, FailMeaning DEF StoppedWhereItMust
<1> QED BY <1>3, <1>4, <1>5

LEMMA RejectMeaning ==
    IInv /\ Meaning /\ (RejectEmptyPatch \/ RejectPath \/ RejectDestination) => Meaning'
<1> SUFFICES ASSUME IInv, Meaning, RejectEmptyPatch \/ RejectPath \/ RejectDestination
             PROVE  Meaning'
  OBVIOUS
<1>1. Fail /\ UNCHANGED <<patch, fs>> /\ fs = Base
  BY DEF RejectEmptyPatch, RejectPath, RejectDestination, AtHunk, storage, Meaning, Prepared
<1>2. CASE RejectEmptyPatch
  BY <1>1, <1>2, FailBeforeWrite DEF RejectEmptyPatch
<1>3. CASE RejectPath
  BY <1>1, <1>3, FailBeforeWrite DEF RejectPath, Applicable, Reachable
<1>4. CASE RejectDestination
  <2>1. IsMove(Hunk)
    BY <1>4 DEF RejectDestination, IInv, Shape
  <2> QED BY <1>1, <1>4, <2>1, FailBeforeWrite DEF RejectDestination, Applicable, Reachable
<1> QED BY <1>2, <1>3, <1>4

(* Between the write of a move and its removal only the destination differs. *)
LEMMA HalfDoneTree ==
    ASSUME IInv, Meaning, pc \in {"check_dir", "remove"}
    PROVE  /\ i \in DOMAIN hunks /\ HalfDone /\ Hunk.path \in Paths
           /\ Base \in [Files -> Nodes]
           /\ \A p \in Files : fs[p] = Base[p] \/ p = At(Base, HunkPath(Hunk))
<1>1. i \in DOMAIN hunks /\ HalfDone /\ Hunk.path \in Paths /\ i - 1 \in 0..(i - 1)
  BY HunkTypes DEF IInv, TypeOK, Running, Meaning
<1>2. Base \in [Files -> Nodes]
  BY <1>1 DEF Meaning, AppliedSoFar, Base
<1>3. CASE ~IsMove(Hunk)
  BY <1>1, <1>2, <1>3 DEF HalfDone
<1>4. CASE IsMove(Hunk)
  BY <1>1, <1>2, <1>4 DEF HalfDone, HunkPath
<1> QED BY <1>1, <1>2, <1>3, <1>4

(* On a storage that does not fail, the source of a move is still there. *)
LEMMA MovedSourceStays ==
    ASSUME IInv, Meaning, pc \in {"check_dir", "remove"}, IsMove(Hunk)
    PROVE  /\ ~Denied(Hunk.path, follow_symlinks)
           /\ fs[Hunk.path] \in Texts \cup {Link}
<1>1. /\ i \in DOMAIN hunks /\ HalfDone /\ Hunk.path \in Paths
      /\ Base \in [Files -> Nodes] /\ Hunk.path \in Files
      /\ Hunk.move_path \in Paths /\ Outside \notin Paths
      /\ follow_symlinks \in BOOLEAN
  BY HalfDoneTree, HunkTypes, StorageAssumption DEF IInv, Files, TypeOK
<1>2. /\ Base[Hunk.path] = Link => follow_symlinks
      /\ Base[Hunk.path] \in Texts \cup {Link}
      /\ Updated(Hunk, Base) \in Texts
  BY <1>1, HunkTypes DEF HalfDone, Applicable, Reachable, At, Updated, IsMove, IInv
<1>3. fs[Hunk.path] \in {Base[Hunk.path], Updated(Hunk, Base)}
  BY <1>1 DEF HalfDone
<1> QED BY <1>2, <1>3, StorageAssumption DEF Denied

LEMMA CheckMeaning == IInv /\ Meaning /\ CheckNotDirectory => Meaning'
<1> SUFFICES ASSUME IInv, Meaning, CheckNotDirectory PROVE Meaning'
  OBVIOUS
<1>1. /\ pc = "check_dir" /\ UNCHANGED <<patch, fs>> /\ i' = i
      /\ i \in DOMAIN hunks /\ HalfDone /\ Hunk.path \in Paths
  BY HalfDoneTree DEF CheckNotDirectory, storage, Fail
<1>2. /\ Hunk' = Hunk /\ Base' = Base /\ hunks' = hunks /\ AppliedSoFar'
      /\ follow_symlinks' = follow_symlinks
  BY <1>1, SameHunk DEF Meaning
<1>3. PICK kind \in GetMetadata(Hunk.path, follow_symlinks) :
         \/ kind \in {Failed, None, Directory} /\ Fail
         \/ /\ kind \notin {Failed, None, Directory}
            /\ pc' = "remove"
            /\ UNCHANGED new_contents
  BY DEF CheckNotDirectory, locals
<1>4. CASE pc' = "remove" /\ UNCHANGED new_contents /\ kind \notin {Failed, None, Directory}
  <2>1. Removable(Hunk.path, follow_symlinks)
    BY <1>4, StorageAssumption DEF Removable, GetMetadata, Faults
  <2>2. HalfDone'
    BY <1>1, <1>2, <1>4, <2>1 DEF HalfDone, Removable, Denied, Applicable, Reachable
  <2> QED BY <1>2, <1>4, <2>2 DEF Meaning, Writing
<1>5. CASE Fail /\ kind \in {Failed, None, Directory}
  <2>1. HunksTakeEffectInOrder'
    <3>1. TreeAfter'[i' - 1] = Base
      BY <1>2 DEF Base
    <3>2. pc' # "hunk"
      BY <1>5 DEF Fail
    <3>3. \A p \in Files : fs[p] = Base[p] \/ p = At(Base, HunkPath(Hunk))
      BY <1>1, HalfDoneTree
    <3> QED BY <1>1, <1>2, <3>1, <3>2, <3>3 DEF HunksTakeEffectInOrder
  <2>2. ASSUME ~StorageMayFail PROVE ~Applicable(Hunk, Base) /\ fs = Base
    <3>1. \/ Denied(Hunk.path, follow_symlinks)
          \/ fs[Hunk.path] \in {None, Directory}
      <4>1. fs[Hunk.path] \in Nodes
        BY <1>1, StorageFacts DEF IInv
      <4>2. fs[Hunk.path] # Failed /\ Regular \notin {Failed, None, Directory}
        BY <4>1, StorageAssumption DEF Nodes
      <4> QED BY <1>5, <2>2, <4>2 DEF GetMetadata, Faults
    <3>2. ~IsMove(Hunk)
      BY <1>1, <3>1, MovedSourceStays, StorageAssumption
    <3>3. Hunk.verb = "delete" /\ fs = Base
      BY <1>1, <3>2 DEF IInv, Shape, Removing, HalfDone
    <3> QED BY <3>1, <3>3 DEF Applicable, Reachable, Denied
  <2>3. StoppedWhereItMust'
    BY <1>1, <1>2, <2>2 DEF StoppedWhereItMust, Applicable, Reachable
  <2> QED BY <1>1, <1>5, <2>1, <2>3, FailMeaning
<1> QED BY <1>3, <1>4, <1>5

LEMMA RemoveSourceMeaning == IInv /\ Meaning /\ RemoveSource => Meaning'
<1> SUFFICES ASSUME IInv, Meaning, RemoveSource PROVE Meaning'
  OBVIOUS
<1>1. /\ pc = "remove" /\ i \in DOMAIN hunks /\ HalfDone /\ HunkDone(Hunk) /\ UNCHANGED patch
      /\ Removable(Hunk.path, follow_symlinks)
      /\ fs' = [fs EXCEPT ![Hunk.path] = None]
      /\ Hunk.verb = "delete" \/ IsMove(Hunk)
      /\ follow_symlinks \in BOOLEAN
  BY HalfDoneTree DEF RemoveSource, Remove, IInv, Shape, Removing, TypeOK
<1>2. fs' \in [Files -> Nodes]
  BY RemoveSourceInvariant DEF IInv, TypeOK, StorageTypeOK
<1>3. CASE IsMove(Hunk)
  <2>1. Applicable(Hunk, Base)
    BY <1>1, <1>3 DEF HalfDone
  <2>2. fs' = Effect(Hunk, Base)
    BY <1>1, <1>3 DEF HalfDone, Effect, IsMove, IsPlainUpdate
  <2> QED BY <1>1, <1>2, <2>1, <2>2, HunkDoneMeaning
<1>4. CASE ~IsMove(Hunk)
  <2>1. fs = Base /\ Hunk.verb = "delete"
    BY <1>1, <1>4 DEF HalfDone
  <2>2. Applicable(Hunk, Base)
    BY <1>1, <1>4, <2>1 DEF HalfDone, Removable, Denied, Applicable, Reachable
  <2>3. fs' = Effect(Hunk, Base)
    BY <1>1, <2>1 DEF Effect, IsMove, IsPlainUpdate
  <2> QED BY <1>1, <1>2, <2>2, <2>3, HunkDoneMeaning
<1> QED BY <1>3, <1>4

LEMMA RemoveErrorMeaning == IInv /\ Meaning /\ RemoveError => Meaning'
<1> SUFFICES ASSUME IInv, Meaning, RemoveError PROVE Meaning'
  OBVIOUS
<1>1. /\ pc = "remove" /\ pc' = "confirm" /\ i \in DOMAIN hunks /\ HalfDone
      /\ UNCHANGED <<patch, i>> /\ Hunk.path \in Paths
      /\ \A p \in Files : fs[p] = Base[p] \/ p = At(Base, HunkPath(Hunk))
  BY HalfDoneTree DEF RemoveError
<1>2. /\ Hunk' = Hunk /\ Base' = Base /\ hunks' = hunks /\ AppliedSoFar'
  BY <1>1, SameHunk DEF Meaning
<1>3. StorageMayFail
  BY <1>1, StorageAssumption DEF HalfDone, RemoveError, RemoveFails
<1>4. \A p \in Files : p # Hunk.path => fs'[p] = fs[p]
  BY <1>1 DEF RemoveError, RemoveFails, Remove, IInv, TypeOK, StorageTypeOK
<1>5. HunksTakeEffectInOrder'
  <2>1. TreeAfter'[i' - 1] = Base
    BY <1>2 DEF Base
  <2> QED BY <1>1, <1>2, <1>4, <2>1 DEF HunksTakeEffectInOrder
<1> QED BY <1>1, <1>2, <1>3, <1>5 DEF Meaning, Writing

LEMMA ConfirmMeaning == IInv /\ Meaning /\ ConfirmSource => Meaning'
<1> SUFFICES ASSUME IInv, Meaning, ConfirmSource PROVE Meaning'
  OBVIOUS
<1>1. /\ pc = "confirm" /\ Fail /\ UNCHANGED <<patch, fs, i>> /\ pc' = "failed"
      /\ StorageMayFail /\ HunksTakeEffectInOrder
  BY DEF ConfirmSource, storage, Meaning, Fail
<1>2. Hunk' = Hunk /\ hunks' = hunks /\ TreeAfter' = TreeAfter
  BY <1>1, SameHunk, TreesStay DEF patch
<1>3. HunksTakeEffectInOrder'
  BY <1>1, <1>2 DEF HunksTakeEffectInOrder
<1> QED BY <1>1, <1>3, FailMeaning DEF StoppedWhereItMust

LEMMA PrintMeaning == IInv /\ Meaning /\ PrintSummary => Meaning'
<1> SUFFICES ASSUME IInv, Meaning, PrintSummary PROVE Meaning'
  OBVIOUS
<1>1. /\ pc = "report" /\ pc' \in {"succeeded", "failed"} /\ UNCHANGED <<patch, fs, i>>
      /\ hunks # <<>> /\ i = Len(hunks) + 1 /\ fs = Base
      /\ i \notin DOMAIN hunks
  BY DEF PrintSummary, storage, Meaning, IInv, TypeOK
<1>2. /\ Base' = Base /\ hunks' = hunks /\ AppliedSoFar'
  BY <1>1, SameHunk DEF Meaning
<1>3. HunksTakeEffectInOrder'
  BY <1>1, <1>2 DEF HunksTakeEffectInOrder, Base
<1>4. StoppedWhereItMust'
  BY <1>1, <1>2 DEF StoppedWhereItMust
<1> QED BY <1>1, <1>2, <1>3, <1>4 DEF Meaning, Writing

LEMMA StutterMeaning == Meaning /\ UNCHANGED vars => Meaning'
<1> SUFFICES ASSUME Meaning, UNCHANGED vars PROVE Meaning'
  OBVIOUS
<1>1. UNCHANGED <<patch, i, pc, fs, new_contents>>
  BY DEF vars, locals, storage
<1>2. /\ Hunk' = Hunk /\ Base' = Base /\ hunks' = hunks /\ AppliedSoFar'
      /\ follow_symlinks' = follow_symlinks /\ TreeAfter' = TreeAfter
  BY <1>1, SameHunk, TreesStay DEF Meaning, patch
<1>3. (pc = "dest" \/ Writing => Prepared)'
  BY <1>1, <1>2 DEF Meaning, Prepared, Writing, Reachable
<1>4. (pc \in {"check_dir", "remove"} => HalfDone)'
  BY <1>1, <1>2 DEF Meaning, HalfDone, Applicable, Reachable, Removable, Denied
<1>5. (pc \in {"confirm", "failed"} => HunksTakeEffectInOrder)'
  BY <1>1, <1>2 DEF Meaning, HunksTakeEffectInOrder
<1>6. (pc = "failed" => StoppedWhereItMust)'
  BY <1>1, <1>2 DEF Meaning, StoppedWhereItMust, Applicable, Reachable
<1> QED BY <1>1, <1>2, <1>3, <1>4, <1>5, <1>6 DEF Meaning

LEMMA StepMeaning == IInv /\ Meaning /\ [Next]_vars => Meaning'
<1>1. IInv /\ Meaning /\ Step => Meaning'
  BY RejectMeaning, StartAddMeaning, StartDeleteMeaning, StartUpdateMeaning,
     ReadDestinationMeaning, ParentMeaning, WriteMeaning, WriteErrorMeaning, CheckMeaning,
     RemoveSourceMeaning, RemoveErrorMeaning, ConfirmMeaning, PrintMeaning
     DEF Step
<1> QED BY <1>1, StutterMeaning DEF Next, Returned

(* At every call of every hunk the tree is what TreeAfter says, up to the    *)
(* places that hunk has changed so far.                                      *)
THEOREM MeaningInvariant == Spec => []Meaning
BY InitMeaning, StepMeaning, Invariant, PTL DEF Spec

LEMMA MeaningGivesOrder == IInv /\ Meaning => HunksTakeEffectInOrder
<1> SUFFICES ASSUME IInv, Meaning, pc \notin {"confirm", "failed"}
             PROVE  HunksTakeEffectInOrder
  BY DEF Meaning
<1>1. CASE fs = Base
  BY <1>1 DEF HunksTakeEffectInOrder, Base
<1>2. CASE fs # Base
  <2>1. pc \in {"check_dir", "remove"}
    BY <1>2 DEF Meaning, Prepared, IInv, TypeOK, Running, Writing
  <2> QED BY <2>1, HalfDoneTree DEF HunksTakeEffectInOrder, Base
<1> QED BY <1>1, <1>2

(* Whatever fails and whenever: the hunks before the current one have taken  *)
(* effect, in order, and no other place has changed.                         *)
THEOREM InOrder == Spec => []HunksTakeEffectInOrder
BY Invariant, MeaningInvariant, MeaningGivesOrder, PTL

LEMMA MeaningGivesStops == IInv /\ Meaning => StopsOnlyWhereItMust
<1> SUFFICES ASSUME IInv, Meaning PROVE StopsOnlyWhereItMust
  OBVIOUS
<1>1. ASSUME pc = "succeeded"
      PROVE  /\ hunks # <<>>
             /\ \A k \in DOMAIN hunks : Applicable(hunks[k], TreeAfter[k - 1])
  <2>1. hunks # <<>> /\ i = Len(hunks) + 1 /\ DOMAIN hunks = 1..(i - 1)
    BY <1>1 DEF Meaning, IInv, TypeOK
  <2> QED BY <2>1 DEF Meaning, AppliedSoFar
<1>2. ASSUME pc = "failed", ~StorageMayFail, i \in DOMAIN hunks
      PROVE  ~Applicable(Hunk, TreeAfter[i - 1])
  BY <1>2 DEF Meaning, StoppedWhereItMust, Base
<1> QED BY <1>1, <1>2 DEF StopsOnlyWhereItMust

(* A success means that every hunk could be applied to what the hunks before *)
(* it left; on a storage that does not fail, so does a failure mean that the *)
(* hunk it stopped at could not.                                             *)
THEOREM StopsRightly == Spec => []StopsOnlyWhereItMust
BY Invariant, MeaningInvariant, MeaningGivesStops, PTL

-----------------------------------------------------------------------------
Cause(h, tree) ==
    \/ Opaque(tree, h.path)
    \/ Opaque(tree, HunkPath(h))
    \/ h.verb = "delete" /\ tree[h.path] = None

(* A storage that does not fail gives a reason for an answer that costs      *)
(* exactness, and the reason is in the place that was asked about.           *)
LEMMA SupportHasCause ==
    ASSUME IInv, NEW p \in Paths, ~StorageMayFail, FALSE \in DeltaSupport(p)
    PROVE  Opaque(fs, p)
<1>1. PICK kind \in GetMetadata(p, follow_symlinks) : kind \notin {Regular, None}
  BY DEF DeltaSupport
<1>2. fs[p] \in Nodes
  BY StorageFacts DEF IInv
<1> QED BY <1>1, <1>2 DEF GetMetadata, Faults, Denied, Opaque, Nodes

LEMMA ReadHasCause ==
    ASSUME IInv, NEW p \in Paths, ~StorageMayFail, Failed \in ReadText(p)
    PROVE  Opaque(fs, p)
BY ReadIsContents DEF Denied, Opaque, Resolve

LEMMA ReadOptionalHasCause ==
    ASSUME IInv, NEW p \in Paths, ~StorageMayFail, NEW read \in ReadOptional(p), ~read.exact
    PROVE  Opaque(fs, p)
<1>1. PICK supported \in DeltaSupport(p), r \in ReadText(p) :
         read = [content |-> IF r \in Texts THEN r ELSE None,
                 exact |-> supported /\ r # Failed]
  BY DEF ReadOptional
<1>2. supported \in BOOLEAN /\ (~supported \/ r = Failed)
  BY <1>1 DEF DeltaSupport
<1> QED BY <1>1, <1>2, SupportHasCause, ReadHasCause

(* The first step that costs exactness is one of the current hunk, at a      *)
(* place that has the cause in it.                                           *)
LEMMA LossHasCause ==
    ASSUME IInv, Meaning, Step, exact, ~exact', ~StorageMayFail
    PROVE  i \in DOMAIN hunks /\ Cause(Hunk, Base)
<1>1. ASSUME StartAdd PROVE i \in DOMAIN hunks /\ Cause(Hunk, Base)
  <2>1. i \in DOMAIN hunks /\ Hunk.path \in Paths /\ fs = Base
    BY <1>1, HunkTypes DEF StartAdd, AtHunk, IInv, Shape, Meaning
  <2>2. PICK read \in ReadOptional(Hunk.path) : exact' = (exact /\ read.exact)
    BY <1>1 DEF StartAdd
  <2> QED BY <2>1, <2>2, ReadOptionalHasCause DEF Cause
<1>2. ASSUME StartDelete PROVE i \in DOMAIN hunks /\ Cause(Hunk, Base)
  <2>1. i \in DOMAIN hunks /\ Hunk.path \in Paths /\ fs = Base /\ Hunk.verb = "delete"
    BY <1>2, HunkTypes DEF StartDelete, AtHunk, IInv, Shape, Meaning
  <2>2. PICK supported \in DeltaSupport(Hunk.path), read \in ReadText(Hunk.path) :
           exact' = (exact /\ supported /\ read \in Texts)
    BY <1>2 DEF StartDelete
  <2>3. CASE ~supported
    BY <2>1, <2>3, SupportHasCause DEF Cause, DeltaSupport
  <2>4. CASE read = Failed
    BY <2>1, <2>4, ReadHasCause DEF Cause
  <2>5. CASE read # Failed /\ read \notin Texts
    <3>1. read = fs[Resolve(Hunk.path)] /\ fs[Resolve(Hunk.path)] \in Nodes
      BY <2>1, <2>5, ReadIsContents, StorageFacts DEF IInv
    <3>2. fs[Hunk.path] \in {Link, None, Directory, Binary}
      BY <2>5, <3>1 DEF Resolve, Nodes
    <3> QED BY <2>1, <3>2 DEF Cause, Opaque
  <2> QED BY <2>2, <2>3, <2>4, <2>5 DEF DeltaSupport
<1>3. ASSUME StartUpdate PROVE i \in DOMAIN hunks /\ Cause(Hunk, Base)
  <2>1. i \in DOMAIN hunks /\ Hunk.path \in Paths /\ fs = Base
    BY <1>3, HunkTypes DEF StartUpdate, AtHunk, IInv, Shape, Meaning
  <2>2. PICK supported \in DeltaSupport(Hunk.path) : exact' = (exact /\ supported)
    BY <1>3 DEF StartUpdate
  <2> QED BY <2>1, <2>2, SupportHasCause DEF Cause, DeltaSupport
<1>4. ASSUME ReadDestination PROVE i \in DOMAIN hunks /\ Cause(Hunk, Base)
  <2>1. /\ i \in DOMAIN hunks /\ fs = Base
        /\ Hunk.move_path \in Paths /\ HunkPath(Hunk) = Hunk.move_path
    BY <1>4, HunkTypes
       DEF ReadDestination, IInv, TypeOK, Running, Shape, Meaning, Prepared, HunkPath
  <2>2. PICK read \in ReadOptional(Hunk.move_path) : exact' = (exact /\ read.exact)
    BY <1>4 DEF ReadDestination
  <2> QED BY <2>1, <2>2, ReadOptionalHasCause DEF Cause
<1>5. ASSUME WriteError PROVE i \in DOMAIN hunks /\ Cause(Hunk, Base)
  <2>1. i \in DOMAIN hunks /\ fs = Base
    BY <1>5 DEF WriteError, IInv, TypeOK, Running, Meaning, Prepared, Writing
  <2>2. Denied(HunkPath(Hunk), follow_symlinks) \/ fs[HunkPath(Hunk)] = Directory
    BY <1>5 DEF WriteError, WriteFails, Writable, CreateDirectoryFails
  <2> QED BY <2>1, <2>2 DEF Cause, Opaque, Denied
<1>6. ~ConfirmSource
  BY DEF ConfirmSource, Meaning
<1>7. ASSUME \/ RejectEmptyPatch \/ RejectPath \/ RejectDestination \/ Write
             \/ WriteMissesParent \/ CreateParent \/ CheckNotDirectory
             \/ RemoveSource \/ RemoveError \/ PrintSummary
      PROVE  exact' = exact
  BY <1>7 DEF RejectEmptyPatch, RejectPath, RejectDestination, Write, WriteMissesParent,
              CreateParent, CheckNotDirectory, RemoveSource, RemoveError, PrintSummary
<1> QED BY <1>1, <1>2, <1>3, <1>4, <1>5, <1>6, <1>7 DEF Step

(* Every step keeps the patch and stays at the current hunk or completes it. *)
LEMMA HunkByHunk ==
    ASSUME IInv, [Next]_vars
    PROVE  /\ UNCHANGED patch
           /\ \/ UNCHANGED <<i, affected>>
              \/ i \in DOMAIN hunks /\ HunkDone(Hunk)
<1>1. CASE Write
  BY <1>1 DEF Write, IInv, TypeOK, Running
<1>2. CASE RemoveSource
  BY <1>2 DEF RemoveSource, IInv, TypeOK, Running
<1>3. CASE UNCHANGED vars
  BY <1>3 DEF vars
<1> QED BY <1>1, <1>2, <1>3
     DEF Next, Step, Returned, RejectEmptyPatch, RejectPath, StartAdd, StartDelete,
         StartUpdate, ReadDestination, RejectDestination, WriteMissesParent, CreateParent,
         WriteError, CheckNotDirectory, RemoveError, ConfirmSource, PrintSummary, Fail

LEMMA StepExact == IInv /\ Meaning /\ ExactUnlessOpaque /\ [Next]_vars => ExactUnlessOpaque'
<1> SUFFICES ASSUME IInv, Meaning, ExactUnlessOpaque, [Next]_vars, ~exact', ~StorageMayFail
             PROVE  \E k \in 1..i' : k \in DOMAIN hunks' /\ Cause(hunks'[k], TreeAfter'[k - 1])
  BY DEF ExactUnlessOpaque, Cause
<1>1. hunks' = hunks /\ TreeAfter' = TreeAfter
  BY HunkByHunk, TreesStay DEF patch
<1>2. i \in Nat /\ 1 <= i /\ i' \in {i, i + 1}
  BY HunkByHunk DEF HunkDone, IInv, TypeOK
<1>3. \E k \in 1..i : k \in DOMAIN hunks /\ Cause(hunks[k], TreeAfter[k - 1])
  <2>1. CASE ~exact
    BY <2>1 DEF ExactUnlessOpaque, Cause
  <2>2. CASE exact
    <3>1. Step
      BY <2>2 DEF Next, Returned, vars
    <3>2. i \in DOMAIN hunks /\ Cause(Hunk, Base)
      BY <2>2, <3>1, LossHasCause
    <3> QED BY <1>2, <3>2 DEF Hunk, Base
  <2> QED BY <2>1, <2>2
<1>4. 1..i \subseteq 1..i'
  BY <1>2
<1> QED BY <1>1, <1>3, <1>4

(* On a storage that does not fail, a delta that is not exact has its cause  *)
(* in a place that some hunk named, in the tree as that hunk found it.       *)
THEOREM ExactWithoutCause == Spec => []ExactUnlessOpaque
<1>1. Init => ExactUnlessOpaque
  BY DEF Init, ExactUnlessOpaque
<1> QED BY <1>1, StepExact, Invariant, MeaningInvariant, PTL DEF Spec

-----------------------------------------------------------------------------
(***************************************************************************)
(* The delta, hunk by hunk.  While it is exact it holds one change for     *)
(* each hunk that is done, in order, and that change says what the hunk    *)
(* found and what it left.                                                 *)
(***************************************************************************)
ChangeOf(h, tree) ==
    CASE h.verb = "add" -> Add(h.path, h.contents, tree[h.path])
      [] h.verb = "delete" -> Delete(h.path, tree[h.path])
      [] IsPlainUpdate(h) -> Update(h.path, None, tree[h.path], None, Updated(h, tree))
      [] IsMove(h) ->
            Update(h.path, h.move_path, tree[h.path], tree[h.move_path], Updated(h, tree))

HalfMoved == Removing /\ IsMove(Hunk)

Logged ==
    exact /\ pc # "failed" =>
        /\ Len(changes) = IF HalfMoved THEN i ELSE i - 1
        /\ \A k \in 1..(i - 1) : changes[k] = ChangeOf(hunks[k], TreeAfter[k - 1])
        /\ HalfMoved => /\ original_contents = Base[Hunk.path]
                        /\ overwritten_content = Base[Hunk.move_path]

LEMMA InitLogged == Init => Logged
BY DEF Init, Logged, HalfMoved, Removing

(* A step that records nothing and does not end or half end the hunk. *)
LEMMA QuietLogged ==
    ASSUME IInv, Logged, UNCHANGED <<patch, i, changes>>, exact' => exact, pc # "failed",
           HalfMoved' => HalfMoved /\ UNCHANGED <<original_contents, overwritten_content>>,
           HalfMoved => HalfMoved'
    PROVE  Logged'
<1> SUFFICES ASSUME exact'
             PROVE  /\ Len(changes') = IF HalfMoved' THEN i' ELSE i' - 1
                    /\ \A k \in 1..(i' - 1) :
                          changes'[k] = (ChangeOf(hunks[k], TreeAfter[k - 1]))'
                    /\ HalfMoved' => /\ original_contents' = (Base[Hunk.path])'
                                     /\ overwritten_content' = (Base[Hunk.move_path])'
  BY DEF Logged
<1>1. hunks' = hunks /\ TreeAfter' = TreeAfter /\ Base' = Base /\ Hunk' = Hunk
  BY TreesStay, SameHunk DEF patch
<1>2. Len(changes') = IF HalfMoved' THEN i' ELSE i' - 1
  BY DEF Logged
<1>3. HalfMoved' => /\ original_contents' = (Base[Hunk.path])'
                   /\ overwritten_content' = (Base[Hunk.move_path])'
  BY <1>1 DEF Logged
<1>4. \A k \in 1..(i' - 1) : changes'[k] = (ChangeOf(hunks[k], TreeAfter[k - 1]))'
  BY <1>1 DEF Logged
<1> QED BY <1>2, <1>3, <1>4

(* The change of a hunk that is done is the last one. *)
LEMMA DoneLogged ==
    ASSUME IInv, Logged, exact, pc # "failed", i \in DOMAIN hunks, HunkDone(Hunk), UNCHANGED patch,
           Len(changes') = i,
           \A k \in 1..(i - 1) : changes'[k] = changes[k],
           changes'[i] = ChangeOf(Hunk, Base)
    PROVE  Logged'
<1>1. hunks' = hunks /\ TreeAfter' = TreeAfter
  BY TreesStay DEF patch
<1>2. /\ i \in Nat \ {0} /\ i' = i + 1 /\ ~HalfMoved' /\ i' - 1 = i
      /\ 1..i = 1..(i - 1) \cup {i}
  BY HunkTypes DEF IInv, HunkDone, HalfMoved, Removing
<1>3. \A k \in 1..i : changes'[k] = ChangeOf(hunks[k], TreeAfter[k - 1])
  BY <1>2 DEF Logged, Base, Hunk
<1>4. \A k \in 1..(i' - 1) : changes'[k] = (ChangeOf(hunks[k], TreeAfter[k - 1]))'
  BY <1>1, <1>2, <1>3
<1>5. Len(changes') = IF HalfMoved' THEN i' ELSE i' - 1
  BY <1>2
<1> QED BY <1>2, <1>4, <1>5 DEF Logged

LEMMA WriteLogged == IInv /\ IInv' /\ Meaning /\ Logged /\ Write => Logged'
<1> SUFFICES ASSUME IInv, IInv', Meaning, Logged, Write, exact' PROVE Logged'
  BY DEF Logged
<1>1. /\ i \in DOMAIN hunks /\ Writing /\ pc # "failed" /\ ~Removing /\ UNCHANGED <<patch, exact>>
      /\ Prepared /\ exact
      /\ changes' = Append(changes, WriteChange(Hunk))
      /\ changes \in Seq(Changes)
      /\ Hunk.verb \in {"add", "update"}
      /\ Tracked /\ i \in Nat \ {0}
  BY HunkTypes
     DEF Write, Writing, Removing, Meaning, IInv, TypeOK, Running, Shape
<1>2. /\ ~IsPlainUpdate(Hunk) => Base[HunkPath(Hunk)] = overwritten_content
      /\ Hunk.verb = "update" => Base[Hunk.path] = original_contents
  BY <1>1 DEF Tracked, Prepared
<1>3. Len(changes) = i - 1
  BY <1>1 DEF Logged, HalfMoved
<1>4. /\ Len(changes') = i
      /\ \A k \in 1..(i - 1) : changes'[k] = changes[k]
      /\ changes'[i] = WriteChange(Hunk)
  BY <1>1, <1>3
<1>5. CASE ~IsMove(Hunk)
  <2>1. WriteChange(Hunk) = ChangeOf(Hunk, Base)
    BY <1>1, <1>2, <1>5 DEF WriteChange, ChangeOf, Prepared, IsMove, IsPlainUpdate, HunkPath
  <2> QED BY <1>1, <1>4, <1>5, <2>1, DoneLogged DEF Write
<1>6. CASE IsMove(Hunk)
  <2>1. /\ i' = i /\ UNCHANGED locals /\ Hunk.verb = "update" /\ ~IsPlainUpdate(Hunk)
        /\ HunkPath(Hunk) = Hunk.move_path /\ pc' = "check_dir"
    BY <1>6 DEF Write, IsMove, IsPlainUpdate, HunkPath
  <2>2. Hunk' = Hunk /\ Base' = Base /\ hunks' = hunks /\ TreeAfter' = TreeAfter
    BY <1>1, <2>1, SameHunk, TreesStay DEF patch
  <2>3. \A k \in 1..(i' - 1) : changes'[k] = (ChangeOf(hunks[k], TreeAfter[k - 1]))'
    BY <1>1, <1>4, <2>1, <2>2 DEF Logged
  <2>4. HalfMoved'
    BY <1>6, <2>1, <2>2 DEF HalfMoved, Removing
  <2>5. /\ original_contents' = (Base[Hunk.path])'
        /\ overwritten_content' = (Base[Hunk.move_path])'
    BY <1>2, <2>1, <2>2 DEF locals
  <2> QED BY <1>4, <2>1, <2>3, <2>4, <2>5 DEF Logged
<1> QED BY <1>5, <1>6

LEMMA RemoveSourceLogged ==
    IInv /\ Meaning /\ Logged /\ RemoveSource => Logged'
<1> SUFFICES ASSUME IInv, Meaning, Logged, RemoveSource, exact' PROVE Logged'
  BY DEF Logged
<1>1. /\ pc = "remove" /\ pc # "failed" /\ i \in DOMAIN hunks /\ Removing /\ exact
      /\ HalfDone /\ HunkDone(Hunk) /\ UNCHANGED patch
      /\ changes' = RemovalChanges(Hunk) /\ changes \in Seq(Changes)
      /\ Hunk.verb = "delete" \/ IsMove(Hunk)
      /\ original_contents \in Texts
      /\ i \in Nat \ {0}
  BY HalfDoneTree, HunkTypes
     DEF RemoveSource, Removing, IInv, TypeOK, Shape, Tracked
<1>2. CASE IsMove(Hunk)
  <2>1. /\ HalfMoved /\ Len(changes) = i
        /\ original_contents = Base[Hunk.path]
        /\ overwritten_content = Base[Hunk.move_path]
    BY <1>1, <1>2 DEF Logged, HalfMoved
  <2>2. changes' = [changes EXCEPT ![i] = MoveChange(Hunk)]
    BY <1>1, <1>2, <2>1 DEF RemovalChanges
  <2>3. /\ Len(changes') = i /\ changes'[i] = MoveChange(Hunk)
        /\ \A k \in 1..(i - 1) : changes'[k] = changes[k]
    BY <1>1, <2>1, <2>2
  <2>4. new_contents = Updated(Hunk, Base)
    BY <1>1, <1>2 DEF HalfDone
  <2>5. MoveChange(Hunk) = ChangeOf(Hunk, Base)
    BY <1>2, <2>1, <2>4 DEF MoveChange, ChangeOf, IsMove, IsPlainUpdate
  <2> QED BY <1>1, <2>3, <2>5, DoneLogged
<1>3. CASE ~IsMove(Hunk)
  <2>1. Hunk.verb = "delete" /\ fs = Base /\ Len(changes) = i - 1
    BY <1>1, <1>3 DEF HalfDone, Logged, HalfMoved
  <2>2. original_contents = Base[Hunk.path]
    BY <1>1, <1>3, <2>1 DEF IInv, Tracked, OntoItself, SourceContents
  <2>3. changes' = Append(changes, ChangeOf(Hunk, Base))
    BY <1>1, <1>3, <2>1, <2>2, StorageAssumption
       DEF RemovalChanges, ChangeOf, IsMove, IsPlainUpdate
  <2>4. /\ Len(changes') = i /\ changes'[i] = ChangeOf(Hunk, Base)
        /\ \A k \in 1..(i - 1) : changes'[k] = changes[k]
    BY <1>1, <2>1, <2>3
  <2> QED BY <1>1, <2>4, DoneLogged
<1> QED BY <1>2, <1>3

LEMMA OtherLogged ==
    ASSUME IInv, Meaning, Logged,
           \/ RejectEmptyPatch \/ RejectPath \/ StartAdd \/ StartDelete \/ StartUpdate
           \/ ReadDestination \/ RejectDestination \/ WriteMissesParent \/ CreateParent
           \/ WriteError \/ CheckNotDirectory \/ RemoveError \/ ConfirmSource \/ PrintSummary
           \/ UNCHANGED vars
    PROVE  Logged'
<1> SUFFICES ASSUME exact', pc' # "failed" PROVE Logged'
  BY DEF Logged
<1>1. UNCHANGED <<patch, changes>> /\ ~Fail /\ (exact' => exact)
  BY DEF Fail, RejectEmptyPatch, RejectPath, StartAdd, StartDelete, StartUpdate,
         ReadDestination, RejectDestination, WriteMissesParent, CreateParent, WriteError,
         CheckNotDirectory, RemoveError, ConfirmSource, PrintSummary, vars
<1>2. UNCHANGED i /\ pc # "failed"
  BY <1>1 DEF RejectEmptyPatch, RejectPath, StartAdd, StartDelete, StartUpdate,
         ReadDestination, RejectDestination, WriteMissesParent, CreateParent, WriteError,
         CheckNotDirectory, RemoveError, ConfirmSource, PrintSummary, vars, AtHunk
<1>3. Hunk' = Hunk
  BY <1>1, <1>2, SameHunk
<1>4. CASE CheckNotDirectory \/ RemoveError \/ UNCHANGED vars
  <2>1. /\ HalfMoved' <=> HalfMoved
        /\ UNCHANGED <<original_contents, overwritten_content>>
    BY <1>1, <1>3, <1>4
       DEF CheckNotDirectory, RemoveError, HalfMoved, Removing, locals, vars
  <2> QED BY <1>1, <1>2, <2>1, QuietLogged
<1>5. CASE ~(CheckNotDirectory \/ RemoveError \/ UNCHANGED vars)
  <2>1. ~HalfMoved /\ ~HalfMoved'
    BY <1>1, <1>3, <1>5
       DEF Fail, RejectEmptyPatch, RejectPath, StartAdd, StartDelete, StartUpdate,
           ReadDestination, RejectDestination, WriteMissesParent, CreateParent, WriteError,
           ConfirmSource, PrintSummary, AtHunk, HalfMoved, Removing, IsMove
  <2> QED BY <1>1, <1>2, <2>1, QuietLogged
<1> QED BY <1>4, <1>5

LEMMA StepLogged == IInv /\ IInv' /\ Meaning /\ Logged /\ [Next]_vars => Logged'
BY WriteLogged, RemoveSourceLogged, OtherLogged DEF Next, Step, Returned

(* While the delta is exact, it holds one change for each hunk that is done, *)
(* and that change is what the hunk means on the tree the hunks before left. *)
THEOREM DeltaHunkByHunk == Spec => []Logged
BY InitLogged, StepLogged, Invariant, MeaningInvariant, PTL DEF Spec

-----------------------------------------------------------------------------
(***************************************************************************)
(* The summary, hunk by hunk: under each verb the paths of the hunks with  *)
(* that verb, in their order, exact or not.                                *)
(***************************************************************************)
Enumerates(at, paths, verb, n) ==
    /\ at \in [DOMAIN paths -> 1..n]
    /\ \A j, k \in DOMAIN paths : j < k => at[j] < at[k]
    /\ {at[k] : k \in DOMAIN paths} = {m \in 1..n : hunks[m].verb = verb}
    /\ \A k \in DOMAIN paths : paths[k] = HunkPath(hunks[at[k]])

Listed ==
    \A verb \in {"add", "update", "delete"} :
        \E at : Enumerates(at, affected[verb], verb, i - 1)

LEMMA InitListed == Init => Listed
<1> SUFFICES ASSUME Init, NEW verb \in {"add", "update", "delete"}
             PROVE  Enumerates(<<>>, <<>>, verb, i - 1)
  BY DEF Init, Listed
<1>1. i - 1 = 0 /\ 1..0 = {} /\ DOMAIN <<>> = {} /\ <<>> \in [{} -> {}]
  BY DEF Init
<1> QED BY <1>1 DEF Enumerates

LEMMA StepListed == IInv /\ Listed /\ [Next]_vars => Listed'
<1> SUFFICES ASSUME IInv, Listed, [Next]_vars, NEW verb \in {"add", "update", "delete"}
             PROVE  \E at : Enumerates(at, affected[verb], verb, i - 1)'
  BY DEF Listed
<1>1. PICK at : Enumerates(at, affected[verb], verb, i - 1)
  BY DEF Listed
<1>2. hunks' = hunks
  BY HunkByHunk DEF patch
<1>3. CASE UNCHANGED <<i, affected>>
  BY <1>1, <1>2, <1>3 DEF Enumerates
<1>4. CASE i \in DOMAIN hunks /\ HunkDone(Hunk)
  <2> DEFINE paths == affected[verb]
  <2>1. /\ i \in Nat \ {0} /\ i' - 1 = i /\ 1..i = 1..(i - 1) \cup {i}
        /\ paths \in Seq(Paths) /\ affected \in [{"add", "update", "delete"} -> Seq(Paths)]
        /\ HunkPath(Hunk) \in Paths
    BY <1>4, HunkTypes DEF IInv, TypeOK, HunkDone
  <2>2. CASE Hunk.verb # verb
    <3>1. affected'[verb] = paths
      BY <1>4, <2>1, <2>2 DEF HunkDone
    <3>2. Enumerates(at, paths, verb, i)
      BY <1>1, <2>1, <2>2 DEF Enumerates, Hunk
    <3> QED BY <1>2, <2>1, <3>1, <3>2 DEF Enumerates
  <2>3. CASE Hunk.verb = verb
    <3> DEFINE longer == Append(paths, HunkPath(Hunk))
               next == [k \in 1..(Len(paths) + 1) |-> IF k <= Len(paths) THEN at[k] ELSE i]
    <3>1. affected'[verb] = longer
      BY <1>4, <2>1, <2>3 DEF HunkDone
    <3>2. /\ Len(paths) \in Nat /\ DOMAIN paths = 1..Len(paths)
          /\ DOMAIN longer = 1..(Len(paths) + 1)
          /\ \A k \in 1..Len(paths) : longer[k] = paths[k]
          /\ longer[Len(paths) + 1] = HunkPath(Hunk)
      BY <2>1
    <3>3. /\ at \in [DOMAIN paths -> 1..(i - 1)]
          /\ \A j, k \in DOMAIN paths : j < k => at[j] < at[k]
          /\ {at[k] : k \in DOMAIN paths} = {m \in 1..(i - 1) : hunks[m].verb = verb}
          /\ \A k \in DOMAIN paths : paths[k] = HunkPath(hunks[at[k]])
      BY <1>1 DEF Enumerates
    <3>4. /\ \A k \in 1..Len(paths) : next[k] = at[k] /\ next[k] \in 1..(i - 1)
          /\ next[Len(paths) + 1] = i
          /\ DOMAIN next = 1..(Len(paths) + 1)
      BY <3>2, <3>3
    <3>5. 1..(Len(paths) + 1) = 1..Len(paths) \cup {Len(paths) + 1}
      BY <3>2
    <3> HIDE DEF paths, longer
    <3>6. next \in [DOMAIN longer -> 1..i]
      BY <2>1, <3>2, <3>4, <3>5
    <3> HIDE DEF next
    <3>7. ASSUME NEW j \in DOMAIN longer, NEW k \in DOMAIN longer, j < k
          PROVE  next[j] < next[k]
      <4>1. j \in 1..Len(paths) /\ next[j] = at[j] /\ at[j] \in 1..(i - 1)
        BY <3>2, <3>4, <3>7
      <4>2. CASE k \in 1..Len(paths)
        BY <3>2, <3>3, <3>4, <3>7, <4>1, <4>2
      <4>3. CASE k = Len(paths) + 1
        BY <2>1, <3>4, <4>1, <4>3
      <4> QED BY <3>2, <3>5, <4>2, <4>3
    <3>8. {next[k] : k \in DOMAIN longer} = {m \in 1..i : hunks[m].verb = verb}
      <4>1. {next[k] : k \in DOMAIN longer} = {at[k] : k \in DOMAIN paths} \cup {i}
        BY <3>2, <3>4, <3>5
      <4>2. {m \in 1..i : hunks[m].verb = verb} =
               {m \in 1..(i - 1) : hunks[m].verb = verb} \cup {i}
        BY <2>1, <2>3 DEF Hunk
      <4> QED BY <3>3, <4>1, <4>2
    <3>9. \A k \in DOMAIN longer : longer[k] = HunkPath(hunks[next[k]])
      BY <3>2, <3>3, <3>4, <3>5 DEF Hunk
    <3>10. Enumerates(next, longer, verb, i)
      BY <3>6, <3>7, <3>8, <3>9 DEF Enumerates
    <3> QED BY <1>2, <2>1, <3>1, <3>10 DEF Enumerates
  <2> QED BY <2>2, <2>3
<1> QED BY <1>3, <1>4, HunkByHunk

(* The summary lists, under each verb, the hunks that are done, in order.    *)
THEOREM SummaryHunkByHunk == Spec => []Listed
BY InitListed, StepListed, Invariant, PTL DEF Spec

LEMMA ChangeOfHunk ==
    ASSUME NEW h \in Hunks, NEW tree
    PROVE  /\ ChangeOf(h, tree).kind = h.verb
           /\ ReportedPath(ChangeOf(h, tree)) = HunkPath(h)
<1>1. h \in AllHunks
  BY PatchAssumption
<1>2. CASE h.verb = "add"
  BY <1>2 DEF ChangeOf, Add, ReportedPath, HunkPath, IsMove, IsPlainUpdate
<1>3. CASE h.verb = "delete"
  BY <1>3 DEF ChangeOf, Delete, ReportedPath, HunkPath, IsMove, IsPlainUpdate
<1>4. CASE h.verb = "update"
  BY <1>4 DEF ChangeOf, Update, ReportedPath, HunkPath, IsMove, IsPlainUpdate
<1> QED BY <1>1, <1>2, <1>3, <1>4 DEF AllHunks

LEMMA LoggedGivesSummary ==
    IInv /\ Meaning /\ Logged /\ Listed => SummaryAgreesWithDelta
<1> SUFFICES ASSUME IInv, Meaning, Logged, Listed, pc \in {"report", "succeeded"}, exact,
                    NEW verb \in {"add", "update", "delete"}
             PROVE  AreReported(affected[verb], verb)
  BY DEF SummaryAgreesWithDelta, IInv, TypeOK
<1>1. /\ Len(changes) = i - 1 /\ DOMAIN changes = 1..(i - 1) /\ i = Len(hunks) + 1
      /\ DOMAIN hunks = 1..(i - 1) /\ hunks \in Seq(Hunks)
      /\ \A k \in 1..(i - 1) : changes[k] = ChangeOf(hunks[k], TreeAfter[k - 1])
  BY DEF Logged, HalfMoved, Removing, IInv, TypeOK, Meaning
<1>2. PICK at : Enumerates(at, affected[verb], verb, i - 1)
  BY DEF Listed
<1>3. \A k \in 1..(i - 1) : /\ changes[k].kind = hunks[k].verb
                            /\ ReportedPath(changes[k]) = HunkPath(hunks[k])
  BY <1>1, ChangeOfHunk
<1>4. {m \in 1..(i - 1) : hunks[m].verb = verb} = {m \in DOMAIN changes : changes[m].kind = verb}
  BY <1>1, <1>3
<1>5. /\ at \in [DOMAIN affected[verb] -> DOMAIN changes]
      /\ \A j, k \in DOMAIN affected[verb] : j < k => at[j] < at[k]
      /\ {at[k] : k \in DOMAIN affected[verb]} = {m \in DOMAIN changes : changes[m].kind = verb}
  BY <1>1, <1>2, <1>4 DEF Enumerates
<1>6. \A k \in DOMAIN affected[verb] : affected[verb][k] = ReportedPath(changes[at[k]])
  BY <1>1, <1>2, <1>3 DEF Enumerates
<1> QED BY <1>5, <1>6 DEF AreReported

(* The summary on stdout and an exact delta name the same paths, in the same *)
(* order, under each verb.                                                   *)
THEOREM SummaryAndDelta == Spec => []SummaryAgreesWithDelta
BY Invariant, MeaningInvariant, DeltaHunkByHunk, SummaryHunkByHunk, LoggedGivesSummary, PTL
=============================================================================
