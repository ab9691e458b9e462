-------------------------- MODULE FileUpdateProofs --------------------------
(***************************************************************************)
(* Proofs about compute_replacements and apply_replacements, for every     *)
(* file, every list of chunks and every notion of similar lines: a search  *)
(* finds a place inside the file and not before where it starts, so the    *)
(* replacements stay inside the file and never overlap; and the new file   *)
(* is the splice of the old one and the added lines.                       *)
(*                                                                         *)
(* The inductive invariant says of every replacement that it ends before   *)
(* the place where the next search starts, or is an addition at the end.   *)
(* A second one says of the chunks placed so far where they are, and a     *)
(* third that the replacements are the gaps between their context lines.   *)
(***************************************************************************)
EXTENDS FileUpdate, SharedLemmas, TLAPS

Behind ==
    \A r \in replacements :
        r.start + r.old_len <= line_index \/ r.start = Len(source)

IInv == TypeOK /\ Behind /\ NeverOverlap

-----------------------------------------------------------------------------
(* Every set of natural numbers that is not empty has a least element. *)
LEMMA LeastElement ==
    ASSUME NEW S \in SUBSET Nat, S # {}
    PROVE  Least(S) \in S /\ \A n \in S : Least(S) <= n
BY LeastNatural DEF Least

(* seek_sequence finds a pattern inside the file, at or after start, and one *)
(* for the end of the file at its end.                                       *)
LEMMA SeekBounds ==
    ASSUME NEW lines \in Seq(Lines), NEW pattern \in Seq(Lines),
           NEW start \in 0..Len(lines), NEW eof \in BOOLEAN,
           NEW at, at = SeekSequence(lines, pattern, start, eof), at # None
    PROVE  /\ at \in Nat /\ start <= at /\ at + Len(pattern) <= Len(lines)
           /\ eof /\ pattern # <<>> => at + Len(pattern) = Len(lines)
<1> DEFINE first == SearchStart(lines, pattern, start, eof)
           found(pass) == Candidates(lines, pattern, first, pass)
           passes == PassesThatFind(lines, pattern, first)
<1>1. CASE pattern = <<>>
  BY <1>1 DEF SeekSequence
<1>2. CASE pattern # <<>>
  <2>1. passes # {} /\ at = Least(found(Least(passes)))
    BY <1>2 DEF SeekSequence
  <2>2. Least(passes) \in passes
    <3>1. passes \in SUBSET Nat
      BY DEF PassesThatFind, Passes
    <3> QED BY <2>1, <3>1, LeastElement
  <2>3. /\ first \in Nat /\ start <= first
        /\ eof => first >= Len(lines) - Len(pattern)
    BY DEF SearchStart
  <2>4. \A pass : found(pass) \subseteq first..(Len(lines) - Len(pattern))
    BY DEF Candidates
  <2>5. found(Least(passes)) \in SUBSET Nat /\ found(Least(passes)) # {}
    <3>1. found(Least(passes)) # {}
      BY <2>2 DEF PassesThatFind
    <3>2. first..(Len(lines) - Len(pattern)) \in SUBSET Nat
      BY <2>3
    <3> QED BY <2>4, <3>1, <3>2
  <2>6. at \in found(Least(passes))
    BY <2>1, <2>5, LeastElement
  <2> HIDE DEF first, found
  <2>7. at \in first..(Len(lines) - Len(pattern))
    BY <2>4, <2>6
  <2> QED BY <2>3, <2>7
<1> QED BY <1>1, <1>2

-----------------------------------------------------------------------------
LEMMA ChunkTypes ==
    ASSUME TypeOK, AtChunk
    PROVE  /\ c \in DOMAIN chunks
           /\ LineTexts(source) \in Seq(Lines)
           /\ Len(LineTexts(source)) = Len(source)
           /\ Chunk.old_lines \in Seq(Lines)
           /\ Chunk.new_lines \in Seq(Lines)
           /\ Chunk.change_context \in Lines \cup {None}
           /\ Chunk.is_end_of_file \in BOOLEAN
           /\ Chunk.context_line_indices \in Seq(Nat \X Nat)
<1>1. c \in DOMAIN chunks
  BY DEF TypeOK, AtChunk
<1>2. Chunk \in Chunks
  BY <1>1 DEF TypeOK, Chunk
<1>3. ASSUME NEW k \in DOMAIN source PROVE source[k].text \in Lines
  <2>1. source[k] \in SourceLines
    BY DEF TypeOK
  <2> QED BY <2>1 DEF SourceLines
<1>4. LineTexts(source) \in Seq(Lines) /\ Len(LineTexts(source)) = Len(source)
  BY <1>3 DEF TypeOK, LineTexts
<1> QED BY <1>1, <1>2, <1>4 DEF Chunks

(* The search goes on at or after the place where it was. *)
LEMMA SearchFromBounds ==
    ASSUME TypeOK, AtChunk, SearchFrom # None
    PROVE  SearchFrom \in line_index..Len(source)
<1>1. CASE Chunk.change_context = None
  BY <1>1 DEF SearchFrom, TypeOK
<1>2. CASE Chunk.change_context # None
  <2> DEFINE texts == LineTexts(source)
             pattern == <<Chunk.change_context>>
  <2>1. ContextAt # None /\ SearchFrom = ContextAt + 1
    BY <1>2 DEF SearchFrom
  <2>2. /\ texts \in Seq(Lines) /\ Len(texts) = Len(source)
        /\ line_index \in 0..Len(texts)
        /\ pattern \in Seq(Lines) /\ Len(pattern) = 1
    BY <1>2, ChunkTypes DEF TypeOK
  <2>3. ContextAt = SeekSequence(texts, pattern, line_index, FALSE)
    BY DEF ContextAt
  <2> HIDE DEF texts, pattern
  <2>4. FALSE \in BOOLEAN
    OBVIOUS
  <2>5. ContextAt \in Nat /\ line_index <= ContextAt /\ ContextAt + Len(pattern) <= Len(texts)
    BY <2>1, <2>2, <2>3, <2>4, SeekBounds
  <2> QED BY <2>1, <2>2, <2>5 DEF TypeOK
<1> QED BY <1>1, <1>2

(* The lines of a chunk are found inside the file, at or after from. *)
LEMMA RegionBounds ==
    ASSUME TypeOK, AtChunk, NEW from \in 0..Len(source),
           Region(Chunk, from).at # None
    PROVE  LET region == Region(Chunk, from)
           IN  /\ region.at \in Nat
               /\ from <= region.at
               /\ region.pattern \in Seq(Lines)
               /\ region.at + Len(region.pattern) <= Len(source)
               /\ Chunk.is_end_of_file /\ region.pattern # <<>> =>
                     region.at + Len(region.pattern) = Len(source)
<1> DEFINE texts == LineTexts(source)
           region == Region(Chunk, from)
           Seek(pattern) == SeekSequence(texts, pattern, from, Chunk.is_end_of_file)
           shorter == WithoutLastBlank(Chunk.old_lines)
<1>1. shorter \in Seq(Lines)
  BY ChunkTypes DEF WithoutLastBlank
<1>2. /\ region.pattern \in {Chunk.old_lines, shorter}
      /\ region.at = Seek(region.pattern)
  BY DEF Region
<1>3. region.pattern \in Seq(Lines)
  BY <1>1, <1>2, ChunkTypes
<1>4. texts \in Seq(Lines) /\ Len(texts) = Len(source) /\ Chunk.is_end_of_file \in BOOLEAN
  BY ChunkTypes
<1> HIDE DEF texts, region
<1>5. /\ region.at \in Nat /\ from <= region.at
      /\ region.at + Len(region.pattern) <= Len(texts)
      /\ Chunk.is_end_of_file /\ region.pattern # <<>> =>
            region.at + Len(region.pattern) = Len(texts)
  BY <1>2, <1>3, <1>4, SeekBounds DEF region
<1> QED BY <1>3, <1>4, <1>5 DEF region

-----------------------------------------------------------------------------
Start == <<-1, -1>>

(* A gap lies inside its region and before every later context line. *)
LEMMA GapBounds ==
    ASSUME TypeOK, AtChunk, NEW region, region.at \in Nat,
           region.pattern \in Seq(Lines),
           NEW p \in Kept(Chunk, region) \cup {Start}
    PROVE  LET r == GapAfter(Chunk, region, p)
           IN  /\ p[1] \in -1..(Len(region.pattern) - 1)
               /\ r.chunk = c
               /\ r.gap = p[1] + 1
               /\ r.start = region.at + p[1] + 1
               /\ r.old_len \in Nat
               /\ r.start + r.old_len <= region.at + Len(region.pattern)
               /\ \A q \in Kept(Chunk, region) :
                     q[1] > p[1] => r.start + r.old_len <= region.at + q[1]
<1> DEFINE kept == Kept(Chunk, region)
           behind == {q \in kept : q[1] > p[1]}
           r == GapAfter(Chunk, region, p)
           next == IF behind = {}
                   THEN <<Len(region.pattern), Len(region.new_slice)>>
                   ELSE CHOOSE q \in behind : \A o \in behind : q[1] <= o[1]
<1>1. \A q \in kept : q[1] \in Nat /\ q[1] < Len(region.pattern)
  BY ChunkTypes DEF Kept, ContextPairs
<1>2. p[1] \in -1..(Len(region.pattern) - 1)
  BY <1>1 DEF Start
<1>3. /\ r.chunk = c
      /\ r.gap = p[1] + 1
      /\ r.start = region.at + p[1] + 1
      /\ r.old_len = next[1] - p[1] - 1
  BY DEF GapAfter
<1> HIDE DEF kept, r
<1>4. /\ next[1] \in Nat
      /\ next[1] > p[1]
      /\ next[1] <= Len(region.pattern)
      /\ \A q \in behind : next[1] <= q[1]
  <2>1. CASE behind = {}
    BY <1>2, <2>1
  <2>2. CASE behind # {}
    <3> DEFINE firsts == {q[1] : q \in behind}
    <3>1. firsts \in SUBSET Nat /\ firsts # {}
      BY <1>1, <2>2
    <3>2. \E q \in behind : \A o \in behind : q[1] <= o[1]
      <4>1. Least(firsts) \in firsts /\ \A n \in firsts : Least(firsts) <= n
        <5> HIDE DEF firsts
        <5> QED BY <3>1, LeastElement
      <4>2. PICK q \in behind : q[1] = Least(firsts)
        BY <4>1
      <4>3. \A o \in behind : o[1] \in firsts
        OBVIOUS
      <4> QED BY <4>1, <4>2, <4>3
    <3>3. next \in behind /\ \A o \in behind : next[1] <= o[1]
      BY <2>2, <3>2
    <3> QED BY <1>1, <3>3
  <2> QED BY <2>1, <2>2
<1> HIDE DEF next
<1>5. \A q \in kept : q[1] > p[1] => next[1] <= q[1]
  BY <1>4
<1>6. \A q \in kept : q[1] > p[1] => region.at + p[1] + 1 + (next[1] - p[1] - 1) <= region.at + q[1]
  BY <1>1, <1>2, <1>4, <1>5
<1> QED BY <1>2, <1>3, <1>4, <1>6 DEF kept, r

(* The replacements of one region stay inside it and do not overlap. *)
LEMMA RegionReplacementsBounds ==
    ASSUME TypeOK, AtChunk, NEW region, region.at \in Nat,
           region.pattern \in Seq(Lines)
    PROVE  \A r \in RegionReplacements(Chunk, region) :
              /\ r.chunk = c
              /\ r.start \in Nat
              /\ r.old_len \in Nat
              /\ region.at <= r.start
              /\ r.start + r.old_len <= region.at + Len(region.pattern)
              /\ \A s \in RegionReplacements(Chunk, region) :
                    r.gap < s.gap => r.start + r.old_len <= s.start
<1> SUFFICES ASSUME NEW r \in RegionReplacements(Chunk, region)
             PROVE  /\ r.chunk = c
                    /\ r.start \in Nat
                    /\ r.old_len \in Nat
                    /\ region.at <= r.start
                    /\ r.start + r.old_len <= region.at + Len(region.pattern)
                    /\ \A s \in RegionReplacements(Chunk, region) :
                          r.gap < s.gap => r.start + r.old_len <= s.start
  OBVIOUS
<1>1. PICK p \in Kept(Chunk, region) \cup {Start} : r = GapAfter(Chunk, region, p)
  BY DEF RegionReplacements, Start
<1>2. /\ p[1] \in -1..(Len(region.pattern) - 1)
      /\ r.chunk = c
      /\ r.gap = p[1] + 1
      /\ r.start = region.at + p[1] + 1
      /\ r.old_len \in Nat
      /\ r.start + r.old_len <= region.at + Len(region.pattern)
      /\ \A q \in Kept(Chunk, region) :
            q[1] > p[1] => r.start + r.old_len <= region.at + q[1]
  BY <1>1, GapBounds
<1>3. ASSUME NEW s \in RegionReplacements(Chunk, region), r.gap < s.gap
      PROVE  r.start + r.old_len <= s.start
  <2>1. PICK q \in Kept(Chunk, region) \cup {Start} : s = GapAfter(Chunk, region, q)
    BY DEF RegionReplacements, Start
  <2>2. /\ q[1] \in -1..(Len(region.pattern) - 1)
        /\ s.gap = q[1] + 1
        /\ s.start = region.at + q[1] + 1
    BY <2>1, GapBounds
  <2>3. p[1] < q[1]
    BY <1>2, <1>3, <2>2
  <2>4. q \in Kept(Chunk, region)
    BY <1>2, <2>3 DEF Start
  <2>5. r.start + r.old_len <= region.at + q[1]
    BY <1>2, <2>3, <2>4
  <2> QED BY <1>2, <2>2, <2>5
<1> QED BY <1>2, <1>3

-----------------------------------------------------------------------------
LEMMA InitIInv == Init => IInv
BY UpdateAssumption DEF Init, IInv, TypeOK, Behind, NeverOverlap

LEMMA AddAtEndIInv == IInv /\ AddAtEnd => IInv'
<1> SUFFICES ASSUME IInv, AddAtEnd PROVE IInv'
  OBVIOUS
<1>1. SearchFrom \in line_index..Len(source) /\ c \in DOMAIN chunks
  BY SearchFromBounds, ChunkTypes DEF AddAtEnd, IInv
<1> DEFINE r == [chunk |-> c, gap |-> 0, start |-> Len(source), old_len |-> 0,
                 new_lines |-> Chunk.new_lines]
<1>2. /\ replacements' = replacements \cup {r}
      /\ r.chunk = c /\ r.start = Len(source) /\ r.old_len = 0
  BY DEF AddAtEnd
<1>3. line_index' = SearchFrom /\ c' = c + 1 /\ UNCHANGED <<source, chunks, pc>>
  BY DEF AddAtEnd, update
<1> HIDE DEF r
<1>4. TypeOK'
  BY <1>1, <1>2, <1>3 DEF IInv, TypeOK
<1>5. Behind'
  BY <1>1, <1>2, <1>3 DEF IInv, TypeOK, Behind
<1>6. NeverOverlap'
  BY <1>2, <1>3 DEF IInv, TypeOK, NeverOverlap
<1> QED BY <1>4, <1>5, <1>6 DEF IInv

LEMMA ReplaceLinesIInv == IInv /\ ReplaceLines => IInv'
<1> SUFFICES ASSUME IInv, ReplaceLines PROVE IInv'
  OBVIOUS
<1> DEFINE region == Region(Chunk, SearchFrom)
           new == RegionReplacements(Chunk, region)
<1>1. SearchFrom \in line_index..Len(source) /\ c \in DOMAIN chunks
  BY SearchFromBounds, ChunkTypes DEF ReplaceLines, IInv
<1>2. /\ region.at \in Nat /\ SearchFrom <= region.at
      /\ region.pattern \in Seq(Lines)
      /\ region.at + Len(region.pattern) <= Len(source)
  BY <1>1, RegionBounds DEF ReplaceLines, IInv, TypeOK
<1>3. \A r \in new :
         /\ r.chunk = c
         /\ r.start \in Nat
         /\ r.old_len \in Nat
         /\ region.at <= r.start
         /\ r.start + r.old_len <= region.at + Len(region.pattern)
         /\ \A s \in new : r.gap < s.gap => r.start + r.old_len <= s.start
  BY <1>2, RegionReplacementsBounds DEF ReplaceLines, IInv
<1>4. /\ replacements' = replacements \cup new
      /\ line_index' = region.at + Len(region.pattern)
      /\ c' = c + 1
      /\ UNCHANGED <<source, chunks, pc>>
  BY DEF ReplaceLines, update
<1>5. Len(region.pattern) \in Nat /\ Len(source) \in Nat /\ line_index \in Nat
      /\ c \in 1..Len(chunks)
  BY <1>1, <1>2 DEF IInv, TypeOK
<1> HIDE DEF region, new
<1>6. TypeOK'
  <2>1. line_index' \in 0..Len(source) /\ c' \in 1..(Len(chunks) + 1)
    BY <1>2, <1>4, <1>5
  <2>2. \A r \in new : /\ r.chunk \in 1..(c' - 1)
                       /\ r.start \in 0..Len(source)
                       /\ r.old_len \in 0..(Len(source) - r.start)
    BY <1>2, <1>3, <1>4, <1>5
  <2> QED BY <1>4, <1>5, <2>1, <2>2 DEF IInv, TypeOK
<1>7. Behind'
  <2>1. \A r \in new : r.start + r.old_len <= line_index'
    BY <1>3, <1>4
  <2>2. line_index <= line_index'
    BY <1>1, <1>2, <1>4, <1>5
  <2> QED BY <1>4, <1>5, <2>1, <2>2 DEF IInv, Behind, TypeOK
<1>8. NeverOverlap'
  <2> SUFFICES ASSUME NEW r \in replacements', NEW s \in replacements',
                      r.chunk < s.chunk \/ (r.chunk = s.chunk /\ r.gap < s.gap)
               PROVE  r.start + r.old_len <= s.start \/ r.start = Len(source)
    BY <1>4 DEF NeverOverlap
  <2>1. \A o \in replacements : o.chunk < c /\ o.chunk \in Nat
    BY DEF IInv, TypeOK
  <2>2. CASE r \in replacements /\ s \in replacements
    BY <2>2 DEF IInv, NeverOverlap
  <2>3. CASE r \in replacements /\ s \in new
    BY <1>1, <1>2, <1>3, <1>5, <2>3 DEF IInv, Behind, TypeOK
  <2>4. CASE r \in new /\ s \in replacements
    BY <1>3, <1>5, <2>1, <2>4
  <2>5. CASE r \in new /\ s \in new
    BY <1>3, <1>5, <2>5
  <2> QED BY <1>4, <2>2, <2>3, <2>4, <2>5
<1> QED BY <1>6, <1>7, <1>8 DEF IInv

(* Failing and rebuilding leave what the invariant speaks of alone. *)
LEMMA OtherStepsIInv ==
    ASSUME IInv, pc' \in {"place", "done", "failed"},
           UNCHANGED <<source, chunks, c, line_index, replacements>>
    PROVE  IInv'
BY DEF IInv, TypeOK, Behind, NeverOverlap

LEMMA NextIInv == IInv /\ [Next]_vars => IInv'
<1> SUFFICES ASSUME IInv, [Next]_vars PROVE IInv'
  OBVIOUS
<1>1. CASE AddAtEnd
  BY <1>1, AddAtEndIInv
<1>2. CASE ReplaceLines
  BY <1>2, ReplaceLinesIInv
<1>3. CASE LoseContext \/ LoseLines \/ Rebuild \/ Finished \/ UNCHANGED vars
  BY <1>3, OtherStepsIInv
  DEF LoseContext, LoseLines, Fail, Rebuild, Finished, vars, update, IInv, TypeOK
<1> QED BY <1>1, <1>2, <1>3 DEF Next, Step

(* The invariant of the file update holds in every state. *)
THEOREM Invariant == Spec => []IInv
<1> QED BY InitIInv, NextIInv, PTL DEF Spec

(* Every replacement lies inside the file, whatever the chunks are. *)
THEOREM TypeCorrect == Spec => []TypeOK
<1>1. IInv => TypeOK
  BY DEF IInv
<1> QED BY <1>1, Invariant, PTL

(* The replacements of an update never overlap, for files and chunk lists of *)
(* any length and however lenient the passes of a search are.                *)
THEOREM ReplacementsAreDisjoint == Spec => []NeverOverlap
<1>1. IInv => NeverOverlap
  BY DEF IInv
<1> QED BY <1>1, Invariant, PTL

-----------------------------------------------------------------------------
(***************************************************************************)
(* Where chunks were placed.  placed has an entry for every chunk behind   *)
(* c; what the entry of a chunk says of the end of the file stays true,    *)
(* since neither the file nor the chunks change.                           *)
(***************************************************************************)
Placements == [at : Nat, pattern : Seq(Lines), new_slice : Seq(Lines)]

PlacedInv ==
    /\ placed \in Seq(Placements)
    /\ Len(placed) = c - 1
    /\ EndOfFileChunksReachTheEnd
    /\ \A k \in DOMAIN placed : placed[k].new_slice = Wanted(k)

LEMMA PlacedOneMore ==
    ASSUME IInv, PlacedInv, AtChunk, NEW region \in Placements,
           placed' = Append(placed, region), c' = c + 1, UNCHANGED update,
           Chunk.is_end_of_file /\ region.pattern # <<>> =>
               region.at + Len(region.pattern) = Len(source),
           region.new_slice = IF region.pattern = Chunk.old_lines
                              THEN Chunk.new_lines
                              ELSE WithoutLastBlank(Chunk.new_lines)
    PROVE  PlacedInv'
<1>1. c \in 1..Len(chunks) /\ Len(placed) = c - 1
  BY DEF IInv, TypeOK, AtChunk, PlacedInv
<1>2. placed' \in Seq(Placements) /\ Len(placed') = c
  BY <1>1 DEF PlacedInv
<1>3. /\ \A k \in 1..(c - 1) : placed'[k] = placed[k]
      /\ placed'[c] = region
  BY <1>1 DEF PlacedInv
<1>4. ASSUME NEW k \in DOMAIN placed',
             chunks'[k].is_end_of_file, placed'[k].pattern # <<>>
      PROVE  placed'[k].at + Len(placed'[k].pattern) = Len(source')
  <2>1. CASE k = c
    BY <1>3, <1>4, <2>1 DEF update, Chunk
  <2>2. CASE k # c
    <3>1. k \in 1..(c - 1) /\ k \in DOMAIN placed
      BY <1>1, <1>2, <1>4, <2>2 DEF PlacedInv
    <3> QED BY <1>3, <1>4, <3>1 DEF PlacedInv, EndOfFileChunksReachTheEnd, update
  <2> QED BY <2>1, <2>2
<1>5. ASSUME NEW k \in DOMAIN placed'
      PROVE  placed'[k].new_slice = Wanted(k)'
  <2>1. CASE k = c
    BY <1>3, <2>1 DEF update, Chunk, Wanted, WithoutLastBlank
  <2>2. CASE k # c
    <3>1. k \in 1..(c - 1) /\ k \in DOMAIN placed
      BY <1>1, <1>2, <1>5, <2>2 DEF PlacedInv
    <3> QED BY <1>3, <3>1 DEF PlacedInv, update, Wanted, WithoutLastBlank
  <2> QED BY <2>1, <2>2
<1> QED BY <1>1, <1>2, <1>4, <1>5 DEF PlacedInv, EndOfFileChunksReachTheEnd

LEMMA SliceType ==
    ASSUME NEW lines \in Seq(Lines)
    PROVE  WithoutLastBlank(lines) \in Seq(Lines)
BY DEF WithoutLastBlank

LEMMA NextPlaced == IInv /\ PlacedInv /\ [Next]_vars => PlacedInv'
<1> SUFFICES ASSUME IInv, PlacedInv, [Next]_vars PROVE PlacedInv'
  OBVIOUS
<1>1. CASE AddAtEnd
  <2> DEFINE region == [at |-> Len(source), pattern |-> <<>>, new_slice |-> Chunk.new_lines]
  <2>1. region \in Placements
    BY <1>1, ChunkTypes DEF AddAtEnd, IInv, TypeOK, Placements
  <2>2. /\ region.pattern = Chunk.old_lines /\ region.new_slice = Chunk.new_lines
        /\ region.pattern = <<>>
        /\ AtChunk /\ placed' = Append(placed, region) /\ c' = c + 1 /\ UNCHANGED update
    BY <1>1 DEF AddAtEnd
  <2> HIDE DEF region
  <2> QED BY <2>1, <2>2, PlacedOneMore
<1>2. CASE ReplaceLines
  <2> DEFINE region == Region(Chunk, SearchFrom)
  <2>1. SearchFrom \in 0..Len(source)
    BY <1>2, SearchFromBounds DEF ReplaceLines, IInv, TypeOK
  <2>2. /\ region.at \in Nat
        /\ region.pattern \in Seq(Lines)
        /\ Chunk.is_end_of_file /\ region.pattern # <<>> =>
              region.at + Len(region.pattern) = Len(source)
    BY <1>2, <2>1, RegionBounds DEF ReplaceLines, IInv
  <2>3. region = [at |-> region.at, pattern |-> region.pattern,
                  new_slice |-> region.new_slice]
    BY DEF Region
  <2>4. region.new_slice \in Seq(Lines)
    BY <1>2, ChunkTypes, SliceType DEF Region, ReplaceLines, IInv
  <2>5. region \in Placements
    <3> HIDE DEF region
    <3> QED BY <2>2, <2>3, <2>4 DEF Placements
  <2>6. AtChunk /\ placed' = Append(placed, region) /\ c' = c + 1 /\ UNCHANGED update
    BY <1>2 DEF ReplaceLines
  <2>7. region.new_slice = IF region.pattern = Chunk.old_lines
                           THEN Chunk.new_lines
                           ELSE WithoutLastBlank(Chunk.new_lines)
    BY DEF Region
  <2> HIDE DEF region
  <2> QED BY <2>2, <2>5, <2>6, <2>7, PlacedOneMore
<1>3. CASE LoseContext \/ LoseLines \/ Rebuild \/ Finished \/ UNCHANGED vars
  <2>1. UNCHANGED <<update, c, placed>>
    BY <1>3 DEF LoseContext, LoseLines, Fail, Rebuild, Finished, vars
  <2> QED BY <2>1 DEF PlacedInv, EndOfFileChunksReachTheEnd, Wanted, WithoutLastBlank, update
<1> QED BY <1>1, <1>2, <1>3 DEF Next, Step

(* A chunk marked as the end of the file is placed there, whichever pass     *)
(* found it, with or without its last blank line, for files and chunk lists  *)
(* of any length; only one whose lines are all given up escapes this.        *)
THEOREM EndsAtEndOfFile == Spec => []EndOfFileChunksReachTheEnd
<1>1. Init => PlacedInv
  BY DEF Init, PlacedInv, EndOfFileChunksReachTheEnd
<1>2. PlacedInv => EndOfFileChunksReachTheEnd
  BY DEF PlacedInv
<1> QED BY <1>1, <1>2, NextPlaced, Invariant, PTL DEF Spec

-----------------------------------------------------------------------------
(***************************************************************************)
(* InOrder lists the elements of a finite set, and is the only list that   *)
(* goes up.                                                                *)
(***************************************************************************)
(* f goes through S, and upwards. *)
Enumerates(f, N, S, before) ==
    /\ f \in [1..N -> S]
    /\ \A x \in S : \E n \in 1..N : f[n] = x
    /\ \A m, n \in 1..N : m < n => <<f[m], f[n]>> \in before

Asymmetric(S, before) == \A x, y \in S : <<x, y>> \in before => <<y, x>> \notin before

LEMMA EnumerationIsInjective ==
    ASSUME NEW S, NEW before, NEW N \in Nat, NEW f, Enumerates(f, N, S, before),
           Asymmetric(S, before)
    PROVE  /\ \A m, n \in 1..N : f[m] = f[n] => m = n
           /\ \A m, n \in 1..N : <<f[m], f[n]>> \in before <=> m < n
<1>1. \A n \in 1..N : f[n] \in S
  BY DEF Enumerates
<1>2. ASSUME NEW m \in 1..N, NEW n \in 1..N, m < n
      PROVE  f[m] # f[n] /\ <<f[m], f[n]>> \in before /\ <<f[n], f[m]>> \notin before
  <2>1. <<f[m], f[n]>> \in before
    BY <1>2 DEF Enumerates
  <2> QED BY <1>1, <2>1 DEF Asymmetric
<1>3. \A n \in 1..N : <<f[n], f[n]>> \notin before
  BY <1>1 DEF Asymmetric
<1>4. \A m, n \in 1..N : m < n \/ m = n \/ n < m
  OBVIOUS
<1> QED BY <1>2, <1>3, <1>4

LEMMA IsInOrder ==
    ASSUME NEW S, NEW before, NEW N \in Nat, NEW f, Enumerates(f, N, S, before),
           Asymmetric(S, before)
    PROVE  f = InOrder(S, before) /\ Cardinality(S) = N /\ IsFiniteSet(S)
<1>1. /\ \A m, n \in 1..N : f[m] = f[n] => m = n
      /\ \A m, n \in 1..N : <<f[m], f[n]>> \in before <=> m < n
  BY EnumerationIsInjective
<1>2. f \in Bijection(1..N, S)
  BY <1>1 DEF Enumerates, Bijection, Injection, Surjection, IsInjective
<1>3. Cardinality(S) = N /\ IsFiniteSet(S)
  <2>1. ExistsBijection(1..N, S)
    BY <1>2 DEF ExistsBijection
  <2> QED BY <2>1, FS_CountingElements, FS_NatBijection
<1> DEFINE smaller(x) == {y \in S : <<y, x>> \in before}
<1>4. ASSUME NEW n \in 1..N PROVE Cardinality(smaller(f[n])) = n - 1
  <2> DEFINE g == [k \in 1..(n - 1) |-> f[k]]
  <2>1. \A k \in 1..(n - 1) : k \in 1..N /\ k < n
    OBVIOUS
  <2>2. smaller(f[n]) = {f[k] : k \in 1..(n - 1)}
    <3>1. ASSUME NEW y \in smaller(f[n]) PROVE \E k \in 1..(n - 1) : y = f[k]
      <4>1. PICK k \in 1..N : y = f[k]
        BY DEF Enumerates
      <4>2. k < n
        BY <1>1, <4>1
      <4> QED BY <4>1, <4>2
    <3>2. ASSUME NEW k \in 1..(n - 1) PROVE f[k] \in smaller(f[n])
      <4>1. k \in 1..N /\ k < n /\ f[k] \in S
        BY <2>1 DEF Enumerates
      <4> QED BY <1>1, <4>1
    <3> QED BY <3>1, <3>2
  <2>3. g \in Bijection(1..(n - 1), smaller(f[n]))
    <3>1. g \in [1..(n - 1) -> smaller(f[n])]
      BY <2>2
    <3>2. \A j, k \in 1..(n - 1) : g[j] = g[k] => j = k
      BY <1>1, <2>1
    <3>3. \A y \in smaller(f[n]) : \E k \in 1..(n - 1) : g[k] = y
      BY <2>2
    <3> HIDE DEF g, smaller
    <3> QED BY <3>1, <3>2, <3>3 DEF Bijection, Injection, Surjection, IsInjective
  <2>4. ExistsBijection(1..(n - 1), smaller(f[n]))
    <3> HIDE DEF smaller, g
    <3> QED BY <2>3 DEF ExistsBijection
  <2>5. n - 1 \in Nat
    OBVIOUS
  <2> HIDE DEF smaller
  <2> QED BY <2>4, <2>5, FS_CountingElements
<1>5. ASSUME NEW n \in 1..N
      PROVE  f[n] = CHOOSE x \in S : Cardinality(smaller(x)) = n - 1
  <2> HIDE DEF smaller
  <2>1. f[n] \in S /\ Cardinality(smaller(f[n])) = n - 1
    BY <1>4 DEF Enumerates
  <2>2. ASSUME NEW x \in S, Cardinality(smaller(x)) = n - 1 PROVE x = f[n]
    <3>1. PICK m \in 1..N : f[m] = x
      BY DEF Enumerates
    <3>2. m - 1 = n - 1
      BY <1>4, <2>2, <3>1
    <3> QED BY <3>1, <3>2
  <2> QED BY <2>1, <2>2
<1>6. f = [n \in 1..N |-> CHOOSE x \in S : Cardinality(smaller(x)) = n - 1]
  <2> HIDE DEF smaller
  <2> QED BY <1>5 DEF Enumerates
<1> QED BY <1>3, <1>6 DEF InOrder

(* What is before an element, counted, tells the elements apart. *)
LEMMA InOrderEnumerates ==
    ASSUME NEW S, NEW before, IsFiniteSet(S), Asymmetric(S, before),
           \A x, y \in S : x = y \/ <<x, y>> \in before \/ <<y, x>> \in before,
           \A x, y, z \in S : <<x, y>> \in before /\ <<y, z>> \in before => <<x, z>> \in before
    PROVE  Cardinality(S) \in Nat /\ Enumerates(InOrder(S, before), Cardinality(S), S, before)
<1> DEFINE N == Cardinality(S)
           smaller(x) == {y \in S : <<y, x>> \in before}
           rank == [x \in S |-> Cardinality(smaller(x)) + 1]
<1>0. N \in Nat
  BY FS_CardinalityType
<1>1. ASSUME NEW x \in S
      PROVE  /\ IsFiniteSet(smaller(x)) /\ Cardinality(smaller(x)) \in Nat
             /\ Cardinality(smaller(x)) < N
  <2>1. smaller(x) \in SUBSET S /\ smaller(x) # S
    BY DEF Asymmetric
  <2> HIDE DEF smaller
  <2>2. /\ IsFiniteSet(smaller(x)) /\ Cardinality(smaller(x)) <= N
        /\ N = Cardinality(smaller(x)) => S = smaller(x)
    BY <2>1, FS_Subset
  <2>3. Cardinality(smaller(x)) \in Nat
    BY <2>2, FS_CardinalityType
  <2> QED BY <1>0, <2>1, <2>2, <2>3
<1>2. ASSUME NEW x \in S, NEW y \in S, <<x, y>> \in before
      PROVE  Cardinality(smaller(x)) < Cardinality(smaller(y))
  <2>1. smaller(x) \in SUBSET smaller(y) /\ x \in smaller(y) /\ x \notin smaller(x)
    BY <1>2 DEF Asymmetric
  <2> HIDE DEF smaller
  <2>2. /\ Cardinality(smaller(x)) <= Cardinality(smaller(y))
        /\ Cardinality(smaller(y)) = Cardinality(smaller(x)) => smaller(y) = smaller(x)
    BY <1>1, <2>1, FS_Subset
  <2> QED BY <1>1, <2>1, <2>2
<1>3. rank \in Injection(S, 1..N)
  <2>1. rank \in [S -> 1..N]
    <3> HIDE DEF smaller
    <3> QED BY <1>0, <1>1
  <2>2. ASSUME NEW x \in S, NEW y \in S, rank[x] = rank[y] PROVE x = y
    <3>1. Cardinality(smaller(x)) = Cardinality(smaller(y))
      <4> HIDE DEF smaller
      <4> QED BY <1>1, <2>2
    <3>2. ~(<<x, y>> \in before) /\ ~(<<y, x>> \in before)
      <4> HIDE DEF smaller
      <4> QED BY <1>1, <1>2, <3>1
    <3> QED BY <3>2
  <2> HIDE DEF rank
  <2> QED BY <2>1, <2>2 DEF Injection, IsInjective
<1>4. rank \in Surjection(S, 1..N)
  <2>1. IsFiniteSet(1..N) /\ Cardinality(1..N) = N
    <3>1. 1 \in Int /\ N \in Int
      BY <1>0
    <3>2. IsFiniteSet(1..N) /\ Cardinality(1..N) = IF 1 > N THEN 0 ELSE N - 1 + 1
      BY <3>1, FS_Interval
    <3> QED BY <1>0, <3>2
  <2> HIDE DEF rank
  <2> QED BY <1>3, <2>1, FS_Injection
<1> DEFINE f == InOrder(S, before)
<1>5. ASSUME NEW n \in 1..N
      PROVE  f[n] \in S /\ Cardinality(smaller(f[n])) = n - 1
  <2>1. \E x \in S : rank[x] = n
    <3> HIDE DEF rank
    <3> QED BY <1>4 DEF Surjection
  <2>2. \E x \in S : Cardinality(smaller(x)) = n - 1
    <3> HIDE DEF smaller
    <3> QED BY <1>1, <2>1
  <2>3. f[n] = CHOOSE x \in S : Cardinality(smaller(x)) = n - 1
    BY DEF InOrder
  <2> HIDE DEF smaller, f
  <2> QED BY <2>2, <2>3
<1>6. f = [n \in 1..N |-> CHOOSE x \in S : Cardinality(smaller(x)) = n - 1]
  BY DEF InOrder
<1> HIDE DEF f
<1>7. f \in [1..N -> S]
  <2> HIDE DEF smaller
  <2> QED BY <1>5, <1>6
<1>8. ASSUME NEW x \in S PROVE \E n \in 1..N : f[n] = x
  <2>1. rank[x] \in 1..N /\ rank[f[rank[x]]] = rank[x] /\ f[rank[x]] \in S
    <3>1. rank[x] \in 1..N
      <4> HIDE DEF rank
      <4> QED BY <1>3 DEF Injection
    <3>2. f[rank[x]] \in S /\ Cardinality(smaller(f[rank[x]])) = rank[x] - 1
      <4> HIDE DEF rank, smaller
      <4> QED BY <1>5, <3>1
    <3> HIDE DEF smaller
    <3> QED BY <1>1, <3>1, <3>2
  <2>2. f[rank[x]] = x
    <3> HIDE DEF rank
    <3> QED BY <1>3, <2>1 DEF Injection, IsInjective
  <2> QED BY <2>1, <2>2
<1>9. ASSUME NEW m \in 1..N, NEW n \in 1..N, m < n PROVE <<f[m], f[n]>> \in before
  <2> HIDE DEF smaller
  <2>1. /\ f[m] \in S /\ Cardinality(smaller(f[m])) = m - 1
        /\ f[n] \in S /\ Cardinality(smaller(f[n])) = n - 1
    BY <1>5
  <2>2. f[m] # f[n] /\ ~(<<f[n], f[m]>> \in before)
    BY <1>2, <1>9, <2>1
  <2> QED BY <2>1, <2>2
<1> QED BY <1>0, <1>7, <1>8, <1>9 DEF Enumerates, f

-----------------------------------------------------------------------------
(***************************************************************************)
(* Lines with keys: what the lines are of a set of entries, in the order   *)
(* of their keys.                                                          *)
(***************************************************************************)
Entries == [key : Nat \X Nat \X Nat \X Nat, line : SourceLines]

LEMMA KeyBeforeIs ==
    ASSUME NEW x \in Entries, NEW y \in Entries
    PROVE  KeyBefore(x, y)
             <=> \/ x.key[1] < y.key[1]
                 \/ x.key[1] = y.key[1] /\ x.key[2] < y.key[2]
                 \/ /\ x.key[1] = y.key[1] /\ x.key[2] = y.key[2]
                    /\ x.key[3] < y.key[3]
                 \/ /\ x.key[1] = y.key[1] /\ x.key[2] = y.key[2]
                    /\ x.key[3] = y.key[3] /\ x.key[4] < y.key[4]
<1> DEFINE Less(d) == /\ x.key[d] < y.key[d]
                      /\ \A e \in 1..(d - 1) : x.key[e] = y.key[e]
<1>1. KeyBefore(x, y) <=> Less(1) \/ Less(2) \/ Less(3) \/ Less(4)
  <2>1. 1..4 = {1, 2, 3, 4}
    OBVIOUS
  <2>2. KeyBefore(x, y) <=> \E d \in {1, 2, 3, 4} : Less(d)
    BY <2>1 DEF KeyBefore
  <2> HIDE DEF Less
  <2> QED BY <2>2
<1>2. Less(1) <=> x.key[1] < y.key[1]
  OBVIOUS
<1>3. Less(2) <=> x.key[1] = y.key[1] /\ x.key[2] < y.key[2]
  <2>1. 1..(2 - 1) = {1}
    OBVIOUS
  <2> QED BY <2>1
<1>4. Less(3) <=> x.key[1] = y.key[1] /\ x.key[2] = y.key[2] /\ x.key[3] < y.key[3]
  <2>1. 1..(3 - 1) = {1, 2}
    OBVIOUS
  <2> QED BY <2>1
<1>5. Less(4) <=> /\ x.key[1] = y.key[1] /\ x.key[2] = y.key[2]
                  /\ x.key[3] = y.key[3] /\ x.key[4] < y.key[4]
  <2>1. 1..(4 - 1) = {1, 2, 3}
    OBVIOUS
  <2> QED BY <2>1
<1> HIDE DEF Less
<1> QED BY <1>1, <1>2, <1>3, <1>4, <1>5

KeyOrder(C) == {p \in C \X C : KeyBefore(p[1], p[2])}

LEMMA InKeyOrder ==
    ASSUME NEW C, NEW x, NEW y
    PROVE  <<x, y>> \in KeyOrder(C) <=> x \in C /\ y \in C /\ KeyBefore(x, y)
BY DEF KeyOrder

LEMMA KeysAsymmetric == ASSUME NEW C \in SUBSET Entries PROVE Asymmetric(C, KeyOrder(C))
<1> SUFFICES ASSUME NEW x \in C, NEW y \in C, KeyBefore(x, y) PROVE ~KeyBefore(y, x)
  BY InKeyOrder DEF Asymmetric
<1>1. x \in Entries /\ y \in Entries
  OBVIOUS
<1>2. \A d \in 1..4 : x.key[d] \in Nat /\ y.key[d] \in Nat
  BY <1>1 DEF Entries
<1>3. /\ x.key[1] \in Nat /\ x.key[2] \in Nat /\ x.key[3] \in Nat /\ x.key[4] \in Nat
      /\ y.key[1] \in Nat /\ y.key[2] \in Nat /\ y.key[3] \in Nat /\ y.key[4] \in Nat
  BY <1>2
<1> QED BY <1>1, <1>3, KeyBeforeIs

Listing(lines, C) ==
    /\ lines \in Seq(SourceLines)
    /\ \E f : /\ Enumerates(f, Len(lines), C, KeyOrder(C))
              /\ \A n \in 1..Len(lines) : lines[n] = f[n].line

LEMMA ListingNothing == Listing(<<>>, {})
<1>1. Enumerates(<<>>, Len(<<>>), {}, KeyOrder({}))
  BY DEF Enumerates
<1>2. <<>> \in Seq(SourceLines) /\ \A n \in 1..Len(<<>>) : <<>>[n] = <<>>[n].line
  OBVIOUS
<1> QED BY <1>1, <1>2 DEF Listing

LEMMA ListingIs ==
    ASSUME NEW C \in SUBSET Entries, NEW lines, Listing(lines, C)
    PROVE  LET expected == InOrder(C, KeyOrder(C))
           IN  lines = [k \in DOMAIN expected |-> expected[k].line]
<1>1. PICK f : /\ Enumerates(f, Len(lines), C, KeyOrder(C))
               /\ \A n \in 1..Len(lines) : lines[n] = f[n].line
  BY DEF Listing
<1>2. lines \in Seq(SourceLines) /\ Len(lines) \in Nat /\ lines = [n \in 1..Len(lines) |-> lines[n]]
  BY DEF Listing
<1>3. f = InOrder(C, KeyOrder(C))
  BY <1>1, <1>2, IsInOrder, KeysAsymmetric
<1>4. DOMAIN f = 1..Len(lines)
  BY <1>1 DEF Enumerates
<1>5. lines = [k \in DOMAIN f |-> f[k].line]
  BY <1>1, <1>2, <1>4
<1> QED BY <1>3, <1>5

LEMMA ListingAppend ==
    ASSUME NEW C1, NEW C2, NEW l1, NEW l2, Listing(l1, C1), Listing(l2, C2),
           \A x \in C1, y \in C2 : KeyBefore(x, y)
    PROVE  Listing(l1 \o l2, C1 \cup C2)
<1> DEFINE M == Len(l1)
           N == Len(l2)
           C == C1 \cup C2
<1>0. l1 \in Seq(SourceLines) /\ l2 \in Seq(SourceLines)
  BY DEF Listing
<1>1. /\ M \in Nat /\ N \in Nat /\ l1 \o l2 \in Seq(SourceLines) /\ Len(l1 \o l2) = M + N
      /\ \A n \in 1..(M + N) : (l1 \o l2)[n] = IF n <= M THEN l1[n] ELSE l2[n - M]
  BY <1>0
<1>2. PICK f : Enumerates(f, M, C1, KeyOrder(C1)) /\ \A n \in 1..M : l1[n] = f[n].line
  BY DEF Listing
<1>3. PICK g : Enumerates(g, N, C2, KeyOrder(C2)) /\ \A n \in 1..N : l2[n] = g[n].line
  BY DEF Listing
<1> DEFINE h == [n \in 1..(M + N) |-> IF n <= M THEN f[n] ELSE g[n - M]]
<1> HIDE DEF M, N
<1>4. \A n \in 1..(M + N) : /\ n <= M => n \in 1..M
                            /\ ~(n <= M) => n - M \in 1..N
  BY <1>1
<1>5. /\ \A n \in 1..M : f[n] \in C1
      /\ \A n \in 1..N : g[n] \in C2
  BY <1>2, <1>3 DEF Enumerates
<1>6. /\ \A n \in 1..M : n \in 1..(M + N) /\ h[n] = f[n]
      /\ \A n \in 1..N : n + M \in 1..(M + N) /\ h[n + M] = g[n]
  <2>1. \A n \in 1..N : /\ n + M \in 1..(M + N) /\ ~(n + M <= M) /\ (n + M) - M = n
    BY <1>1
  <2>2. \A n \in 1..M : n \in 1..(M + N) /\ n <= M
    BY <1>1
  <2> QED BY <2>1, <2>2
<1>7. h \in [1..(M + N) -> C]
  BY <1>4, <1>5
<1>8. ASSUME NEW x \in C PROVE \E n \in 1..(M + N) : h[n] = x
  <2>1. CASE x \in C1
    <3>1. PICK n \in 1..M : f[n] = x
      BY <1>2, <2>1 DEF Enumerates
    <3> HIDE DEF h
    <3> QED BY <1>6, <3>1
  <2>2. CASE x \in C2
    <3>1. PICK n \in 1..N : g[n] = x
      BY <1>3, <2>2 DEF Enumerates
    <3> HIDE DEF h
    <3> QED BY <1>6, <3>1
  <2> QED BY <2>1, <2>2
<1>9. ASSUME NEW m \in 1..(M + N), NEW n \in 1..(M + N), m < n
      PROVE  <<h[m], h[n]>> \in KeyOrder(C)
  <2>1. h[m] \in C /\ h[n] \in C
    BY <1>7
  <2>2. KeyBefore(h[m], h[n])
    <3>1. CASE n <= M
      <4>1. m \in 1..M /\ n \in 1..M /\ h[m] = f[m] /\ h[n] = f[n]
        BY <1>1, <1>4, <1>9, <3>1
      <4>2. <<f[m], f[n]>> \in KeyOrder(C1)
        BY <1>2, <1>9, <4>1 DEF Enumerates
      <4> HIDE DEF h
      <4> QED BY <4>1, <4>2, InKeyOrder
    <3>2. CASE m <= M /\ ~(n <= M)
      <4>1. h[m] = f[m] /\ h[n] = g[n - M] /\ f[m] \in C1 /\ g[n - M] \in C2
        BY <1>4, <1>5, <3>2
      <4> HIDE DEF h
      <4> QED BY <4>1
    <3>3. CASE ~(m <= M)
      <4>1. ~(n <= M) /\ m - M < n - M
        BY <1>1, <1>9, <3>3
      <4>2. h[m] = g[m - M] /\ h[n] = g[n - M] /\ m - M \in 1..N /\ n - M \in 1..N
        BY <1>4, <3>3, <4>1
      <4>3. <<g[m - M], g[n - M]>> \in KeyOrder(C2)
        BY <1>3, <4>1, <4>2 DEF Enumerates
      <4> HIDE DEF h
      <4> QED BY <4>2, <4>3, InKeyOrder
    <3> QED BY <3>1, <3>2, <3>3
  <2> HIDE DEF h
  <2> QED BY <2>1, <2>2, InKeyOrder
<1>10. \A n \in 1..(M + N) : (l1 \o l2)[n] = h[n].line
  BY <1>1, <1>2, <1>3, <1>4
<1>11. Enumerates(h, M + N, C, KeyOrder(C))
  <2> HIDE DEF h, C
  <2> QED BY <1>7, <1>8, <1>9 DEF Enumerates
<1> HIDE DEF h, C
<1>12. /\ l1 \o l2 \in Seq(SourceLines)
       /\ \E q : /\ Enumerates(q, Len(l1 \o l2), C, KeyOrder(C))
                 /\ \A n \in 1..Len(l1 \o l2) : (l1 \o l2)[n] = q[n].line
  BY <1>1, <1>10, <1>11
<1> QED BY <1>12 DEF Listing, C

(* A piece of the source, and lines that are inserted at one place. *)
Run(lines, a, b) == {[key |-> <<p, 1, 0, 0>>, line |-> lines[p + 1]] : p \in a..(b - 1)}

LEMMA ListingRun ==
    ASSUME NEW lines \in Seq(SourceLines), NEW a \in Nat, NEW b \in Nat, a <= b, b <= Len(lines)
    PROVE  /\ Listing(SubSeq(lines, a + 1, b), Run(lines, a, b))
           /\ Run(lines, a, b) \in SUBSET Entries
<1> DEFINE C == Run(lines, a, b)
           N == b - a
           sub == SubSeq(lines, a + 1, b)
           f == [n \in 1..N |-> [key |-> <<a + n - 1, 1, 0, 0>>, line |-> lines[a + n]]]
<1>1. /\ N \in Nat /\ sub \in Seq(SourceLines) /\ Len(sub) = N
      /\ \A n \in 1..N : sub[n] = lines[a + n] /\ a + n \in 1..Len(lines)
  <2>1. N \in Nat /\ a + 1 \in 1..(Len(lines) + 1) /\ Len(lines) \in Nat
    OBVIOUS
  <2>2. Len(sub) = N /\ sub \in Seq(SourceLines)
    BY <2>1
  <2>3. \A n \in 1..N : a + n \in 1..Len(lines) /\ sub[n] = lines[a + n]
    BY <2>1, <2>2
  <2> QED BY <2>1, <2>2, <2>3
<1>2. C \in SUBSET Entries
  <2> SUFFICES ASSUME NEW p \in a..(b - 1)
               PROVE  [key |-> <<p, 1, 0, 0>>, line |-> lines[p + 1]] \in Entries
    BY DEF Run
  <2>1. p \in Nat /\ lines[p + 1] \in SourceLines
    OBVIOUS
  <2> QED BY <2>1 DEF Entries
<1> HIDE DEF sub
<1>3. f \in [1..N -> C]
  <2> SUFFICES ASSUME NEW n \in 1..N PROVE f[n] \in C
    OBVIOUS
  <2>1. a + n - 1 \in a..(b - 1) /\ (a + n - 1) + 1 = a + n
    OBVIOUS
  <2> QED BY <2>1 DEF Run
<1>4. ASSUME NEW x \in C PROVE \E n \in 1..N : f[n] = x
  <2>1. PICK p \in a..(b - 1) : x = [key |-> <<p, 1, 0, 0>>, line |-> lines[p + 1]]
    BY DEF Run
  <2>2. p - a + 1 \in 1..N /\ a + (p - a + 1) - 1 = p /\ a + (p - a + 1) = p + 1
    OBVIOUS
  <2> QED BY <2>1, <2>2
<1>5. ASSUME NEW m \in 1..N, NEW n \in 1..N, m < n PROVE <<f[m], f[n]>> \in KeyOrder(C)
  <2>1. f[m] \in C /\ f[n] \in C /\ f[m] \in Entries /\ f[n] \in Entries
    BY <1>2, <1>3
  <2>2. f[m].key[1] = a + m - 1 /\ f[n].key[1] = a + n - 1
    OBVIOUS
  <2>3. f[m].key[1] < f[n].key[1]
    BY <1>5, <2>2
  <2> HIDE DEF f, C
  <2> QED BY <2>1, <2>3, KeyBeforeIs, InKeyOrder
<1>6. \A n \in 1..N : sub[n] = f[n].line
  BY <1>1
<1> HIDE DEF f, C
<1>7. Enumerates(f, Len(sub), C, KeyOrder(C))
  BY <1>1, <1>3, <1>4, <1>5 DEF Enumerates
<1>8. Listing(sub, C)
  BY <1>1, <1>6, <1>7 DEF Listing
<1> QED BY <1>2, <1>8 DEF C, sub

Block(lines, start, chunk, base) ==
    {[key |-> <<start, 0, chunk, base + n>>, line |-> lines[n]] : n \in DOMAIN lines}

LEMMA ListingBlock ==
    ASSUME NEW lines \in Seq(SourceLines), NEW start \in Nat, NEW chunk \in Nat, NEW base \in Nat
    PROVE  /\ Listing(lines, Block(lines, start, chunk, base))
           /\ Block(lines, start, chunk, base) \in SUBSET Entries
<1> DEFINE C == Block(lines, start, chunk, base)
           N == Len(lines)
           f == [n \in 1..N |-> [key |-> <<start, 0, chunk, base + n>>, line |-> lines[n]]]
<1>1. N \in Nat /\ DOMAIN lines = 1..N /\ \A n \in 1..N : lines[n] \in SourceLines
  OBVIOUS
<1>2. C \in SUBSET Entries
  <2> SUFFICES ASSUME NEW n \in 1..N
               PROVE  [key |-> <<start, 0, chunk, base + n>>, line |-> lines[n]] \in Entries
    BY <1>1 DEF Block
  <2>1. base + n \in Nat /\ lines[n] \in SourceLines
    BY <1>1
  <2> QED BY <2>1 DEF Entries
<1>3. f \in [1..N -> C] /\ \A x \in C : \E n \in 1..N : f[n] = x
  BY <1>1 DEF Block
<1>5. ASSUME NEW m \in 1..N, NEW n \in 1..N, m < n PROVE <<f[m], f[n]>> \in KeyOrder(C)
  <2>1. f[m] \in C /\ f[n] \in C /\ f[m] \in Entries /\ f[n] \in Entries
    BY <1>2, <1>3
  <2>2. /\ f[m].key[1] = start /\ f[m].key[2] = 0 /\ f[m].key[3] = chunk /\ f[m].key[4] = base + m
        /\ f[n].key[1] = start /\ f[n].key[2] = 0 /\ f[n].key[3] = chunk /\ f[n].key[4] = base + n
    OBVIOUS
  <2>3. f[m].key[4] < f[n].key[4]
    BY <1>5, <2>2
  <2> HIDE DEF f, C
  <2> QED BY <2>1, <2>2, <2>3, KeyBeforeIs, InKeyOrder
<1>6. \A n \in 1..N : lines[n] = f[n].line
  OBVIOUS
<1> HIDE DEF f, C
<1>7. Enumerates(f, N, C, KeyOrder(C))
  BY <1>3, <1>5 DEF Enumerates
<1>8. Listing(lines, C)
  BY <1>6, <1>7 DEF Listing
<1> QED BY <1>2, <1>8 DEF C

-----------------------------------------------------------------------------
(***************************************************************************)
(* The context pairs of a region: K advances on both sides, inside P old   *)
(* and N new lines.  A gap lies between a pair, or the start, and the pair *)
(* or the end that follows it.                                             *)
(***************************************************************************)
Advancing(K, P, N) ==
    /\ K \in SUBSET (Nat \X Nat)
    /\ \A q \in K : q[1] < P /\ q[2] < N
    /\ \A q, o \in K : q[1] < o[1] <=> q[2] < o[2]
    /\ \A q, o \in K : q[1] = o[1] => q = o

Follower(K, P, N, p) ==
    LET behind == {q \in K : q[1] > p[1]}
    IN  IF behind = {} THEN <<P, N>>
        ELSE CHOOSE q \in behind : \A o \in behind : q[1] <= o[1]

LEMMA PairTypes ==
    ASSUME NEW K, NEW P \in Nat, NEW N \in Nat, Advancing(K, P, N)
    PROVE  /\ \A q \in K : q[1] \in Nat /\ q[2] \in Nat /\ q[1] < P /\ q[2] < N
           /\ \A p \in K \cup {Start} : p[1] \in Int /\ p[2] \in Int
           /\ \A p \in K \cup {Start}, q \in K : p[1] < q[1] <=> p[2] < q[2]
           /\ \A p, q \in K \cup {Start} : p[1] = q[1] => p = q
           /\ \A p \in K \cup {Start} : p[1] >= -1 /\ p[2] >= -1
<1>1. Start[1] = -1 /\ Start[2] = -1
  BY DEF Start
<1>2. \A q \in K : q[1] \in Nat /\ q[2] \in Nat /\ q[1] < P /\ q[2] < N
  BY DEF Advancing
<1>3. \A p \in K \cup {Start}, q \in K : p[1] < q[1] <=> p[2] < q[2]
  BY <1>1, <1>2 DEF Advancing
<1>4. \A p, q \in K \cup {Start} : p[1] = q[1] => p = q
  <2> SUFFICES ASSUME NEW p \in K \cup {Start}, NEW q \in K \cup {Start}, p[1] = q[1] PROVE p = q
    OBVIOUS
  <2>1. CASE p \in K /\ q \in K
    BY <2>1 DEF Advancing
  <2>2. CASE p = Start /\ q \in K
    BY <1>1, <1>2, <2>2
  <2>3. CASE p \in K /\ q = Start
    BY <1>1, <1>2, <2>3
  <2> QED BY <2>1, <2>2, <2>3
<1> QED BY <1>1, <1>2, <1>3, <1>4

(* What follows is behind on both sides, and nothing is between. *)
LEMMA FollowerBounds ==
    ASSUME NEW K, NEW P \in Nat, NEW N \in Nat, Advancing(K, P, N), NEW p \in K \cup {Start}
    PROVE  LET next == Follower(K, P, N, p)
           IN  /\ next[1] \in Nat /\ next[2] \in Nat
               /\ p[1] < next[1] /\ p[2] < next[2] /\ next[1] <= P /\ next[2] <= N
               /\ \A q \in K : p[1] < q[1] => next[1] <= q[1] /\ next[2] <= q[2]
               /\ next \in K \cup {<<P, N>>}
<1> DEFINE behind == {q \in K : q[1] > p[1]}
           next == Follower(K, P, N, p)
<1>1. /\ \A q \in K : q[1] \in Nat /\ q[2] \in Nat /\ q[1] < P /\ q[2] < N
      /\ p[1] \in Int /\ p[2] \in Int
      /\ \A q \in K : p[1] < q[1] <=> p[2] < q[2]
  BY PairTypes
<1>2. CASE behind = {}
  <2>1. next = <<P, N>>
    BY <1>2 DEF Follower
  <2>2. p[1] < P /\ p[2] < N
    BY <1>1 DEF Start
  <2>3. \A q \in K : ~(p[1] < q[1])
    BY <1>1, <1>2
  <2> HIDE DEF next
  <2> QED BY <1>1, <2>1, <2>2, <2>3 DEF next
<1>3. CASE behind # {}
  <2> DEFINE firsts == {q[1] : q \in behind}
  <2>1. firsts \in SUBSET Nat /\ firsts # {}
    BY <1>1, <1>3
  <2>2. \E q \in behind : \A o \in behind : q[1] <= o[1]
    <3>1. Least(firsts) \in firsts /\ \A n \in firsts : Least(firsts) <= n
      <4> HIDE DEF firsts
      <4> QED BY <2>1, LeastElement
    <3>2. PICK q \in behind : q[1] = Least(firsts)
      BY <3>1
    <3>3. \A o \in behind : o[1] \in firsts
      OBVIOUS
    <3> QED BY <3>1, <3>2, <3>3
  <2>3. next = CHOOSE q \in behind : \A o \in behind : q[1] <= o[1]
    BY <1>3 DEF Follower
  <2>4. next \in behind /\ \A o \in behind : next[1] <= o[1]
    <3> HIDE DEF behind, next
    <3> QED BY <2>2, <2>3
  <2> HIDE DEF next
  <2>5. next \in K /\ next[1] > p[1]
    BY <2>4
  <2>6. ASSUME NEW q \in K, p[1] < q[1] PROVE next[1] <= q[1] /\ next[2] <= q[2]
    <3>1. next[1] <= q[1]
      BY <1>1, <2>4, <2>6
    <3>2. q[1] < next[1] <=> q[2] < next[2]
      BY <2>5 DEF Advancing
    <3>3. q[1] \in Nat /\ q[2] \in Nat /\ next[1] \in Nat /\ next[2] \in Nat
      BY <1>1, <2>5
    <3> QED BY <3>1, <3>2, <3>3
  <2>7. next[1] \in Nat /\ next[2] \in Nat /\ next[1] < P /\ next[2] < N /\ p[2] < next[2]
    BY <1>1, <2>5
  <2> QED BY <1>1, <2>5, <2>6, <2>7 DEF next
<1> QED BY <1>2, <1>3

(* Of the pairs and the start, some is the last that P(q) holds of. *)
LEMMA LastBefore ==
    ASSUME NEW K, NEW P \in Nat, NEW N \in Nat, Advancing(K, P, N),
           NEW T \in SUBSET (K \cup {Start}), T # {}
    PROVE  \E p \in T : \A q \in T : q[1] <= p[1]
<1> DEFINE distances == {P - q[1] : q \in T}
<1>1. \A q \in T : q[1] \in Int /\ P - q[1] \in Nat
  BY PairTypes DEF Start
<1>2. distances \in SUBSET Nat /\ distances # {}
  BY <1>1
<1>3. \E m \in distances : \A n \in distances : m <= n
  <2> HIDE DEF distances
  <2> QED BY <1>2, LeastNatural
<1>4. PICK p \in T : \A n \in distances : P - p[1] <= n
  BY <1>3
<1>5. \A q \in T : P - p[1] <= P - q[1]
  BY <1>4
<1> QED BY <1>1, <1>5

(* A line of the pattern, or of the new lines, that is not context is in a   *)
(* gap, and the other way round.                                             *)
LEMMA GapOfOldLine ==
    ASSUME NEW K, NEW P \in Nat, NEW N \in Nat, Advancing(K, P, N), NEW o \in Int
    PROVE  o \in 0..(P - 1) \ {q[1] : q \in K}
             <=> \E p \in K \cup {Start} : p[1] < o /\ o < Follower(K, P, N, p)[1]
<1>0. \A p \in K \cup {Start} : p[1] \in Int /\ p[1] >= -1
  BY PairTypes
<1>1. ASSUME o \in 0..(P - 1), \A q \in K : q[1] # o
      PROVE  \E p \in K \cup {Start} : p[1] < o /\ o < Follower(K, P, N, p)[1]
  <2> DEFINE T == {p \in K \cup {Start} : p[1] < o}
  <2>1. Start \in T
    BY <1>1 DEF Start
  <2>2. PICK p \in T : \A q \in T : q[1] <= p[1]
    <3>1. T \in SUBSET (K \cup {Start}) /\ T # {}
      BY <2>1
    <3> HIDE DEF T
    <3> QED BY <3>1, LastBefore
  <2> DEFINE next == Follower(K, P, N, p)
  <2>3. /\ next[1] \in Nat /\ p[1] < next[1] /\ next[1] <= P /\ next \in K \cup {<<P, N>>}
    BY FollowerBounds
  <2>4. p[1] \in Int /\ p[1] < o
    BY <1>0
  <2> HIDE DEF next
  <2>5. CASE next \in K
    <3>1. next[1] # o
      BY <1>1, <2>5
    <3>2. next[1] < o => next \in T
      BY <2>5
    <3>3. ~(next[1] < o)
      BY <2>2, <2>3, <2>4, <3>2
    <3> QED BY <2>3, <2>4, <3>1, <3>3 DEF next
  <2>6. CASE next = <<P, N>>
    BY <1>1, <2>4, <2>6 DEF next
  <2> QED BY <2>3, <2>5, <2>6
<1>2. ASSUME NEW p \in K \cup {Start}, p[1] < o, o < Follower(K, P, N, p)[1]
      PROVE  o \in 0..(P - 1) /\ \A q \in K : q[1] # o
  <2> DEFINE next == Follower(K, P, N, p)
  <2>1. /\ next[1] \in Nat /\ next[1] <= P
        /\ \A q \in K : p[1] < q[1] => next[1] <= q[1]
    BY FollowerBounds
  <2>2. o < next[1]
    BY <1>2
  <2> HIDE DEF next
  <2>3. o \in 0..(P - 1)
    BY <1>0, <1>2, <2>1, <2>2
  <2> QED BY <1>2, <2>1, <2>2, <2>3
<1> QED BY <1>1, <1>2

LEMMA GapOfNewLine ==
    ASSUME NEW K, NEW P \in Nat, NEW N \in Nat, Advancing(K, P, N), NEW m \in Int
    PROVE  m \in 0..(N - 1) \ {q[2] : q \in K}
             <=> \E p \in K \cup {Start} : p[2] < m /\ m < Follower(K, P, N, p)[2]
<1>0. /\ \A p \in K \cup {Start} : p[1] \in Int /\ p[2] \in Int /\ p[2] >= -1
      /\ \A p \in K \cup {Start}, q \in K : p[1] < q[1] <=> p[2] < q[2]
  BY PairTypes
<1>1. ASSUME m \in 0..(N - 1), \A q \in K : q[2] # m
      PROVE  \E p \in K \cup {Start} : p[2] < m /\ m < Follower(K, P, N, p)[2]
  <2> DEFINE T == {p \in K \cup {Start} : p[2] < m}
  <2>1. Start \in T
    BY <1>1 DEF Start
  <2>2. PICK p \in T : \A q \in T : q[1] <= p[1]
    <3>1. T \in SUBSET (K \cup {Start}) /\ T # {}
      BY <2>1
    <3> HIDE DEF T
    <3> QED BY <3>1, LastBefore
  <2> DEFINE next == Follower(K, P, N, p)
  <2>3. /\ next[1] \in Nat /\ next[2] \in Nat /\ p[1] < next[1] /\ next \in K \cup {<<P, N>>}
    BY FollowerBounds
  <2>4. p[1] \in Int /\ p[2] < m
    BY <1>0
  <2> HIDE DEF next
  <2>5. CASE next \in K
    <3>1. next[2] # m
      BY <1>1, <2>5
    <3>2. next[2] < m => next \in T
      BY <2>5
    <3>3. ~(next[2] < m)
      BY <2>2, <2>3, <2>4, <3>2
    <3> QED BY <2>3, <2>4, <3>1, <3>3 DEF next
  <2>6. CASE next = <<P, N>>
    BY <1>1, <2>4, <2>6 DEF next
  <2> QED BY <2>3, <2>5, <2>6
<1>2. ASSUME NEW p \in K \cup {Start}, p[2] < m, m < Follower(K, P, N, p)[2]
      PROVE  m \in 0..(N - 1) /\ \A q \in K : q[2] # m
  <2> DEFINE next == Follower(K, P, N, p)
  <2>1. /\ next[2] \in Nat /\ next[2] <= N
        /\ \A q \in K : p[1] < q[1] => next[2] <= q[2]
    BY FollowerBounds
  <2>2. m < next[2]
    BY <1>2
  <2> HIDE DEF next
  <2>3. m \in 0..(N - 1)
    BY <1>0, <1>2, <2>1, <2>2
  <2>4. \A q \in K : p[2] < q[2] => next[2] <= q[2]
    BY <1>0, <2>1
  <2> QED BY <1>2, <2>1, <2>2, <2>3, <2>4
<1> QED BY <1>1, <1>2

(* The last context line before new line m of a gap is the one it follows.  *)
LastContext(K, m) ==
    LET earlier == {q[1] : q \in {o \in K : o[2] < m}}
    IN  IF earlier = {} THEN -1 ELSE CHOOSE o \in earlier : \A q \in earlier : q <= o

LEMMA ContextBefore ==
    ASSUME NEW K, NEW P \in Nat, NEW N \in Nat, Advancing(K, P, N), NEW m \in Int,
           NEW p \in K \cup {Start}, p[2] < m, m < Follower(K, P, N, p)[2]
    PROVE  p[1] = LastContext(K, m)
<1> DEFINE earlier == {q[1] : q \in {o \in K : o[2] < m}}
           next == Follower(K, P, N, p)
<1> SUFFICES p[1] = IF earlier = {} THEN -1
                    ELSE CHOOSE o \in earlier : \A q \in earlier : q <= o
  BY DEF LastContext
<1>0. /\ \A q \in K : q[1] \in Nat /\ q[2] \in Nat
      /\ p[1] \in Int /\ p[2] \in Int
      /\ \A q \in K : p[1] < q[1] <=> p[2] < q[2]
  BY PairTypes
<1>1. /\ next[2] \in Nat /\ m < next[2]
      /\ \A q \in K : p[1] < q[1] => next[2] <= q[2]
  BY FollowerBounds
<1> HIDE DEF next
<1>2. \A q \in K : q[2] < m => q[1] <= p[1]
  BY <1>0, <1>1
<1>3. CASE p = Start
  <2>1. \A q \in K : ~(q[2] < m)
    BY <1>0, <1>2, <1>3 DEF Start
  <2>2. earlier = {} /\ p[1] = -1
    BY <1>3, <2>1 DEF Start
  <2> QED BY <2>2
<1>4. CASE p \in K
  <2>1. p[1] \in earlier /\ earlier # {} /\ earlier \in SUBSET Nat
    BY <1>0, <1>4
  <2>2. \A o \in earlier : o <= p[1]
    BY <1>2
  <2>3. \A o \in earlier : (\A q \in earlier : q <= o) => o = p[1]
    <3> HIDE DEF earlier
    <3>1. SUFFICES ASSUME NEW o \in earlier, \A q \in earlier : q <= o PROVE o = p[1]
      OBVIOUS
    <3>2. p[1] <= o /\ o <= p[1]
      BY <2>1, <2>2, <3>1
    <3>3. o \in Nat /\ p[1] \in Nat
      BY <2>1
    <3> QED BY <3>2, <3>3
  <2>4. p[1] = CHOOSE o \in earlier : \A q \in earlier : q <= o
    <3> HIDE DEF earlier
    <3> QED BY <2>1, <2>2, <2>3
  <2> QED BY <2>1, <2>4
<1> QED BY <1>3, <1>4

-----------------------------------------------------------------------------
(***************************************************************************)
(* The replacements are the gaps of the placed chunks: every one of them   *)
(* is a gap, and every gap that has anything to remove or to insert is one *)
(* of them.                                                                *)
(***************************************************************************)
RegionGap(k, chunk, region, p) ==
    LET next == Follower(Kept(chunk, region), Len(region.pattern), Len(region.new_slice), p)
    IN  [chunk |-> k,
         gap |-> p[1] + 1,
         start |-> region.at + p[1] + 1,
         old_len |-> next[1] - p[1] - 1,
         new_lines |-> SubSeq(region.new_slice, p[2] + 2, next[2])]

Gap(k, p) == RegionGap(k, chunks[k], placed[k], p)

(* The context pairs of a chunk that lie in its region, on both sides. *)
KeptIn(k) == Kept(chunks[k], placed[k])

Ends(k) == KeptIn(k) \cup {Start}

IsEmptyGap(r) == r.old_len = 0 /\ r.new_lines = <<>>

SpliceInv ==
    /\ IsFiniteSet(replacements)
    /\ \A k \in DOMAIN placed : placed[k].at + Len(placed[k].pattern) <= Len(source)
    /\ \A r \in replacements : \E k \in DOMAIN placed : \E p \in Ends(k) : r = Gap(k, p)
    /\ \A k \in DOMAIN placed : \A p \in Ends(k) :
          ~IsEmptyGap(Gap(k, p)) => Gap(k, p) \in replacements

LEMMA RangeIsFinite ==
    ASSUME NEW S, NEW f, IsFiniteSet(S)
    PROVE  IsFiniteSet({f[x] : x \in S})
<1> DEFINE T == {f[x] : x \in S}
           g == [x \in S |-> f[x]]
<1>1. g \in Surjection(S, T)
  BY DEF Surjection
<1> QED BY <1>1, FS_Surjection

LEMMA KeptAdvances ==
    ASSUME NEW chunk \in Chunks, NEW region \in Placements
    PROVE  /\ Advancing(Kept(chunk, region), Len(region.pattern), Len(region.new_slice))
           /\ IsFiniteSet(Kept(chunk, region))
           /\ Len(region.pattern) \in Nat /\ Len(region.new_slice) \in Nat
<1> DEFINE pairs == chunk.context_line_indices
           all == {pairs[k] : k \in DOMAIN pairs}
           K == Kept(chunk, region)
<1>1. /\ pairs \in Seq(Nat \X Nat)
      /\ \A j, k \in DOMAIN pairs : j < k => pairs[j][1] < pairs[k][1] /\ pairs[j][2] < pairs[k][2]
  BY DEF Chunks, ContextPairsInOrder
<1>2. Len(region.pattern) \in Nat /\ Len(region.new_slice) \in Nat
  BY DEF Placements
<1>3. K = {pair \in all : pair[1] < Len(region.pattern) /\ pair[2] < Len(region.new_slice)}
  BY DEF Kept, ContextPairs
<1> HIDE DEF K
<1>4. ASSUME NEW q \in all, NEW o \in all
      PROVE  (q[1] < o[1] <=> q[2] < o[2]) /\ (q[1] = o[1] => q = o)
  <2>1. PICK j \in DOMAIN pairs : q = pairs[j]
    OBVIOUS
  <2>2. PICK k \in DOMAIN pairs : o = pairs[k]
    OBVIOUS
  <2>3. /\ q[1] \in Nat /\ q[2] \in Nat /\ o[1] \in Nat /\ o[2] \in Nat
        /\ j \in Nat /\ k \in Nat
    BY <1>1, <2>1, <2>2
  <2>4. /\ j < k => q[1] < o[1] /\ q[2] < o[2]
        /\ k < j => o[1] < q[1] /\ o[2] < q[2]
        /\ j = k => q = o
    <3> HIDE DEF pairs
    <3> QED BY <1>1, <2>1, <2>2
  <2> HIDE DEF pairs, all
  <2> QED BY <2>3, <2>4
<1>5. K \in SUBSET (Nat \X Nat)
  BY <1>1, <1>3
<1>6. IsFiniteSet(K)
  <2>1. IsFiniteSet(DOMAIN pairs)
    <3>1. DOMAIN pairs = 1..Len(pairs) /\ Len(pairs) \in Int
      BY <1>1
    <3> QED BY <3>1, FS_Interval
  <2>2. IsFiniteSet(all)
    <3> HIDE DEF pairs
    <3> QED BY <2>1, RangeIsFinite
  <2> HIDE DEF all
  <2> QED BY <1>3, <2>2, FS_Subset
<1>7. Advancing(K, Len(region.pattern), Len(region.new_slice))
  <2> HIDE DEF all
  <2> QED BY <1>3, <1>4, <1>5 DEF Advancing
<1> QED BY <1>2, <1>6, <1>7 DEF K

LEMMA GapAfterIs ==
    ASSUME NEW chunk, NEW region, NEW p
    PROVE  GapAfter(chunk, region, p) = RegionGap(c, chunk, region, p)
BY DEF GapAfter, RegionGap, Follower

LEMMA SpliceOneMore ==
    ASSUME IInv, PlacedInv, SpliceInv, AtChunk, NEW region \in Placements, NEW new,
           region.at + Len(region.pattern) <= Len(source), IsFiniteSet(new),
           \A r \in new : \E p \in Kept(Chunk, region) \cup {Start} :
               r = RegionGap(c, Chunk, region, p),
           \A p \in Kept(Chunk, region) \cup {Start} :
               ~IsEmptyGap(RegionGap(c, Chunk, region, p)) =>
                   RegionGap(c, Chunk, region, p) \in new,
           replacements' = replacements \cup new, placed' = Append(placed, region),
           UNCHANGED update
    PROVE  SpliceInv'
<1>1. /\ c \in Nat /\ Len(placed) = c - 1 /\ placed \in Seq(Placements)
      /\ source' = source /\ chunks' = chunks
  BY DEF IInv, TypeOK, AtChunk, PlacedInv, update
<1>2. /\ DOMAIN placed' = DOMAIN placed \cup {c}
      /\ \A k \in DOMAIN placed : placed'[k] = placed[k] /\ k # c
      /\ placed'[c] = region
  BY <1>1
<1>3. \A k \in DOMAIN placed : Ends(k)' = Ends(k) /\ \A p : Gap(k, p)' = Gap(k, p)
  BY <1>1, <1>2 DEF Ends, Gap, KeptIn
<1>4. PICK j : j = c
  OBVIOUS
<1>5. /\ Ends(j)' = Kept(Chunk, region) \cup {Start}
      /\ \A p : Gap(j, p)' = RegionGap(c, Chunk, region, p)
  <2>1. chunks'[j] = Chunk /\ placed'[j] = region
    BY <1>1, <1>2, <1>4 DEF Chunk
  <2> QED BY <1>4, <2>1 DEF Ends, Gap, KeptIn
<1>6. IsFiniteSet(replacements')
  BY FS_Union DEF SpliceInv
<1>7. ASSUME NEW k \in DOMAIN placed'
      PROVE  placed'[k].at + Len(placed'[k].pattern) <= Len(source')
  BY <1>1, <1>2 DEF SpliceInv
<1>8. ASSUME NEW r \in replacements'
      PROVE  \E k \in DOMAIN placed' : \E p \in Ends(k)' : r = Gap(k, p)'
  <2>1. CASE r \in replacements
    <3>1. PICK k \in DOMAIN placed : \E p \in Ends(k) : r = Gap(k, p)
      BY <2>1 DEF SpliceInv
    <3>2. PICK p \in Ends(k) : r = Gap(k, p)
      BY <3>1
    <3>3. k \in DOMAIN placed' /\ p \in Ends(k)' /\ r = Gap(k, p)'
      BY <1>2, <1>3, <3>2
    <3> QED BY <3>3
  <2>2. CASE r \in new
    <3>1. PICK p \in Kept(Chunk, region) \cup {Start} : r = RegionGap(c, Chunk, region, p)
      BY <2>2
    <3>2. j \in DOMAIN placed' /\ p \in Ends(j)' /\ r = Gap(j, p)'
      BY <1>2, <1>4, <1>5, <3>1
    <3> QED BY <3>2
  <2> QED BY <2>1, <2>2
<1>9. ASSUME NEW k \in DOMAIN placed', NEW p \in Ends(k)', ~IsEmptyGap(Gap(k, p)')
      PROVE  Gap(k, p)' \in replacements'
  <2>1. CASE k \in DOMAIN placed
    <3>1. p \in Ends(k) /\ Gap(k, p)' = Gap(k, p)
      BY <1>3, <2>1
    <3>2. Gap(k, p) \in replacements
      BY <1>9, <2>1, <3>1 DEF SpliceInv
    <3> QED BY <3>1, <3>2
  <2>2. CASE k \notin DOMAIN placed
    <3>1. k = j
      BY <1>2, <1>4, <2>2
    <3>2. p \in Kept(Chunk, region) \cup {Start} /\ Gap(k, p)' = RegionGap(c, Chunk, region, p)
      BY <1>5, <3>1
    <3>3. RegionGap(c, Chunk, region, p) \in new
      BY <1>9, <3>2
    <3> QED BY <3>2, <3>3
  <2> QED BY <2>1, <2>2
<1> QED BY <1>6, <1>7, <1>8, <1>9 DEF SpliceInv, IsEmptyGap

LEMMA SpliceInit == Init => SpliceInv
BY FS_EmptySet DEF Init, SpliceInv

LEMMA NextSplice == IInv /\ PlacedInv /\ SpliceInv /\ [Next]_vars => SpliceInv'
<1> SUFFICES ASSUME IInv, PlacedInv, SpliceInv, [Next]_vars PROVE SpliceInv'
  OBVIOUS
<1>1. CASE AddAtEnd
  <2> DEFINE region == [at |-> Len(source), pattern |-> <<>>, new_slice |-> Chunk.new_lines]
             r == [chunk |-> c, gap |-> 0, start |-> Len(source), old_len |-> 0,
                   new_lines |-> Chunk.new_lines]
             new == {r}
  <2>1. /\ AtChunk /\ UNCHANGED update
        /\ replacements' = replacements \cup new /\ placed' = Append(placed, region)
    BY <1>1 DEF AddAtEnd
  <2>2. Len(source) \in Nat /\ Chunk.new_lines \in Seq(Lines)
    BY <2>1, ChunkTypes DEF IInv, TypeOK
  <2>3. region \in Placements /\ region.at + Len(region.pattern) <= Len(source)
    BY <2>2 DEF Placements
  <2>4. Kept(Chunk, region) = {}
    <3>1. Chunk.context_line_indices \in Seq(Nat \X Nat)
      BY <2>1, ChunkTypes DEF IInv
    <3>2. Len(region.pattern) = 0
      OBVIOUS
    <3> HIDE DEF region
    <3> QED BY <3>1, <3>2 DEF Kept, ContextPairs
  <2>5. RegionGap(c, Chunk, region, Start) = r
    <3> DEFINE next == Follower(Kept(Chunk, region), Len(region.pattern),
                                Len(region.new_slice), Start)
    <3>1. /\ region.at = Len(source) /\ Len(region.pattern) = 0
          /\ region.new_slice = Chunk.new_lines
      OBVIOUS
    <3> HIDE DEF region
    <3>2. next = <<Len(region.pattern), Len(region.new_slice)>>
      BY <2>4 DEF Follower
    <3>3. next[1] = 0 /\ next[2] = Len(Chunk.new_lines)
      BY <3>1, <3>2
    <3>4. RegionGap(c, Chunk, region, Start)
            = [chunk |-> c, gap |-> Start[1] + 1, start |-> region.at + Start[1] + 1,
               old_len |-> next[1] - Start[1] - 1,
               new_lines |-> SubSeq(region.new_slice, Start[2] + 2, next[2])]
      BY DEF RegionGap
    <3> HIDE DEF next
    <3>5. /\ Start[1] + 1 = 0 /\ Len(source) + Start[1] + 1 = Len(source)
          /\ 0 - Start[1] - 1 = 0 /\ Start[2] + 2 = 1
      BY <2>2 DEF Start
    <3>6. SubSeq(Chunk.new_lines, 1, Len(Chunk.new_lines)) = Chunk.new_lines
      BY <2>2
    <3> QED BY <3>1, <3>3, <3>4, <3>5, <3>6
  <2>6. IsFiniteSet(new)
    BY FS_Singleton
  <2>7. /\ \A s \in new : \E p \in Kept(Chunk, region) \cup {Start} :
               s = RegionGap(c, Chunk, region, p)
        /\ \A p \in Kept(Chunk, region) \cup {Start} : RegionGap(c, Chunk, region, p) \in new
    BY <2>4, <2>5
  <2> HIDE DEF region, new
  <2> QED BY <2>1, <2>3, <2>6, <2>7, SpliceOneMore
<1>2. CASE ReplaceLines
  <2> DEFINE region == Region(Chunk, SearchFrom)
             new == RegionReplacements(Chunk, region)
             K == Kept(Chunk, region)
  <2>1. /\ AtChunk /\ UNCHANGED update
        /\ replacements' = replacements \cup new /\ placed' = Append(placed, region)
    BY <1>2 DEF ReplaceLines
  <2>2. SearchFrom \in 0..Len(source)
    BY <1>2, SearchFromBounds DEF ReplaceLines, IInv, TypeOK
  <2>3. region.at + Len(region.pattern) <= Len(source) /\ region.at \in Nat
        /\ region.pattern \in Seq(Lines)
    BY <1>2, <2>2, RegionBounds DEF ReplaceLines, IInv
  <2>4. region \in Placements
    <3>1. region = [at |-> region.at, pattern |-> region.pattern,
                    new_slice |-> region.new_slice]
      BY DEF Region
    <3>2. region.new_slice \in Seq(Lines)
      BY <2>1, ChunkTypes, SliceType DEF Region, IInv
    <3> HIDE DEF region
    <3> QED BY <2>3, <3>1, <3>2 DEF Placements
  <2>5. Chunk \in Chunks
    BY <2>1, ChunkTypes DEF IInv, TypeOK, Chunk
  <2> HIDE DEF region
  <2>6. IsFiniteSet(K \cup {Start})
    BY <2>4, <2>5, KeptAdvances, FS_AddElement
  <2> DEFINE gaps == [p \in K \cup {Start} |-> RegionGap(c, Chunk, region, p)]
  <2>7. new = {r \in {gaps[p] : p \in K \cup {Start}} : ~IsEmptyGap(r)}
    BY GapAfterIs DEF RegionReplacements, IsEmptyGap, Start
  <2>8. IsFiniteSet(new)
    <3> HIDE DEF gaps, K
    <3>1. IsFiniteSet({gaps[p] : p \in K \cup {Start}})
      BY <2>6, RangeIsFinite
    <3> QED BY <2>7, <3>1, FS_Subset
  <2>9. /\ \A s \in new : \E p \in Kept(Chunk, region) \cup {Start} :
               s = RegionGap(c, Chunk, region, p)
        /\ \A p \in Kept(Chunk, region) \cup {Start} :
               ~IsEmptyGap(RegionGap(c, Chunk, region, p)) => RegionGap(c, Chunk, region, p) \in new
    BY <2>7
  <2> HIDE DEF new
  <2> QED BY <2>1, <2>3, <2>4, <2>8, <2>9, SpliceOneMore
<1>3. CASE LoseContext \/ LoseLines \/ Rebuild \/ Finished \/ UNCHANGED vars
  <2>1. UNCHANGED <<update, placed, replacements>>
    BY <1>3 DEF LoseContext, LoseLines, Fail, Rebuild, Finished, vars
  <2> QED BY <2>1 DEF SpliceInv, Ends, Gap, KeptIn, update
<1> QED BY <1>1, <1>2, <1>3 DEF Next, Step

-----------------------------------------------------------------------------
(* A file whose chunks were placed with every context line on both sides. *)
Placed ==
    /\ IInv /\ PlacedInv /\ SpliceInv
    /\ \A k \in DOMAIN placed : KeepsContext(k)

(* There the code keeps what the chunk calls context. *)
LEMMA ContextIs ==
    ASSUME Placed, NEW k \in DOMAIN placed
    PROVE  Context(k) = KeptIn(k) /\ Wanted(k) = placed[k].new_slice
BY DEF Placed, PlacedInv, KeepsContext, Context, KeptIn, Kept

(* What follows p among the context pairs of chunk k. *)
PairBehind(k, p) ==
    Follower(KeptIn(k), Len(placed[k].pattern), Len(placed[k].new_slice), p)

LEMMA PlacedTypes ==
    ASSUME Placed, NEW k \in DOMAIN placed
    PROVE  /\ k \in Nat /\ placed[k].at \in Nat
           /\ placed[k].pattern \in Seq(Lines) /\ placed[k].new_slice \in Seq(Lines)
           /\ Len(placed[k].pattern) \in Nat /\ Len(placed[k].new_slice) \in Nat
           /\ Advancing(KeptIn(k), Len(placed[k].pattern), Len(placed[k].new_slice))
<1>1. k \in DOMAIN chunks /\ k \in Nat
  BY DEF Placed, IInv, TypeOK, PlacedInv
<1>2. chunks[k] \in Chunks /\ placed[k] \in Placements
  BY <1>1 DEF Placed, IInv, TypeOK, PlacedInv
<1>3. /\ placed[k].at \in Nat
      /\ placed[k].pattern \in Seq(Lines) /\ placed[k].new_slice \in Seq(Lines)
  BY <1>2 DEF Placements
<1> QED BY <1>1, <1>2, <1>3, KeptAdvances DEF KeptIn

LEMMA GapIs ==
    ASSUME Placed, NEW k \in DOMAIN placed, NEW p \in Ends(k)
    PROVE  LET next == PairBehind(k, p)
               r == Gap(k, p)
           IN  /\ p[1] \in Int /\ p[2] \in Int /\ p[1] >= -1 /\ p[2] >= -1
               /\ next[1] \in Nat /\ next[2] \in Nat
               /\ p[1] < next[1] /\ p[2] < next[2]
               /\ next[1] <= Len(placed[k].pattern) /\ next[2] <= Len(placed[k].new_slice)
               /\ r.chunk = k /\ r.gap = p[1] + 1 /\ r.start = placed[k].at + p[1] + 1
               /\ r.old_len = next[1] - p[1] - 1
               /\ r.new_lines \in Seq(Lines) /\ Len(r.new_lines) = next[2] - p[2] - 1
               /\ \A j \in 1..Len(r.new_lines) :
                     r.new_lines[j] = placed[k].new_slice[p[2] + 1 + j]
<1> DEFINE next == PairBehind(k, p)
           r == Gap(k, p)
           new == placed[k].new_slice
<1>1. p[1] \in Int /\ p[2] \in Int /\ p[1] >= -1 /\ p[2] >= -1
  BY PlacedTypes, PairTypes DEF Ends
<1>2. /\ next[1] \in Nat /\ next[2] \in Nat /\ p[1] < next[1] /\ p[2] < next[2]
      /\ next[1] <= Len(placed[k].pattern) /\ next[2] <= Len(new)
  BY PlacedTypes, FollowerBounds DEF Ends, PairBehind
<1>3. /\ r.chunk = k /\ r.gap = p[1] + 1 /\ r.start = placed[k].at + p[1] + 1
      /\ r.old_len = next[1] - p[1] - 1 /\ r.new_lines = SubSeq(new, p[2] + 2, next[2])
  BY DEF Gap, RegionGap, PairBehind, KeptIn
<1>4. new \in Seq(Lines)
  BY PlacedTypes
<1> HIDE DEF next, r, new
<1>5. /\ p[2] + 2 \in 1..(Len(new) + 1) /\ next[2] \in 0..Len(new)
      /\ p[2] + 2 <= next[2] + 1
      /\ (next[2] - (p[2] + 2)) + 1 = next[2] - p[2] - 1
  BY <1>1, <1>2, <1>4
<1>6. SubSeq(new, p[2] + 2, next[2])
        = [j \in 1..((next[2] - (p[2] + 2)) + 1) |-> new[(p[2] + 2 + j) - 1]]
  BY <1>4, <1>5
<1>7. \A j \in 1..(next[2] - p[2] - 1) : /\ (p[2] + 2 + j) - 1 = p[2] + 1 + j
                                         /\ p[2] + 1 + j \in 1..Len(new)
  BY <1>1, <1>2, <1>4
<1>8. r.new_lines = [j \in 1..(next[2] - p[2] - 1) |-> new[p[2] + 1 + j]]
  BY <1>3, <1>5, <1>6, <1>7
<1>9. next[2] - p[2] - 1 \in Nat
  BY <1>1, <1>2
<1>10. \A j \in 1..(next[2] - p[2] - 1) : new[p[2] + 1 + j] \in Lines
  BY <1>4, <1>7
<1>11. r.new_lines \in Seq(Lines) /\ Len(r.new_lines) = next[2] - p[2] - 1
  BY <1>8, <1>9, <1>10
<1>12. \A j \in 1..Len(r.new_lines) : r.new_lines[j] = new[p[2] + 1 + j]
  BY <1>8, <1>11
<1> QED BY <1>1, <1>2, <1>3, <1>11, <1>12 DEF next, r, new

LEMMA ReplacementIsGap ==
    ASSUME Placed, NEW r \in replacements
    PROVE  /\ r.chunk \in DOMAIN placed
           /\ \E p \in Ends(r.chunk) : r = Gap(r.chunk, p) /\ r.gap = p[1] + 1
           /\ r.chunk \in Nat /\ r.gap \in Nat /\ r.start \in Nat /\ r.old_len \in Nat
           /\ r.start + r.old_len <= Len(source) /\ Len(source) \in Nat
           /\ r.start = placed[r.chunk].at + r.gap
           /\ r.new_lines \in Seq(Lines)
<1>1. PICK k \in DOMAIN placed : \E p \in Ends(k) : r = Gap(k, p)
  BY DEF Placed, SpliceInv
<1>2. PICK p \in Ends(k) : r = Gap(k, p)
  BY <1>1
<1>3. /\ p[1] \in Int /\ p[1] >= -1
      /\ r.chunk = k /\ r.gap = p[1] + 1 /\ r.start = placed[k].at + p[1] + 1
      /\ r.new_lines \in Seq(Lines)
  BY <1>2, GapIs
<1>4. k \in Nat /\ placed[k].at \in Nat
  BY PlacedTypes
<1>5. r.start \in 0..Len(source) /\ r.old_len \in 0..(Len(source) - r.start) /\ Len(source) \in Nat
  BY DEF Placed, IInv, TypeOK
<1>6. r.start \in Nat /\ r.old_len \in Nat /\ r.start + r.old_len <= Len(source)
  BY <1>5
<1>7. r.gap \in Nat /\ r.start = placed[k].at + r.gap
  <2>1. placed[k].at \in Int /\ r.gap = p[1] + 1 /\ p[1] \in Int /\ p[1] >= -1
    BY <1>3, <1>4
  <2>2. r.start = placed[k].at + p[1] + 1
    BY <1>3
  <2>3. r.gap \in Nat
    BY <2>1
  <2> QED BY <2>1, <2>2, <2>3
<1> QED BY <1>2, <1>3, <1>4, <1>5, <1>6, <1>7

(* A chunk has one replacement at one place. *)
LEMMA SameReplacement ==
    ASSUME Placed, NEW r \in replacements, NEW s \in replacements,
           r.chunk = s.chunk, r.gap = s.gap \/ r.start = s.start
    PROVE  r = s
<1> DEFINE k == r.chunk
<1>1. PICK p \in Ends(k) : r = Gap(k, p) /\ r.gap = p[1] + 1
  BY ReplacementIsGap
<1>2. PICK q \in Ends(k) : s = Gap(k, q) /\ s.gap = q[1] + 1
  BY ReplacementIsGap
<1>3. /\ k \in DOMAIN placed /\ placed[k].at \in Nat /\ r.gap \in Nat /\ s.gap \in Nat
      /\ r.start = placed[k].at + r.gap /\ s.start = placed[k].at + s.gap
  BY ReplacementIsGap, PlacedTypes
<1>4. r.gap = s.gap
  BY <1>3
<1>5. p[1] \in Int /\ q[1] \in Int
  BY <1>3, GapIs
<1>6. p[1] = q[1]
  BY <1>1, <1>2, <1>4, <1>5
<1>7. p = q
  BY <1>3, <1>6, PlacedTypes, PairTypes DEF Ends
<1> QED BY <1>1, <1>2, <1>7

(* The order of the replacements is total, and each ends where the next may *)
(* start.                                                                    *)
LEMMA PrecedesIsOrder ==
    ASSUME Placed
    PROVE  /\ \A r, s \in replacements : Precedes(r, s) => ~Precedes(s, r)
           /\ \A r, s \in replacements : r = s \/ Precedes(r, s) \/ Precedes(s, r)
           /\ \A r, s, t \in replacements : Precedes(r, s) /\ Precedes(s, t) => Precedes(r, t)
<1>1. \A r \in replacements : r.chunk \in Nat /\ r.gap \in Nat /\ r.start \in Nat
  BY ReplacementIsGap
<1>2. \A r, s \in replacements : Precedes(r, s) => ~Precedes(s, r)
  BY <1>1 DEF Precedes
<1>3. ASSUME NEW r \in replacements, NEW s \in replacements, ~Precedes(r, s), ~Precedes(s, r)
      PROVE  r = s
  <2>1. r.start = s.start /\ r.chunk = s.chunk
    BY <1>1, <1>3 DEF Precedes
  <2> QED BY <2>1, SameReplacement
<1>4. \A r, s, t \in replacements : Precedes(r, s) /\ Precedes(s, t) => Precedes(r, t)
  BY <1>1 DEF Precedes
<1> QED BY <1>2, <1>3, <1>4

LEMMA PrecedingEnds ==
    ASSUME Placed, NEW r \in replacements, NEW s \in replacements, Precedes(r, s)
    PROVE  /\ r.start + r.old_len <= s.start /\ r.start <= s.start
           /\ r.start = s.start => r.chunk < s.chunk
<1>1. /\ r.chunk \in Nat /\ r.gap \in Nat /\ r.start \in Nat /\ r.old_len \in Nat
      /\ s.chunk \in Nat /\ s.gap \in Nat /\ s.start \in Nat /\ s.old_len \in Nat
      /\ r.start + r.old_len <= Len(source) /\ s.start + s.old_len <= Len(source)
      /\ Len(source) \in Nat
  BY ReplacementIsGap
<1>2. r.start <= s.start
  BY <1>1 DEF Precedes
<1>3. r.start = s.start => r.chunk < s.chunk
  <2> SUFFICES ASSUME r.start = s.start, ~(r.chunk < s.chunk) PROVE FALSE
    OBVIOUS
  <2>1. r.chunk = s.chunk /\ r.gap < s.gap
    BY <1>1 DEF Precedes
  <2>2. r = s
    BY <2>1, SameReplacement
  <2> QED BY <1>1, <2>1, <2>2
<1>4. NeverOverlap
  BY DEF Placed, IInv
<1>5. r.start + r.old_len <= s.start
  <2>1. CASE r.chunk < s.chunk \/ (r.chunk = s.chunk /\ r.gap < s.gap)
    BY <1>1, <1>2, <1>4, <2>1 DEF NeverOverlap
  <2>2. CASE s.chunk < r.chunk \/ (s.chunk = r.chunk /\ s.gap < r.gap)
    <3>1. s.start + s.old_len <= r.start \/ s.start = Len(source)
      BY <1>4, <2>2 DEF NeverOverlap
    <3>2. r.start < s.start
      BY <1>1, <2>2 DEF Precedes
    <3> QED BY <1>1, <3>1, <3>2
  <2>3. CASE s.chunk = r.chunk /\ s.gap = r.gap
    <3>1. r = s
      BY <2>3, SameReplacement
    <3> QED BY <1>1, <3>1 DEF Precedes
  <2> QED BY <1>1, <2>1, <2>2, <2>3
<1> QED BY <1>2, <1>3, <1>5

(* The removed lines are those of the replacements. *)
LEMMA RemovedIs ==
    ASSUME Placed, NEW q \in Int
    PROVE  q \in Removed
             <=> \E r \in replacements : r.start <= q /\ q < r.start + r.old_len
<1>1. ASSUME q \in Removed
      PROVE  \E r \in replacements : r.start <= q /\ q < r.start + r.old_len
  <2>1. PICK k \in DOMAIN placed :
           q \in {placed[k].at + o : o \in (0..(Len(placed[k].pattern) - 1))
                                              \ {p[1] : p \in KeptIn(k)}}
    BY <1>1, ContextIs DEF Removed
  <2>2. PICK o \in 0..(Len(placed[k].pattern) - 1) \ {p[1] : p \in KeptIn(k)} :
           q = placed[k].at + o
    BY <2>1
  <2>3. o \in Int /\ placed[k].at \in Nat
    BY PlacedTypes
  <2>4. PICK p \in Ends(k) : p[1] < o /\ o < PairBehind(k, p)[1]
    BY <2>2, <2>3, PlacedTypes, GapOfOldLine DEF Ends, PairBehind
  <2> DEFINE r == Gap(k, p)
  <2>5. /\ p[1] \in Int /\ PairBehind(k, p)[1] \in Nat
        /\ r.start = placed[k].at + p[1] + 1 /\ r.old_len = PairBehind(k, p)[1] - p[1] - 1
    BY GapIs
  <2> HIDE DEF r
  <2>6. r.old_len # 0 /\ r.start <= q /\ q < r.start + r.old_len
    BY <2>2, <2>3, <2>4, <2>5
  <2>7. r \in replacements
    BY <2>6 DEF Placed, SpliceInv, IsEmptyGap, r
  <2> QED BY <2>6, <2>7
<1>2. ASSUME NEW r \in replacements, r.start <= q, q < r.start + r.old_len
      PROVE  q \in Removed
  <2> DEFINE k == r.chunk
  <2>1. PICK p \in Ends(k) : r = Gap(k, p)
    BY ReplacementIsGap
  <2>2. k \in DOMAIN placed /\ placed[k].at \in Nat
    BY ReplacementIsGap, PlacedTypes
  <2>3. /\ p[1] \in Int /\ PairBehind(k, p)[1] \in Nat
        /\ r.start = placed[k].at + p[1] + 1 /\ r.old_len = PairBehind(k, p)[1] - p[1] - 1
    BY <2>1, <2>2, GapIs
  <2> DEFINE o == q - placed[k].at
  <2>4. o \in Int /\ p[1] < o /\ o < PairBehind(k, p)[1] /\ q = placed[k].at + o
    BY <1>2, <2>2, <2>3
  <2> HIDE DEF k, o
  <2>5. o \in 0..(Len(placed[k].pattern) - 1) \ {x[1] : x \in KeptIn(k)}
    BY <2>2, <2>4, PlacedTypes, GapOfOldLine DEF Ends, PairBehind
  <2> QED BY <2>2, <2>4, <2>5, ContextIs DEF Removed
<1> QED BY <1>1, <1>2

-----------------------------------------------------------------------------
(* What a replacement inserts, with its keys: new lines Base(r) + 1 and on.  *)
Base(r) == (CHOOSE p \in Ends(r.chunk) : p[1] + 1 = r.gap)[2] + 1

BlockOf(r) == Block(Inserted(r.new_lines), r.start, r.chunk, Base(r))

LEMMA InsertedTypes ==
    ASSUME Placed, NEW texts \in Seq(Lines)
    PROVE  /\ Inserted(texts) \in Seq(SourceLines)
           /\ Len(Inserted(texts)) = Len(texts)
           /\ DOMAIN Inserted(texts) = DOMAIN texts /\ DOMAIN texts = 1..Len(texts)
           /\ \A n \in DOMAIN texts :
                 Inserted(texts)[n] = [text |-> texts[n], ending |-> PreferredEnding(source)]
<1>1. PreferredEnding(source) \in Endings \cup {None}
  <2>1. source \in Seq(SourceLines)
    BY DEF Placed, IInv, TypeOK
  <2>2. CASE source # <<>> /\ source[1].ending # None
    <3>1. source[1] \in SourceLines
      BY <2>1, <2>2
    <3> QED BY <2>2, <3>1 DEF PreferredEnding, SourceLines
  <2>3. CASE ~(source # <<>> /\ source[1].ending # None)
    BY <2>3 DEF PreferredEnding, Endings
  <2> QED BY <2>2, <2>3
<1>2. \A n \in 1..Len(texts) :
         [text |-> texts[n], ending |-> PreferredEnding(source)] \in SourceLines
  BY <1>1 DEF SourceLines
<1>3. Inserted(texts)
        = [n \in 1..Len(texts) |-> [text |-> texts[n], ending |-> PreferredEnding(source)]]
  BY DEF Inserted
<1> QED BY <1>2, <1>3

LEMMA BaseIs ==
    ASSUME Placed, NEW k \in DOMAIN placed, NEW p \in Ends(k)
    PROVE  Base(Gap(k, p)) = p[2] + 1 /\ Base(Gap(k, p)) \in Nat
<1>1. /\ Gap(k, p).chunk = k /\ Gap(k, p).gap = p[1] + 1
      /\ p[1] \in Int /\ p[2] \in Int /\ p[2] >= -1
  BY GapIs
<1>2. ASSUME NEW q \in Ends(k), q[1] + 1 = p[1] + 1 PROVE q = p
  <2>1. q[1] \in Int
    BY GapIs
  <2>2. q[1] = p[1]
    BY <1>1, <1>2, <2>1
  <2>3. /\ Advancing(KeptIn(k), Len(placed[k].pattern), Len(placed[k].new_slice))
        /\ Len(placed[k].pattern) \in Nat /\ Len(placed[k].new_slice) \in Nat
    BY PlacedTypes
  <2> DEFINE K == KeptIn(k)
             P == Len(placed[k].pattern)
             N == Len(placed[k].new_slice)
  <2>4. \A x, y \in Ends(k) : x[1] = y[1] => x = y
    <3>1. Advancing(K, P, N) /\ P \in Nat /\ N \in Nat
      BY <2>3
    <3> HIDE DEF K, P, N
    <3>2. \A x, y \in K \cup {Start} : x[1] = y[1] => x = y
      BY <3>1, PairTypes
    <3> QED BY <3>2 DEF Ends, K
  <2> QED BY <2>2, <2>4
<1>3. p = CHOOSE q \in Ends(k) : q[1] + 1 = p[1] + 1
  BY <1>2
<1>4. Base(Gap(k, p)) = p[2] + 1
  BY <1>1, <1>3 DEF Base
<1> QED BY <1>1, <1>4

(* An added line stands in a gap, and its key says where.  *)
LEMMA AddedBeforeIs ==
    ASSUME Placed, NEW k \in DOMAIN placed, NEW p \in Ends(k), NEW n \in Nat,
           p[2] < n - 1, n - 1 < PairBehind(k, p)[2]
    PROVE  AddedBefore(k, n) = Gap(k, p).start
<1> DEFINE earlier == {x[1] : x \in {q \in KeptIn(k) : q[2] < n - 1}}
           last == CHOOSE o \in earlier : \A q \in earlier : q <= o
           m == n - 1
<1>1. AddedBefore(k, n) = placed[k].at + IF earlier = {} THEN 0 ELSE 1 + last
  <2> DEFINE early == {x[1] : x \in {q \in Context(k) : q[2] < n - 1}}
  <2>1. AddedBefore(k, n) = placed[k].at + IF early = {} THEN 0
                            ELSE 1 + CHOOSE o \in early : \A q \in early : q <= o
    BY DEF AddedBefore
  <2>2. early = earlier
    BY ContextIs
  <2> HIDE DEF early, earlier
  <2> QED BY <2>1, <2>2
<1>2. p[1] = IF earlier = {} THEN -1 ELSE last
  <2>1. m \in Int /\ p[2] < m /\ m < PairBehind(k, p)[2]
    OBVIOUS
  <2>2. earlier = {x[1] : x \in {q \in KeptIn(k) : q[2] < m}}
    OBVIOUS
  <2> HIDE DEF m
  <2> DEFINE K == KeptIn(k)
             P == Len(placed[k].pattern)
             N == Len(placed[k].new_slice)
  <2>3. Advancing(K, P, N) /\ P \in Nat /\ N \in Nat /\ p \in K \cup {Start}
    BY PlacedTypes DEF Ends
  <2>4. m < Follower(K, P, N, p)[2]
    BY <2>1 DEF PairBehind
  <2> HIDE DEF K, P, N
  <2>5. p[1] = LastContext(K, m)
    BY <2>1, <2>3, <2>4, ContextBefore
  <2> DEFINE early == {q[1] : q \in {o \in K : o[2] < m}}
  <2>6. early = earlier
    BY <2>2 DEF K
  <2>7. LastContext(K, m)
          = IF early = {} THEN -1 ELSE CHOOSE o \in early : \A q \in early : q <= o
    BY DEF LastContext
  <2> HIDE DEF early, earlier
  <2> QED BY <2>5, <2>6, <2>7
<1>3. Gap(k, p).start = placed[k].at + p[1] + 1 /\ p[1] \in Int /\ placed[k].at \in Nat
  BY GapIs, PlacedTypes
<1> HIDE DEF earlier, last
<1> QED BY <1>1, <1>2, <1>3

AddedBy(k) ==
    {[key |-> <<AddedBefore(k, n), 0, k, n>>, line |-> Inserted(placed[k].new_slice)[n]] :
        n \in {m \in DOMAIN placed[k].new_slice : m - 1 \notin {p[2] : p \in KeptIn(k)}}}

LEMMA AddedByIs ==
    ASSUME Placed, NEW k \in DOMAIN placed
    PROVE  AddedBy(k) = UNION {BlockOf(Gap(k, p)) : p \in Ends(k)}
<1> DEFINE new == placed[k].new_slice
           Entry(n) == [key |-> <<AddedBefore(k, n), 0, k, n>>, line |-> Inserted(new)[n]]
           added == {m \in DOMAIN new : m - 1 \notin {p[2] : p \in KeptIn(k)}}
<1>1. AddedBy(k) = {Entry(n) : n \in added}
  BY DEF AddedBy
<1>2. new \in Seq(Lines) /\ Len(new) \in Nat /\ DOMAIN new = 1..Len(new)
  BY PlacedTypes
<1>3. \A n \in DOMAIN new :
         Inserted(new)[n] = [text |-> new[n], ending |-> PreferredEnding(source)]
  BY <1>2, InsertedTypes
<1>4. ASSUME NEW n \in Nat
      PROVE  n \in added <=> \E p \in Ends(k) : p[2] < n - 1 /\ n - 1 < PairBehind(k, p)[2]
  <2> DEFINE m == n - 1
  <2>1. n \in added <=> m \in 0..(Len(new) - 1) \ {p[2] : p \in KeptIn(k)}
    BY <1>2
  <2>2. m \in Int
    OBVIOUS
  <2> HIDE DEF m, added
  <2>3. m \in 0..(Len(new) - 1) \ {p[2] : p \in KeptIn(k)}
          <=> \E p \in Ends(k) : p[2] < m /\ m < PairBehind(k, p)[2]
    BY <2>2, PlacedTypes, GapOfNewLine DEF Ends, PairBehind
  <2> QED BY <2>1, <2>3 DEF m
<1>5. ASSUME NEW p \in Ends(k)
      PROVE  LET r == Gap(k, p)
             IN  /\ BlockOf(r) = {[key |-> <<r.start, 0, k, p[2] + 1 + j>>,
                                   line |-> Inserted(new)[p[2] + 1 + j]] : j \in 1..Len(r.new_lines)}
                 /\ Len(r.new_lines) = PairBehind(k, p)[2] - p[2] - 1
                 /\ p[2] \in Int /\ p[2] >= -1 /\ PairBehind(k, p)[2] \in Nat
                 /\ PairBehind(k, p)[2] <= Len(new) /\ p[2] < PairBehind(k, p)[2]
  <2> DEFINE r == Gap(k, p)
             next == PairBehind(k, p)
  <2>1. /\ p[2] \in Int /\ p[2] >= -1 /\ next[2] \in Nat /\ p[2] < next[2]
        /\ next[2] <= Len(new) /\ r.chunk = k
        /\ r.new_lines \in Seq(Lines) /\ Len(r.new_lines) = next[2] - p[2] - 1
        /\ \A j \in 1..Len(r.new_lines) : r.new_lines[j] = new[p[2] + 1 + j]
    BY GapIs
  <2>2. Base(r) = p[2] + 1
    BY BaseIs
  <2> HIDE DEF r, next
  <2>3. /\ DOMAIN Inserted(r.new_lines) = 1..Len(r.new_lines)
        /\ \A j \in 1..Len(r.new_lines) : Inserted(r.new_lines)[j]
              = [text |-> r.new_lines[j], ending |-> PreferredEnding(source)]
    BY <2>1, InsertedTypes
  <2>4. \A j \in 1..Len(r.new_lines) : p[2] + 1 + j \in DOMAIN new
    BY <1>2, <2>1
  <2> HIDE DEF new
  <2>5. \A j \in 1..Len(r.new_lines) : Inserted(r.new_lines)[j] = Inserted(new)[p[2] + 1 + j]
    BY <1>3, <2>1, <2>3, <2>4
  <2>6. BlockOf(r) = {[key |-> <<r.start, 0, k, p[2] + 1 + j>>, line |-> Inserted(r.new_lines)[j]] :
                         j \in 1..Len(r.new_lines)}
    BY <2>1, <2>2, <2>3 DEF BlockOf, Block
  <2>7. BlockOf(r) = {[key |-> <<r.start, 0, k, p[2] + 1 + j>>,
                       line |-> Inserted(new)[p[2] + 1 + j]] : j \in 1..Len(r.new_lines)}
    BY <2>5, <2>6
  <2> QED BY <2>1, <2>7 DEF r, next
<1>6. ASSUME NEW n \in added PROVE \E p \in Ends(k) : Entry(n) \in BlockOf(Gap(k, p))
  <2>1. n \in Nat /\ n \in DOMAIN new
    BY <1>2
  <2>2. PICK p \in Ends(k) : p[2] < n - 1 /\ n - 1 < PairBehind(k, p)[2]
    <3> HIDE DEF added
    <3> QED BY <1>4, <2>1
  <2>3. AddedBefore(k, n) = Gap(k, p).start
    BY <2>1, <2>2, AddedBeforeIs
  <2> HIDE DEF added, new
  <2>6. Len(Gap(k, p).new_lines) = PairBehind(k, p)[2] - p[2] - 1
        /\ p[2] \in Int /\ PairBehind(k, p)[2] \in Nat
    BY <1>5
  <2> DEFINE j == n - p[2] - 1
  <2>4. j \in 1..Len(Gap(k, p).new_lines) /\ p[2] + 1 + j = n
    BY <2>1, <2>2, <2>6
  <2> HIDE DEF j
  <2>5. [key |-> <<Gap(k, p).start, 0, k, n>>, line |-> Inserted(new)[n]] \in BlockOf(Gap(k, p))
    BY <1>5, <2>4
  <2> QED BY <2>3, <2>5
<1>7. ASSUME NEW p \in Ends(k), NEW x \in BlockOf(Gap(k, p))
      PROVE  \E n \in added : x = Entry(n)
  <2>1. PICK j \in 1..Len(Gap(k, p).new_lines) :
           x = [key |-> <<Gap(k, p).start, 0, k, p[2] + 1 + j>>,
                line |-> Inserted(new)[p[2] + 1 + j]]
    <3> HIDE DEF new
    <3> QED BY <1>5
  <2> DEFINE n == p[2] + 1 + j
  <2>2. n \in Nat /\ p[2] < n - 1 /\ n - 1 < PairBehind(k, p)[2]
    BY <1>5
  <2>3. x = [key |-> <<Gap(k, p).start, 0, k, n>>, line |-> Inserted(new)[n]]
    BY <2>1
  <2> HIDE DEF n, added, new
  <2>4. AddedBefore(k, n) = Gap(k, p).start
    BY <2>2, AddedBeforeIs
  <2>5. n \in added
    BY <1>4, <2>2
  <2> QED BY <2>3, <2>4, <2>5
<1> HIDE DEF added, Entry
<1> QED BY <1>1, <1>6, <1>7

(* The added lines are those that the replacements insert. *)
LEMMA AdditionsAre ==
    ASSUME Placed
    PROVE  Additions = UNION {BlockOf(r) : r \in replacements}
<1>1. Additions = UNION {AddedBy(k) : k \in DOMAIN placed}
  BY ContextIs DEF Additions, AddedBy
<1>2. ASSUME NEW x \in Additions PROVE \E r \in replacements : x \in BlockOf(r)
  <2>1. PICK k \in DOMAIN placed : x \in AddedBy(k)
    BY <1>1
  <2>2. PICK p \in Ends(k) : x \in BlockOf(Gap(k, p))
    BY <2>1, AddedByIs
  <2>3. Gap(k, p).new_lines # <<>>
    <3> SUFFICES ASSUME Gap(k, p).new_lines = <<>> PROVE FALSE
      OBVIOUS
    <3>1. DOMAIN Inserted(Gap(k, p).new_lines) = {}
      BY DEF Inserted
    <3> QED BY <2>2, <3>1 DEF BlockOf, Block
  <2>4. Gap(k, p) \in replacements
    BY <2>3 DEF Placed, SpliceInv, IsEmptyGap
  <2> QED BY <2>2, <2>4
<1>3. ASSUME NEW r \in replacements, NEW x \in BlockOf(r) PROVE x \in Additions
  <2>1. r.chunk \in DOMAIN placed
    BY ReplacementIsGap
  <2>2. PICK p \in Ends(r.chunk) : r = Gap(r.chunk, p)
    BY ReplacementIsGap
  <2>3. x \in AddedBy(r.chunk)
    BY <1>3, <2>1, <2>2, AddedByIs
  <2> QED BY <1>1, <2>1, <2>3
<1> QED BY <1>2, <1>3

-----------------------------------------------------------------------------
(***************************************************************************)
(* apply_replacements, one replacement after the other: what is copied and *)
(* inserted so far are the lines whose keys come first.                    *)
(***************************************************************************)
Order == {p \in replacements \X replacements : Precedes(p[1], p[2])}

Sorted == InOrder(replacements, Order)

Index(n) == SourceIndex(Sorted, n)

SurvivorsBefore(b) ==
    {[key |-> <<p, 1, 0, 0>>, line |-> source[p + 1]] : p \in (0..(b - 1)) \ Removed}

Listed(n) == SurvivorsBefore(Index(n)) \cup UNION {BlockOf(Sorted[i]) : i \in 1..n}

LEMMA SortedIs ==
    ASSUME Placed
    PROVE  /\ Len(Sorted) \in Nat /\ DOMAIN Sorted = 1..Len(Sorted)
           /\ \A n \in 1..Len(Sorted) : Sorted[n] \in replacements
           /\ \A r \in replacements : \E n \in 1..Len(Sorted) : Sorted[n] = r
           /\ \A m, n \in 1..Len(Sorted) : m < n => Precedes(Sorted[m], Sorted[n])
<1> DEFINE N == Cardinality(replacements)
<1>1. \A x, y : <<x, y>> \in Order <=> x \in replacements /\ y \in replacements /\ Precedes(x, y)
  BY DEF Order
<1>2. /\ Asymmetric(replacements, Order)
      /\ \A x, y \in replacements : x = y \/ <<x, y>> \in Order \/ <<y, x>> \in Order
      /\ \A x, y, z \in replacements :
            <<x, y>> \in Order /\ <<y, z>> \in Order => <<x, z>> \in Order
  BY <1>1, PrecedesIsOrder DEF Asymmetric
<1>3. IsFiniteSet(replacements)
  BY DEF Placed, SpliceInv
<1>4. N \in Nat /\ Enumerates(Sorted, N, replacements, Order)
  BY <1>2, <1>3, InOrderEnumerates DEF Sorted
<1> HIDE DEF N
<1>5. Sorted \in [1..N -> replacements]
  BY <1>4 DEF Enumerates
<1>6. Len(Sorted) = N /\ DOMAIN Sorted = 1..N
  BY <1>4, <1>5
<1>7. \A m, n \in 1..N : m < n => <<Sorted[m], Sorted[n]>> \in Order
  BY <1>4 DEF Enumerates
<1>8. \A r \in replacements : \E n \in 1..N : Sorted[n] = r
  BY <1>4 DEF Enumerates
<1> QED BY <1>1, <1>4, <1>5, <1>6, <1>7, <1>8

(* source_index is behind the replacements so far and before the others.    *)
LEMMA IndexIs ==
    ASSUME Placed, NEW n \in 0..Len(Sorted)
    PROVE  /\ Index(n) \in Nat /\ Index(n) <= Len(source)
           /\ n # 0 => Index(n) = Sorted[n].start + Sorted[n].old_len
           /\ \A i \in 1..n : /\ Sorted[i].start + Sorted[i].old_len <= Index(n)
                              /\ Sorted[i].start <= Index(n)
           /\ \A i \in (n + 1)..Len(Sorted) : Index(n) <= Sorted[i].start
<1>1. Len(Sorted) \in Nat /\ Len(source) \in Nat
  BY SortedIs DEF Placed, IInv, TypeOK
<1>2. \A i \in 1..Len(Sorted) :
         /\ Sorted[i] \in replacements
         /\ Sorted[i].start \in Nat /\ Sorted[i].old_len \in Nat
         /\ Sorted[i].start + Sorted[i].old_len <= Len(source)
  BY SortedIs, ReplacementIsGap
<1>3. CASE n = 0
  <2>1. Index(n) = 0 /\ 1..n = {}
    BY <1>3 DEF Index, SourceIndex
  <2>2. \A i \in (n + 1)..Len(Sorted) : i \in 1..Len(Sorted)
    BY <1>1, <1>3
  <2>3. \A i \in (n + 1)..Len(Sorted) : Index(n) <= Sorted[i].start
    BY <1>2, <2>1, <2>2
  <2> QED BY <1>1, <1>3, <2>1, <2>3
<1>4. CASE n # 0
  <2>1. Index(n) = Sorted[n].start + Sorted[n].old_len /\ n \in 1..Len(Sorted)
    BY <1>1, <1>4 DEF Index, SourceIndex
  <2>2. ASSUME NEW i \in 1..n
        PROVE  /\ Sorted[i].start + Sorted[i].old_len <= Index(n)
               /\ Sorted[i].start <= Index(n)
    <3>1. i \in 1..Len(Sorted)
      BY <1>1
    <3>2. CASE i = n
      BY <1>2, <2>1, <3>2
    <3>3. CASE i # n
      <4>1. i < n
        BY <3>3
      <4>2. Precedes(Sorted[i], Sorted[n])
        BY <2>1, <3>1, <4>1, SortedIs
      <4>3. Sorted[i].start + Sorted[i].old_len <= Sorted[n].start
        BY <1>2, <2>1, <3>1, <4>2, PrecedingEnds
      <4> QED BY <1>2, <2>1, <3>1, <4>3
    <3> QED BY <3>2, <3>3
  <2>3. ASSUME NEW i \in (n + 1)..Len(Sorted) PROVE Index(n) <= Sorted[i].start
    <3>1. i \in 1..Len(Sorted) /\ n < i
      BY <1>1, <2>1
    <3>2. Precedes(Sorted[n], Sorted[i])
      BY <2>1, <3>1, SortedIs
    <3> QED BY <1>2, <2>1, <3>1, <3>2, PrecedingEnds
  <2> QED BY <1>2, <2>1, <2>2, <2>3
<1> QED BY <1>3, <1>4

(* Nothing is removed between one replacement and the next. *)
LEMMA Untouched ==
    ASSUME Placed, NEW n \in 0..Len(Sorted), NEW q \in Int, Index(n) <= q,
           n < Len(Sorted) => q < Sorted[n + 1].start
    PROVE  q \notin Removed
<1> SUFFICES ASSUME q \in Removed PROVE FALSE
  OBVIOUS
<1>0. Len(Sorted) \in Nat
  BY SortedIs
<1>1. PICK r \in replacements : r.start <= q /\ q < r.start + r.old_len
  BY RemovedIs
<1>2. PICK i \in 1..Len(Sorted) : Sorted[i] = r
  BY SortedIs
<1>3. r.start \in Nat /\ r.old_len \in Nat /\ Index(n) \in Nat
  BY ReplacementIsGap, IndexIs
<1>4. CASE i <= n
  <2>1. i \in 1..n
    BY <1>0, <1>4
  <2>2. r.start + r.old_len <= Index(n)
    BY <1>2, <2>1, IndexIs
  <2> QED BY <1>1, <1>3, <2>2
<1>5. CASE ~(i <= n)
  <2>1. n < Len(Sorted) /\ n + 1 \in 1..Len(Sorted) /\ (i = n + 1 \/ n + 1 < i)
    BY <1>0, <1>5
  <2>2. Sorted[n + 1] \in replacements /\ Sorted[n + 1].start \in Nat
    BY <2>1, SortedIs, ReplacementIsGap
  <2>3. Sorted[n + 1].start <= r.start
    <3>1. CASE i = n + 1
      BY <1>2, <1>3, <3>1
    <3>2. CASE n + 1 < i
      <4>1. Precedes(Sorted[n + 1], Sorted[i])
        BY <2>1, <3>2, SortedIs
      <4> QED BY <1>2, <2>2, <4>1, PrecedingEnds
    <3> QED BY <2>1, <3>1, <3>2
  <2> QED BY <1>1, <1>3, <2>1, <2>2, <2>3
<1> QED BY <1>4, <1>5

LEMMA SurvivorsGrow ==
    ASSUME NEW a \in Nat, NEW b \in Nat, a <= b
    PROVE  /\ (\A q \in a..(b - 1) : q \notin Removed)
                => SurvivorsBefore(b) = SurvivorsBefore(a) \cup Run(source, a, b)
           /\ (\A q \in a..(b - 1) : q \in Removed) => SurvivorsBefore(b) = SurvivorsBefore(a)
<1>1. 0..(b - 1) = (0..(a - 1)) \cup (a..(b - 1))
  OBVIOUS
<1>2. ASSUME \A q \in a..(b - 1) : q \notin Removed
      PROVE  (0..(b - 1)) \ Removed = ((0..(a - 1)) \ Removed) \cup (a..(b - 1))
  BY <1>1, <1>2
<1>3. ASSUME \A q \in a..(b - 1) : q \in Removed
      PROVE  (0..(b - 1)) \ Removed = (0..(a - 1)) \ Removed
  BY <1>1, <1>3
<1>4. ASSUME (0..(b - 1)) \ Removed = ((0..(a - 1)) \ Removed) \cup (a..(b - 1))
      PROVE  SurvivorsBefore(b) = SurvivorsBefore(a) \cup Run(source, a, b)
  BY <1>4 DEF SurvivorsBefore, Run
<1>5. ASSUME (0..(b - 1)) \ Removed = (0..(a - 1)) \ Removed
      PROVE  SurvivorsBefore(b) = SurvivorsBefore(a)
  BY <1>5 DEF SurvivorsBefore
<1> QED BY <1>2, <1>3, <1>4, <1>5

(* The entries listed so far, and their keys. *)
LEMMA BlockIs ==
    ASSUME Placed, NEW r \in replacements
    PROVE  /\ Listing(Inserted(r.new_lines), BlockOf(r))
           /\ BlockOf(r) \in SUBSET Entries
           /\ Inserted(r.new_lines) \in Seq(SourceLines)
           /\ \A x \in BlockOf(r) : x.key[1] = r.start /\ x.key[2] = 0 /\ x.key[3] = r.chunk
<1>1. /\ r.chunk \in DOMAIN placed /\ r.chunk \in Nat /\ r.start \in Nat
      /\ r.new_lines \in Seq(Lines)
  BY ReplacementIsGap
<1>2. PICK p \in Ends(r.chunk) : r = Gap(r.chunk, p)
  BY ReplacementIsGap
<1>3. Base(r) \in Nat
  BY <1>1, <1>2, BaseIs
<1>4. Inserted(r.new_lines) \in Seq(SourceLines)
  BY <1>1, InsertedTypes
<1>5. \A x \in BlockOf(r) : x.key[1] = r.start /\ x.key[2] = 0 /\ x.key[3] = r.chunk
  BY DEF BlockOf, Block
<1> QED BY <1>1, <1>3, <1>4, <1>5, ListingBlock DEF BlockOf

LEMMA ListedIs ==
    ASSUME Placed, NEW n \in 0..Len(Sorted), NEW x \in Listed(n)
    PROVE  /\ x \in Entries
           /\ \/ x.key[1] < Index(n) /\ x.key[2] = 1
              \/ \E i \in 1..n : /\ x.key[1] = Sorted[i].start /\ x.key[2] = 0
                                 /\ x.key[3] = Sorted[i].chunk
<1>0. Index(n) \in Nat /\ Index(n) <= Len(source) /\ source \in Seq(SourceLines)
      /\ Len(Sorted) \in Nat
  BY IndexIs, SortedIs DEF Placed, IInv, TypeOK
<1>1. CASE x \in SurvivorsBefore(Index(n))
  <2>1. PICK p \in 0..(Index(n) - 1) : x = [key |-> <<p, 1, 0, 0>>, line |-> source[p + 1]]
    BY <1>1 DEF SurvivorsBefore
  <2>2. p \in Nat /\ p < Index(n) /\ source[p + 1] \in SourceLines
    BY <1>0
  <2> QED BY <2>1, <2>2 DEF Entries
<1>2. CASE x \in UNION {BlockOf(Sorted[i]) : i \in 1..n}
  <2>1. PICK i \in 1..n : x \in BlockOf(Sorted[i])
    BY <1>2
  <2>2. Sorted[i] \in replacements
    BY <1>0, SortedIs
  <2> QED BY <2>1, <2>2, BlockIs
<1> QED BY <1>1, <1>2 DEF Listed

(* What is listed comes before the run of lines up to b that follows. *)
LEMMA RunIsBehind ==
    ASSUME Placed, NEW n \in 0..Len(Sorted), NEW b \in Nat, Index(n) <= b, b <= Len(source)
    PROVE  /\ Listing(SubSeq(source, Index(n) + 1, b), Run(source, Index(n), b))
           /\ Run(source, Index(n), b) \in SUBSET Entries
           /\ \A y \in Run(source, Index(n), b) :
                 Index(n) <= y.key[1] /\ y.key[1] < b /\ y.key[2] = 1
           /\ \A x \in Listed(n), y \in Run(source, Index(n), b) : KeyBefore(x, y)
<1> DEFINE a == Index(n)
<1>0. a \in Nat /\ source \in Seq(SourceLines) /\ \A i \in 1..n : Sorted[i].start <= a
  BY IndexIs DEF Placed, IInv, TypeOK
<1> HIDE DEF a
<1>1. Listing(SubSeq(source, a + 1, b), Run(source, a, b)) /\ Run(source, a, b) \in SUBSET Entries
  BY <1>0, ListingRun DEF a
<1>2. \A y \in Run(source, a, b) : a <= y.key[1] /\ y.key[1] < b /\ y.key[2] = 1
  BY <1>0 DEF Run
<1>3. ASSUME NEW x \in Listed(n), NEW y \in Run(source, a, b) PROVE KeyBefore(x, y)
  <2>1. x \in Entries /\ y \in Entries
    BY <1>1, ListedIs
  <2>2. x.key[1] \in Nat /\ y.key[1] \in Nat /\ a <= y.key[1] /\ y.key[2] = 1
    BY <1>2, <2>1 DEF Entries
  <2>3. \/ x.key[1] < a
        \/ x.key[1] <= a /\ x.key[2] = 0
    <3>1. CASE x.key[1] < Index(n)
      BY <3>1 DEF a
    <3>2. CASE \E i \in 1..n : x.key[1] = Sorted[i].start /\ x.key[2] = 0
      BY <1>0, <3>2
    <3> QED BY <3>1, <3>2, ListedIs
  <2>4. x.key[1] < y.key[1] \/ (x.key[1] = y.key[1] /\ x.key[2] < y.key[2])
    BY <1>0, <2>2, <2>3
  <2> QED BY <2>1, <2>4, KeyBeforeIs
<1> QED BY <1>1, <1>2, <1>3 DEF a

(* One more replacement. *)
LEMMA ListedNext ==
    ASSUME Placed, NEW n \in 1..Len(Sorted), NEW lines, Listing(lines, Listed(n - 1))
    PROVE  Listing((lines \o SubSeq(source, Index(n - 1) + 1, Sorted[n].start))
                       \o Inserted(Sorted[n].new_lines), Listed(n))
<1> DEFINE r == Sorted[n]
           a == Index(n - 1)
           b == r.start
           run == Run(source, a, b)
<1>0. /\ n - 1 \in 0..Len(Sorted) /\ n - 1 < Len(Sorted) /\ (n - 1) + 1 = n
      /\ n \in 0..Len(Sorted) /\ n \in ((n - 1) + 1)..Len(Sorted) /\ n # 0
  BY SortedIs
<1>1. r \in replacements
  BY SortedIs
<1>2. /\ a \in Nat /\ b \in Nat /\ r.old_len \in Nat /\ a <= b
      /\ b + r.old_len <= Len(source) /\ Len(source) \in Nat /\ Index(n) = b + r.old_len
  BY <1>0, <1>1, IndexIs, ReplacementIsGap
<1>3. \A q \in a..(b - 1) : q \notin Removed
  <2> SUFFICES ASSUME NEW q \in a..(b - 1) PROVE q \notin Removed
    OBVIOUS
  <2>1. q \in Int /\ Index(n - 1) <= q /\ q < Sorted[(n - 1) + 1].start
    BY <1>0, <1>2
  <2> QED BY <1>0, <2>1, Untouched
<1>4. \A q \in b..(Index(n) - 1) : q \in Removed
  <2> SUFFICES ASSUME NEW q \in b..(Index(n) - 1) PROVE q \in Removed
    OBVIOUS
  <2>1. q \in Int /\ r.start <= q /\ q < r.start + r.old_len
    BY <1>2
  <2> QED BY <1>1, <2>1, RemovedIs
<1>5. SurvivorsBefore(Index(n)) = SurvivorsBefore(a) \cup run
  <2>1. SurvivorsBefore(b) = SurvivorsBefore(a) \cup run
    <3> HIDE DEF a, b, r
    <3> QED BY <1>2, <1>3, SurvivorsGrow
  <2>2. SurvivorsBefore(Index(n)) = SurvivorsBefore(b)
    <3>1. Index(n) \in Nat /\ b <= Index(n)
      BY <1>2
    <3> HIDE DEF a, b, r
    <3> QED BY <1>2, <1>4, <3>1, SurvivorsGrow
  <2> QED BY <2>1, <2>2
<1>6. Listed(n) = (Listed(n - 1) \cup run) \cup BlockOf(r)
  <2> DEFINE B(i) == BlockOf(Sorted[i])
             U == UNION {B(i) : i \in 1..n}
             V == UNION {B(i) : i \in 1..(n - 1)}
  <2>1. 1..n = (1..(n - 1)) \cup {n}
    OBVIOUS
  <2>2. U = V \cup B(n)
    <3> HIDE DEF B
    <3> QED BY <2>1
  <2>3. Listed(n) = SurvivorsBefore(Index(n)) \cup U /\ Listed(n - 1) = SurvivorsBefore(a) \cup V
    BY DEF Listed
  <2>4. B(n) = BlockOf(r)
    OBVIOUS
  <2> HIDE DEF run, r, U, V, a, B
  <2> QED BY <1>5, <2>2, <2>3, <2>4
<1>7. /\ Listing(SubSeq(source, a + 1, b), run) /\ run \in SUBSET Entries
      /\ \A y \in run : a <= y.key[1] /\ y.key[1] < b /\ y.key[2] = 1
      /\ \A x \in Listed(n - 1), y \in run : KeyBefore(x, y)
  <2>1. b <= Len(source)
    BY <1>2
  <2> HIDE DEF b, r
  <2> QED BY <1>0, <1>2, <2>1, RunIsBehind
<1>8. /\ Listing(Inserted(r.new_lines), BlockOf(r)) /\ BlockOf(r) \in SUBSET Entries
      /\ \A x \in BlockOf(r) : x.key[1] = b /\ x.key[2] = 0 /\ x.key[3] = r.chunk
  BY <1>1, BlockIs
<1>9. ASSUME NEW x \in Listed(n - 1) \cup run, NEW y \in BlockOf(r) PROVE KeyBefore(x, y)
  <2>1. y \in Entries /\ y.key[1] = b /\ y.key[2] = 0 /\ y.key[3] = r.chunk
    BY <1>8
  <2>2. CASE x \in run
    BY <1>7, <2>1, <2>2, KeyBeforeIs
  <2>3. CASE x \in Listed(n - 1)
    <3>1. x \in Entries
      BY <1>0, <2>3, ListedIs
    <3>2. x.key[1] \in Nat
      BY <3>1 DEF Entries
    <3>3. CASE x.key[1] < a
      BY <1>2, <2>1, <3>1, <3>2, <3>3, KeyBeforeIs
    <3>4. CASE \E i \in 1..(n - 1) : /\ x.key[1] = Sorted[i].start /\ x.key[2] = 0
                                     /\ x.key[3] = Sorted[i].chunk
      <4>1. PICK i \in 1..(n - 1) : /\ x.key[1] = Sorted[i].start /\ x.key[2] = 0
                                    /\ x.key[3] = Sorted[i].chunk
        BY <3>4
      <4>2. i \in 1..Len(Sorted) /\ i < n
        BY SortedIs
      <4>3. Sorted[i] \in replacements /\ Precedes(Sorted[i], r)
        BY <4>2, SortedIs
      <4>4. /\ Sorted[i].start <= b
            /\ Sorted[i].start = b => Sorted[i].chunk < r.chunk
        BY <1>1, <4>3, PrecedingEnds
      <4>5. x.key[1] < b \/ (x.key[1] = b /\ x.key[3] < r.chunk)
        BY <1>2, <3>2, <4>1, <4>4
      <4> HIDE DEF r, b
      <4> QED BY <2>1, <3>1, <4>1, <4>5, KeyBeforeIs
    <3> QED BY <1>0, <2>3, <3>3, <3>4, ListedIs
  <2> QED BY <2>2, <2>3
<1>10. Listing(lines \o SubSeq(source, a + 1, b), Listed(n - 1) \cup run)
  <2> HIDE DEF a, b, run
  <2> QED BY <1>7, ListingAppend
<1> DEFINE before == lines \o SubSeq(source, a + 1, b)
           C == Listed(n - 1) \cup run
<1>11. Listing(before \o Inserted(r.new_lines), C \cup BlockOf(r))
  <2>1. Listing(before, C) /\ \A x \in C, y \in BlockOf(r) : KeyBefore(x, y)
    BY <1>9, <1>10
  <2> HIDE DEF before, C, r
  <2> QED BY <1>8, <2>1, ListingAppend
<1> QED BY <1>6, <1>11

(* Behind the last replacement, the rest of the file. *)
LEMMA ListedAll ==
    ASSUME Placed, NEW lines, Listing(lines, Listed(Len(Sorted)))
    PROVE  /\ Listing(lines \o SubSeq(source, Index(Len(Sorted)) + 1, Len(source)),
                      Survivors \cup Additions)
           /\ Survivors \cup Additions \in SUBSET Entries
<1> DEFINE N == Len(Sorted)
           a == Index(N)
           b == Len(source)
           run == Run(source, a, b)
<1>0. N \in Nat /\ N \in 0..N /\ ~(N < N)
  BY SortedIs
<1>1. a \in Nat /\ b \in Nat /\ a <= b
  BY <1>0, IndexIs DEF Placed, IInv, TypeOK
<1>2. \A q \in a..(b - 1) : q \notin Removed
  <2> SUFFICES ASSUME NEW q \in a..(b - 1) PROVE q \notin Removed
    OBVIOUS
  <2>1. q \in Int /\ Index(N) <= q
    BY <1>1
  <2> QED BY <1>0, <2>1, Untouched
<1>3. Survivors = SurvivorsBefore(a) \cup run
  <2>1. Survivors = SurvivorsBefore(b)
    BY DEF Survivors, SurvivorsBefore
  <2> HIDE DEF a, b
  <2> QED BY <1>1, <1>2, <2>1, SurvivorsGrow
<1>4. Additions = UNION {BlockOf(Sorted[i]) : i \in 1..N}
  <2>1. Additions = UNION {BlockOf(r) : r \in replacements}
    BY AdditionsAre
  <2>2. \A i \in 1..N : Sorted[i] \in replacements
    BY SortedIs
  <2>3. \A r \in replacements : \E i \in 1..N : Sorted[i] = r
    BY SortedIs
  <2> HIDE DEF N
  <2> QED BY <2>1, <2>2, <2>3
<1>5. Survivors \cup Additions = Listed(N) \cup run
  <2> HIDE DEF run, N
  <2> QED BY <1>3, <1>4 DEF Listed, a
<1>6. /\ Listing(SubSeq(source, a + 1, b), run) /\ run \in SUBSET Entries
      /\ \A x \in Listed(N), y \in run : KeyBefore(x, y)
  <2>1. b <= Len(source)
    BY <1>1
  <2> HIDE DEF b
  <2> QED BY <1>0, <1>1, <2>1, RunIsBehind
<1>7. Listed(N) \in SUBSET Entries
  BY <1>0, ListedIs
<1>8. Listing(lines \o SubSeq(source, a + 1, b), Listed(N) \cup run)
  <2> HIDE DEF a, b, run
  <2> QED BY <1>6, ListingAppend
<1> QED BY <1>5, <1>6, <1>7, <1>8

-----------------------------------------------------------------------------
Copied(n) == SubSeq(source, Index(n - 1) + 1, Sorted[n].start)

Rebuilt(f) ==
    [n \in 0..Len(Sorted) |->
        IF n = 0 THEN <<>>
        ELSE f[n - 1] \o Copied(n) \o Inserted(Sorted[n].new_lines)]

(* The recursion of apply_replacements has a solution. *)
LEMMA RebuiltExists == ASSUME Placed PROVE \E f : f = Rebuilt(f)
<1> DEFINE N == Len(Sorted)
           piece(n) == Copied(n) \o Inserted(Sorted[n].new_lines)
           pieces == [n \in 1..N |-> piece(n)]
<1>0. N \in Nat /\ source \in Seq(SourceLines)
  BY SortedIs DEF Placed, IInv, TypeOK
<1>1. ASSUME NEW n \in 1..N
      PROVE  Copied(n) \in Seq(SourceLines) /\ Inserted(Sorted[n].new_lines) \in Seq(SourceLines)
  <2>1. Sorted[n] \in replacements
    BY SortedIs
  <2>2. Inserted(Sorted[n].new_lines) \in Seq(SourceLines)
    BY <2>1, BlockIs
  <2>3. n - 1 \in 0..N /\ n \in ((n - 1) + 1)..N
    BY <1>0
  <2>4. Index(n - 1) \in Nat /\ Index(n - 1) <= Sorted[n].start
    BY <2>3, IndexIs
  <2>5. Sorted[n].start \in Nat /\ Sorted[n].start <= Len(source)
    BY <1>0, <2>1, ReplacementIsGap
  <2>6. Copied(n) \in Seq(SourceLines)
    <3> DEFINE i == Index(n - 1)
               j == Sorted[n].start
    <3>1. Copied(n) = SubSeq(source, i + 1, j)
      BY DEF Copied
    <3>2. i \in Nat /\ j \in Nat /\ i <= j /\ j <= Len(source)
      BY <2>4, <2>5
    <3> HIDE DEF i, j
    <3> QED BY <1>0, <3>1, <3>2, ListingRun DEF Listing
  <2> QED BY <2>2, <2>6
<1>2. \A n \in 1..N : piece(n) \in Seq(SourceLines)
  <2> SUFFICES ASSUME NEW n \in 1..N PROVE piece(n) \in Seq(SourceLines)
    OBVIOUS
  <2> DEFINE s == Copied(n)
             t == Inserted(Sorted[n].new_lines)
  <2>1. s \in Seq(SourceLines) /\ t \in Seq(SourceLines)
    BY <1>1
  <2>2. s \o t \in Seq(SourceLines)
    <3> HIDE DEF s, t
    <3> QED BY <2>1
  <2> QED BY <2>2
<1>3. pieces \in Seq(Seq(SourceLines)) /\ Len(pieces) = N
  <2> HIDE DEF piece
  <2> QED BY <1>0, <1>2
<1>4. PICK f : Concatenates(f, pieces, SourceLines)
  <2> HIDE DEF pieces
  <2> QED BY <1>3, ConcatenationExists
<1>5. /\ f \in [0..N -> Seq(SourceLines)] /\ f[0] = <<>>
      /\ \A n \in 1..N : f[n] = f[n - 1] \o piece(n)
  <2> HIDE DEF piece
  <2> QED BY <1>3, <1>4 DEF Concatenates
<1>6. ASSUME NEW n \in 0..N PROVE f[n] = Rebuilt(f)[n]
  <2>1. CASE n = 0
    BY <1>5, <2>1 DEF Rebuilt
  <2>2. CASE n # 0
    <3>1. n \in 1..N /\ n - 1 \in 0..N
      BY <1>0, <2>2
    <3> DEFINE r == f[n - 1]
               s == Copied(n)
               t == Inserted(Sorted[n].new_lines)
    <3>2. r \in Seq(SourceLines) /\ s \in Seq(SourceLines) /\ t \in Seq(SourceLines)
      BY <1>1, <1>5, <3>1
    <3>3. f[n] = r \o (s \o t)
      BY <1>5, <3>1
    <3>4. Rebuilt(f)[n] = r \o s \o t
      BY <2>2 DEF Rebuilt
    <3>5. r \o (s \o t) = (r \o s) \o t
      <4> HIDE DEF r, s, t
      <4> QED BY <3>2
    <3> QED BY <3>3, <3>4, <3>5
  <2> QED BY <2>1, <2>2
<1>7. f = [n \in 0..N |-> f[n]] /\ Rebuilt(f) = [n \in 0..N |-> Rebuilt(f)[n]]
  BY <1>5 DEF Rebuilt
<1>8. f = Rebuilt(f)
  <2> HIDE DEF N
  <2> QED BY <1>6, <1>7
<1> QED BY <1>8

(* apply_replacements makes the lines of the splice. *)
LEMMA ApplyIs ==
    ASSUME Placed
    PROVE  LET lines == Survivors \cup Additions
               expected == InOrder(lines, {p \in lines \X lines : KeyBefore(p[1], p[2])})
           IN  ApplyReplacements = Terminated([k \in DOMAIN expected |-> expected[k].line])
<1> DEFINE N == Len(Sorted)
           f == CHOOSE g : g = Rebuilt(g)
           all == f[N] \o SubSeq(source, Index(N) + 1, Len(source))
<1>0. N \in Nat
  BY SortedIs
<1>1. ApplyReplacements = Terminated(all)
  <2>1. f = CHOOSE g : g =
                [n \in 0..Len(Sorted) |->
                    IF n = 0 THEN <<>>
                    ELSE g[n - 1]
                         \o SubSeq(source, SourceIndex(Sorted, n - 1) + 1, Sorted[n].start)
                         \o Inserted(Sorted[n].new_lines)]
    BY DEF Rebuilt, Copied, Index
  <2> QED BY <2>1 DEF ApplyReplacements, Sorted, Order, Index
<1>2. f = Rebuilt(f)
  BY RebuiltExists
<1> HIDE DEF f
<1> DEFINE S == {n \in Nat : n <= N => Listing(f[n], Listed(n))}
<1>3. 0 \in S
  <2>1. f[0] = <<>>
    BY <1>0, <1>2 DEF Rebuilt
  <2>2. Listed(0) = {}
    <3>1. Index(0) = 0 /\ 0..(0 - 1) = {} /\ 1..0 = {}
      BY DEF Index, SourceIndex
    <3>2. SurvivorsBefore(0) = {}
      BY <3>1 DEF SurvivorsBefore
    <3> QED BY <3>1, <3>2 DEF Listed
  <2> QED BY <2>1, <2>2, ListingNothing
<1>4. ASSUME NEW n \in S PROVE n + 1 \in S
  <2> SUFFICES ASSUME n + 1 <= N PROVE Listing(f[n + 1], Listed(n + 1))
    OBVIOUS
  <2> DEFINE m == n + 1
  <2>1. n \in Nat /\ Listing(f[n], Listed(n)) /\ m \in 1..N /\ m - 1 = n /\ m \in 0..N /\ m # 0
    BY <1>0
  <2> HIDE DEF m, S, N
  <2>2. f[m] = (f[m - 1] \o SubSeq(source, Index(m - 1) + 1, Sorted[m].start))
                   \o Inserted(Sorted[m].new_lines)
    BY <1>2, <2>1 DEF Rebuilt, Copied, N
  <2>3. Listing(f[m - 1], Listed(m - 1))
    BY <2>1
  <2>4. Listing(f[m], Listed(m))
    BY <2>1, <2>2, <2>3, ListedNext DEF N
  <2> QED BY <2>4 DEF m
<1>5. S = Nat
  <2>1. S \in SUBSET Nat
    OBVIOUS
  <2> HIDE DEF S
  <2> QED BY <1>3, <1>4, <2>1, SetInduction
<1>6. Listing(f[N], Listed(N))
  BY <1>0, <1>5
<1> DEFINE C == Survivors \cup Additions
<1>7. Listing(all, C) /\ C \in SUBSET Entries
  BY <1>6, ListedAll
<1> HIDE DEF all, C
<1> DEFINE expected == InOrder(C, KeyOrder(C))
<1>8. all = [k \in DOMAIN expected |-> expected[k].line]
  BY <1>7, ListingIs
<1>9. ApplyReplacements = Terminated([k \in DOMAIN expected |-> expected[k].line])
  <2> HIDE DEF expected
  <2> QED BY <1>1, <1>8
<1> QED BY <1>9 DEF C, KeyOrder

LEMMA NextResult ==
    ASSUME IInv, PlacedInv, SpliceInv, ResultIsTheSplice, [Next]_vars
    PROVE  ResultIsTheSplice'
<1> DEFINE lines == Survivors \cup Additions
           expected == InOrder(lines, {p \in lines \X lines : KeyBefore(p[1], p[2])})
           spliced == Terminated([k \in DOMAIN expected |-> expected[k].line])
           whole == \A k \in DOMAIN placed : KeepsContext(k)
<1>0. UNCHANGED <<source, chunks, placed>> => spliced' = spliced /\ whole' = whole
  BY DEF Survivors, Additions, Removed, AddedBefore, Context, ContextPairs, Wanted,
         WithoutLastBlank, KeepsContext, KeyBefore, InOrder, Terminated, Inserted
<1>1. CASE Rebuild
  <2>1. result' = ApplyReplacements /\ UNCHANGED <<source, chunks, placed>>
    BY <1>1 DEF Rebuild, update
  <2>2. whole => ApplyReplacements = spliced
    BY ApplyIs DEF Placed
  <2>3. spliced' = spliced /\ whole' = whole
    BY <1>0, <2>1
  <2>4. whole' => result' = spliced'
    <3> HIDE DEF spliced, whole
    <3> QED BY <2>1, <2>2, <2>3
  <2> QED BY <2>4 DEF ResultIsTheSplice
<1>2. CASE AddAtEnd \/ ReplaceLines \/ LoseContext \/ LoseLines
  <2>1. pc' # "done"
    BY <1>2 DEF AddAtEnd, ReplaceLines, LoseContext, LoseLines, Fail, AtChunk
  <2> QED BY <2>1 DEF ResultIsTheSplice
<1>3. CASE Finished \/ UNCHANGED vars
  <2>1. UNCHANGED <<source, chunks, placed, result, pc>>
    BY <1>3 DEF Finished, vars, update
  <2>2. spliced' = spliced /\ whole' = whole
    BY <1>0, <2>1
  <2>3. pc = "done" /\ whole => result = spliced
    BY DEF ResultIsTheSplice
  <2> HIDE DEF spliced, whole
  <2>4. pc' = "done" /\ whole' => result' = spliced'
    BY <2>1, <2>2, <2>3
  <2> QED BY <2>4 DEF ResultIsTheSplice, spliced, whole
<1> QED BY <1>1, <1>2, <1>3 DEF Next, Step

(* For files and chunk lists of any length, the new file is the old one with *)
(* the removed lines gone and every added line where its chunk was matched,  *)
(* in patch order; context, and lines no chunk names, keep text and ending.  *)
(* Left out is an update with a chunk found without its last blank line that *)
(* has its last new line, blank as well, as context further up: there the    *)
(* code gives up the context (see ContextIsKept).                            *)
THEOREM Splice == Spec => []ResultIsTheSplice
<1>1. Init => PlacedInv /\ SpliceInv /\ ResultIsTheSplice
  BY SpliceInit DEF Init, PlacedInv, EndOfFileChunksReachTheEnd, ResultIsTheSplice
<1>2. IInv /\ PlacedInv /\ SpliceInv /\ ResultIsTheSplice /\ [Next]_vars
        => PlacedInv' /\ SpliceInv' /\ ResultIsTheSplice'
  BY NextPlaced, NextSplice, NextResult
<1> QED BY <1>1, <1>2, Invariant, PTL DEF Spec
=============================================================================
