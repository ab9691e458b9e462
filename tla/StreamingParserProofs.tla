------------------------ MODULE StreamingParserProofs ------------------------
(***************************************************************************)
(* Proofs about the streaming parser, for patches of any length, with      *)
(* rejected lines and calls of finish anywhere: type correctness, that     *)
(* finished updates are whole and sections aligned, that hunks which were  *)
(* shown stay, that the end-of-file marker closes its section, that the    *)
(* environment is fixed, and that the last hunk holds the content lines    *)
(* read for it, none lost, doubled or moved.                               *)
(*                                                                         *)
(* Only the last section of the last hunk can still be empty (Complete     *)
(* holds of all other hunks), and the mode says what the last hunk is:     *)
(* that is why looking at the last section alone is enough.                *)
(*                                                                         *)
(* That no line is lost needs no more than the lines themselves: a line is *)
(* added behind the last section, so each side of the sections, put one    *)
(* behind the other, grows by what the line adds to it (FlattenAppend,     *)
(* FlattenLast).                                                           *)
(***************************************************************************)
EXTENDS StreamingParser, SharedLemmas, TLAPS

RawChunks ==
    [change_context : Lines \cup {None}, old_lines : Seq(Lines), new_lines : Seq(Lines),
     context_line_indices : Seq(Nat \X Nat), is_end_of_file : BOOLEAN]

AlignedChunks == {c \in RawChunks : ContextPairsInOrder(c)}

Adds == [verb : {"add"}, path : Names, contents : Seq(Lines)]

Deletes == [verb : {"delete"}, path : Names]

Updates == [verb : {"update"}, path : Names, move_path : Names \cup {None},
            chunks : Seq(AlignedChunks)]

(* Of an update, only the last section can be empty. *)
ParsedHunks ==
    Adds \cup Deletes
    \cup {h \in Updates : \A m \in 1..(Len(h.chunks) - 1) : HasLines(h.chunks[m])}

Complete(h) ==
    h.verb = "update" => h.chunks # <<>> /\ HasLines(h.chunks[Len(h.chunks)])

Modes == {"NotStarted", "StartedPatch", "AddFile", "DeleteFile", "UpdateFile", "EndedPatch"}

ModeTellsHunk ==
    /\ mode \in {"NotStarted", "StartedPatch"} => hunks = <<>>
    /\ mode = "AddFile" => hunks # <<>> /\ LastHunk.verb = "add"
    /\ mode = "DeleteFile" => hunks # <<>> /\ LastHunk.verb = "delete"
    /\ mode = "UpdateFile" => hunks # <<>> /\ LastHunk.verb = "update"

OthersAreComplete ==
    /\ \A k \in 1..(Len(hunks) - 1) : Complete(hunks[k])
    /\ mode = "EndedPatch" /\ hunks # <<>> => Complete(LastHunk)

ParserInv ==
    /\ mode \in Modes
    /\ environment_id \in Names \cup {None}
    /\ hunks \in Seq(ParsedHunks)
    /\ ModeTellsHunk
    /\ OthersAreComplete

IInv == ParserInv /\ (answer = "done" => mode = "EndedPatch")

-----------------------------------------------------------------------------
PairsInOrder(old, new, pairs) ==
    /\ \A k \in DOMAIN pairs :
          /\ pairs[k][1] \in 0..(Len(old) - 1)
          /\ pairs[k][2] \in 0..(Len(new) - 1)
          /\ old[pairs[k][1] + 1] = new[pairs[k][2] + 1]
    /\ \A j, k \in DOMAIN pairs :
          j < k => pairs[j][1] < pairs[k][1] /\ pairs[j][2] < pairs[k][2]

LEMMA ChunkPairs ==
    \A c : ContextPairsInOrder(c)
            <=> PairsInOrder(c.old_lines, c.new_lines, c.context_line_indices)
BY DEF ContextPairsInOrder, PairsInOrder

Prolongs(t, s) == Len(s) <= Len(t) /\ \A n \in 1..Len(s) : t[n] = s[n]

LEMMA AppendProlongs ==
    ASSUME NEW S, NEW s \in Seq(S), NEW x \in S
    PROVE  /\ Prolongs(Append(s, x), s) /\ Prolongs(s, s)
           /\ Append(s, x) \in Seq(S) /\ Len(Append(s, x)) = Len(s) + 1
           /\ Append(s, x)[Len(s) + 1] = x
BY DEF Prolongs

(* Lines that are added behind a side leave its pairs in order. *)
LEMMA ProlongedInOrder ==
    ASSUME NEW S, NEW old \in Seq(S), NEW new \in Seq(S), NEW pairs,
           PairsInOrder(old, new, pairs),
           NEW o2 \in Seq(S), NEW n2 \in Seq(S),
           Prolongs(o2, old), Prolongs(n2, new)
    PROVE  PairsInOrder(o2, n2, pairs)
<1>0. /\ Len(old) \in Nat /\ Len(new) \in Nat /\ Len(o2) \in Nat /\ Len(n2) \in Nat
      /\ Len(old) <= Len(o2) /\ Len(new) <= Len(n2)
  BY DEF Prolongs
<1>1. ASSUME NEW k \in DOMAIN pairs
      PROVE  /\ pairs[k][1] \in 0..(Len(o2) - 1)
             /\ pairs[k][2] \in 0..(Len(n2) - 1)
             /\ o2[pairs[k][1] + 1] = n2[pairs[k][2] + 1]
  <2> DEFINE a == pairs[k][1]
             b == pairs[k][2]
  <2>1. a \in 0..(Len(old) - 1) /\ b \in 0..(Len(new) - 1) /\ old[a + 1] = new[b + 1]
    BY DEF PairsInOrder
  <2> HIDE DEF a, b
  <2>2. /\ a + 1 \in 1..Len(old) /\ b + 1 \in 1..Len(new)
        /\ a \in 0..(Len(o2) - 1) /\ b \in 0..(Len(n2) - 1)
    BY <1>0, <2>1
  <2>3. o2[a + 1] = n2[b + 1]
    BY <2>1, <2>2 DEF Prolongs
  <2> QED BY <2>2, <2>3 DEF a, b
<1> QED BY <1>1 DEF PairsInOrder

(* So does a pair for a line that is added to both sides. *)
LEMMA PairedInOrder ==
    ASSUME NEW S, NEW old \in Seq(S), NEW new \in Seq(S), NEW pairs \in Seq(Nat \X Nat),
           PairsInOrder(old, new, pairs), NEW x \in S
    PROVE  PairsInOrder(Append(old, x), Append(new, x),
                        Append(pairs, <<Len(old), Len(new)>>))
<1> DEFINE o2 == Append(old, x)
           n2 == Append(new, x)
           p2 == Append(pairs, <<Len(old), Len(new)>>)
           m == Len(old)
           n == Len(new)
<1>1. /\ m \in Nat /\ n \in Nat 
      /\ Len(o2) = m + 1 /\ Len(n2) = n + 1
      /\ o2[m + 1] = x /\ n2[n + 1] = x
      /\ o2 \in Seq(S) /\ n2 \in Seq(S)
  BY AppendProlongs
<1>2. /\ DOMAIN p2 = 1..(Len(pairs) + 1) /\ DOMAIN pairs = 1..Len(pairs) /\ Len(pairs) \in Nat
      /\ \A k \in 1..Len(pairs) : p2[k] = pairs[k]
      /\ p2[Len(pairs) + 1] = <<m, n>>
  OBVIOUS
<1>3. PairsInOrder(o2, n2, pairs)
  BY <1>1, ProlongedInOrder, AppendProlongs
<1>4. ASSUME NEW k \in DOMAIN pairs PROVE pairs[k][1] < m /\ pairs[k][2] < n
  <2> DEFINE a == pairs[k][1]
             b == pairs[k][2]
  <2>1. a \in 0..(m - 1) /\ b \in 0..(n - 1)
    BY DEF PairsInOrder
  <2> HIDE DEF a, b, m, n
  <2>2. a < m /\ b < n
    BY <2>1, <1>1
  <2> QED BY <2>2 DEF a, b
<1> HIDE DEF o2, n2, p2, m, n
<1>5. ASSUME NEW k \in DOMAIN p2
      PROVE  /\ p2[k][1] \in 0..(Len(o2) - 1)
             /\ p2[k][2] \in 0..(Len(n2) - 1)
             /\ o2[p2[k][1] + 1] = n2[p2[k][2] + 1]
  <2>1. CASE k \in DOMAIN pairs
    <3>1. p2[k] = pairs[k]
      BY <1>2, <2>1
    <3> QED BY <1>3, <2>1, <3>1 DEF PairsInOrder
  <2>2. CASE k = Len(pairs) + 1
    <3>1. p2[k][1] = m /\ p2[k][2] = n
      BY <1>2, <2>2
    <3>2. m \in 0..(Len(o2) - 1) /\ n \in 0..(Len(n2) - 1) /\ o2[m + 1] = n2[n + 1]
      BY <1>1
    <3> QED BY <3>1, <3>2
  <2> QED BY <1>2, <2>1, <2>2
<1>6. ASSUME NEW j \in DOMAIN p2, NEW k \in DOMAIN p2, j < k
      PROVE  p2[j][1] < p2[k][1] /\ p2[j][2] < p2[k][2]
  <2>0. j \in DOMAIN pairs /\ p2[j] = pairs[j]
    BY <1>2, <1>6
  <2>1. CASE k \in DOMAIN pairs
    <3>1. p2[k] = pairs[k]
      BY <1>2, <2>1
    <3> QED BY <1>3, <1>6, <2>0, <2>1, <3>1 DEF PairsInOrder
  <2>2. CASE k = Len(pairs) + 1
    <3>1. p2[k][1] = m /\ p2[k][2] = n
      BY <1>2, <2>2
    <3> QED BY <1>4, <2>0, <3>1
  <2>3. k \in DOMAIN pairs \/ k = Len(pairs) + 1
    BY <1>2
  <2> QED BY <2>1, <2>2, <2>3
<1> QED BY <1>5, <1>6 DEF PairsInOrder, o2, n2, p2, m, n

LEMMA NewChunkAligned ==
    ASSUME NEW context \in Lines \cup {None}
    PROVE  NewChunk(context) \in AlignedChunks /\ NewChunk(context).is_end_of_file = FALSE
BY DEF NewChunk, AlignedChunks, RawChunks, ContextPairsInOrder

LEMMA ContextLineAligned ==
    ASSUME NEW c \in AlignedChunks, NEW text \in Lines
    PROVE  /\ PushContextLine(c, text) \in AlignedChunks
           /\ HasLines(PushContextLine(c, text))
<1> DEFINE d == PushContextLine(c, text)
           pair == <<Len(c.old_lines), Len(c.new_lines)>>
<1>1. c \in RawChunks /\ ContextPairsInOrder(c)
  BY DEF AlignedChunks
<1>2. /\ c.old_lines \in Seq(Lines) /\ c.new_lines \in Seq(Lines)
      /\ c.context_line_indices \in Seq(Nat \X Nat)
  BY <1>1 DEF RawChunks
<1>3. /\ d.old_lines = Append(c.old_lines, text)
      /\ d.new_lines = Append(c.new_lines, text)
      /\ d.context_line_indices = Append(c.context_line_indices, pair)
  BY <1>1 DEF PushContextLine, RawChunks
<1>4. pair \in Nat \X Nat
  BY <1>2
<1>5. /\ Append(c.old_lines, text) \in Seq(Lines)
      /\ Append(c.new_lines, text) \in Seq(Lines)
      /\ Append(c.context_line_indices, pair) \in Seq(Nat \X Nat)
      /\ Append(c.old_lines, text) # <<>>
  <2> HIDE DEF pair
  <2> QED BY <1>2, <1>4
<1>6. d \in RawChunks
  BY <1>1, <1>5 DEF PushContextLine, RawChunks
<1>7. ContextPairsInOrder(d)
  BY <1>1, <1>2, <1>3, ChunkPairs, PairedInOrder
<1> QED BY <1>3, <1>5, <1>6, <1>7 DEF AlignedChunks, HasLines

LEMMA SideGrowsAligned ==
    ASSUME NEW c \in AlignedChunks, NEW text \in Lines
    PROVE  /\ PushAddedLine(c, text) \in AlignedChunks
           /\ HasLines(PushAddedLine(c, text))
           /\ PushRemovedLine(c, text) \in AlignedChunks
           /\ HasLines(PushRemovedLine(c, text))
<1>1. c \in RawChunks /\ ContextPairsInOrder(c)
  BY DEF AlignedChunks
<1>2. c.old_lines \in Seq(Lines) /\ c.new_lines \in Seq(Lines)
  BY <1>1 DEF RawChunks
<1>3. /\ Append(c.old_lines, text) \in Seq(Lines) /\ Append(c.old_lines, text) # <<>>
      /\ Append(c.new_lines, text) \in Seq(Lines) /\ Append(c.new_lines, text) # <<>>
  BY <1>2
<1>4. PushAddedLine(c, text) \in AlignedChunks /\ HasLines(PushAddedLine(c, text))
  <2> DEFINE d == PushAddedLine(c, text)
  <2>1. /\ d.old_lines = c.old_lines /\ d.new_lines = Append(c.new_lines, text)
        /\ d.context_line_indices = c.context_line_indices
    BY <1>1 DEF PushAddedLine, RawChunks
  <2>2. d \in RawChunks
    BY <1>1, <1>3 DEF PushAddedLine, RawChunks
  <2>3. ContextPairsInOrder(d)
    <3>1. PairsInOrder(c.old_lines, c.new_lines, c.context_line_indices)
      BY <1>1, ChunkPairs
    <3>2. /\ Prolongs(c.old_lines, c.old_lines)
          /\ Prolongs(Append(c.new_lines, text), c.new_lines)
      BY <1>2, AppendProlongs
    <3>3. PairsInOrder(c.old_lines, Append(c.new_lines, text), c.context_line_indices)
      BY <1>2, <1>3, <3>1, <3>2, ProlongedInOrder
    <3> QED BY <2>1, <3>3, ChunkPairs
  <2> QED BY <1>3, <2>1, <2>2, <2>3 DEF AlignedChunks, HasLines
<1>5. PushRemovedLine(c, text) \in AlignedChunks /\ HasLines(PushRemovedLine(c, text))
  <2> DEFINE d == PushRemovedLine(c, text)
  <2>1. /\ d.new_lines = c.new_lines /\ d.old_lines = Append(c.old_lines, text)
        /\ d.context_line_indices = c.context_line_indices
    BY <1>1 DEF PushRemovedLine, RawChunks
  <2>2. d \in RawChunks
    BY <1>1, <1>3 DEF PushRemovedLine, RawChunks
  <2>3. ContextPairsInOrder(d)
    <3>1. PairsInOrder(c.old_lines, c.new_lines, c.context_line_indices)
      BY <1>1, ChunkPairs
    <3>2. /\ Prolongs(Append(c.old_lines, text), c.old_lines)
          /\ Prolongs(c.new_lines, c.new_lines)
      BY <1>2, AppendProlongs
    <3>3. PairsInOrder(Append(c.old_lines, text), c.new_lines, c.context_line_indices)
      BY <1>2, <1>3, <3>1, <3>2, ProlongedInOrder
    <3> QED BY <2>1, <3>3, ChunkPairs
  <2> QED BY <1>3, <2>1, <2>2, <2>3 DEF AlignedChunks, HasLines
<1> QED BY <1>4, <1>5

LEMMA ContentTextIsLine ==
    ASSUME NEW l \in InputLines PROVE ContentText(l) \in Lines
BY InputAssumption DEF ContentText, Signs

LEMMA LinePushed ==
    ASSUME NEW c \in AlignedChunks, NEW l \in InputLines
    PROVE  PushLine(c, l) \in AlignedChunks /\ HasLines(PushLine(c, l))
<1>1. CASE Sign(l) = " "
  <2>1. PushLine(c, l) = PushContextLine(c, ContentText(l))
    BY <1>1 DEF PushLine
  <2> QED BY <2>1, ContentTextIsLine, ContextLineAligned
<1>2. CASE Sign(l) = "+"
  <2>1. PushLine(c, l) = PushAddedLine(c, ContentText(l))
    BY <1>2 DEF PushLine
  <2> QED BY <2>1, ContentTextIsLine, SideGrowsAligned
<1>3. CASE Sign(l) = "-"
  <2>1. PushLine(c, l) = PushRemovedLine(c, ContentText(l))
    BY <1>3 DEF PushLine
  <2> QED BY <2>1, ContentTextIsLine, SideGrowsAligned
<1> QED BY <1>1, <1>2, <1>3 DEF Sign

-----------------------------------------------------------------------------
LEMMA HunkKinds ==
    ASSUME NEW h \in ParsedHunks
    PROVE  /\ h.verb \in {"add", "delete", "update"}
           /\ h.path \in Names
           /\ h.verb = "add" => h \in Adds
           /\ h.verb = "update" =>
                 /\ h \in Updates
                 /\ \A m \in 1..(Len(h.chunks) - 1) : HasLines(h.chunks[m])
BY DEF ParsedHunks, Adds, Deletes, Updates

(* The end-of-file marker and everything before the last section stay.       *)
Continues(h, g) ==
    /\ h.verb = g.verb /\ h.path = g.path
    /\ h.verb = "update" =>
          /\ DOMAIN g.chunks \subseteq DOMAIN h.chunks
          /\ \A m \in DOMAIN g.chunks :
                g.chunks[m].is_end_of_file => h.chunks[m] = g.chunks[m]

(* The last section of an update is replaced by another one. *)
LEMMA LastChunkReplaced ==
    ASSUME NEW h \in ParsedHunks, h.verb = "update", h.chunks # <<>>,
           NEW c \in AlignedChunks
    PROVE  LET g == [h EXCEPT !.chunks[Len(h.chunks)] = c]
           IN  /\ g \in ParsedHunks
               /\ ~h.chunks[Len(h.chunks)].is_end_of_file => Continues(g, h)
<1> DEFINE n == Len(h.chunks)
           g == [h EXCEPT !.chunks[n] = c]
           chunks == [h.chunks EXCEPT ![n] = c]
<1>1. /\ h \in Updates /\ h.chunks \in Seq(AlignedChunks)
      /\ \A m \in 1..(n - 1) : HasLines(h.chunks[m])
  BY HunkKinds DEF Updates
<1>2. n \in Nat /\ n >= 1 /\ DOMAIN h.chunks = 1..n
  BY <1>1
<1>3. /\ chunks \in Seq(AlignedChunks) /\ Len(chunks) = n
      /\ DOMAIN chunks = 1..n
      /\ \A m \in 1..n : chunks[m] = IF m = n THEN c ELSE h.chunks[m]
  BY <1>1, <1>2
<1>4. g = [h EXCEPT !.chunks = chunks]
  BY <1>1 DEF Updates
<1> HIDE DEF chunks, n, g
<1>5. g \in Updates /\ g.chunks = chunks /\ g.verb = h.verb /\ g.path = h.path
  BY <1>1, <1>3, <1>4 DEF Updates
<1>6. \A m \in 1..(n - 1) : HasLines(chunks[m])
  BY <1>1, <1>2, <1>3
<1>7. g \in ParsedHunks
  BY <1>3, <1>5, <1>6 DEF ParsedHunks
<1>8. ~h.chunks[n].is_end_of_file => Continues(g, h)
  BY <1>2, <1>3, <1>5 DEF Continues
<1> QED BY <1>7, <1>8 DEF g, n

(* A section is added behind sections that have lines. *)
LEMMA ChunkAppended ==
    ASSUME NEW h \in ParsedHunks, h.verb = "update",
           h.chunks # <<>> => HasLines(h.chunks[Len(h.chunks)]),
           NEW c \in AlignedChunks
    PROVE  LET g == [h EXCEPT !.chunks = Append(@, c)]
           IN  g \in ParsedHunks /\ Continues(g, h)
<1> DEFINE n == Len(h.chunks)
           chunks == Append(h.chunks, c)
           g == [h EXCEPT !.chunks = chunks]
<1>1. /\ h \in Updates /\ h.chunks \in Seq(AlignedChunks)
      /\ \A m \in 1..(n - 1) : HasLines(h.chunks[m])
  BY HunkKinds DEF Updates
<1>2. n \in Nat /\ DOMAIN h.chunks = 1..n /\ (n >= 1 => h.chunks # <<>>)
  BY <1>1
<1>3. /\ chunks \in Seq(AlignedChunks) /\ Len(chunks) = n + 1
      /\ DOMAIN chunks = 1..(n + 1)
      /\ \A m \in 1..n : chunks[m] = h.chunks[m]
  BY <1>1, <1>2
<1> HIDE DEF chunks, n
<1>5. g \in Updates /\ g.chunks = chunks /\ g.verb = h.verb /\ g.path = h.path
  BY <1>1, <1>3 DEF Updates
<1>6. \A m \in 1..n : HasLines(chunks[m])
  <2> SUFFICES ASSUME NEW m \in 1..n PROVE HasLines(h.chunks[m])
    BY <1>3
  <2>1. CASE m = n
    BY <1>2, <2>1 DEF n
  <2>2. CASE m # n
    <3>1. m \in 1..(n - 1)
      BY <1>2, <2>2
    <3> QED BY <1>1, <3>1
  <2> QED BY <2>1, <2>2
<1>7. g \in ParsedHunks
  <2>1. Len(g.chunks) - 1 = n
    BY <1>2, <1>3, <1>5
  <2> QED BY <1>5, <1>6, <2>1 DEF ParsedHunks
<1>8. Continues(g, h)
  BY <1>2, <1>3, <1>5 DEF Continues
<1> QED BY <1>7, <1>8 DEF chunks

-----------------------------------------------------------------------------
LEMMA LastHunkParsed ==
    ASSUME ParserInv, hunks # <<>>
    PROVE  /\ LastHunk \in ParsedHunks
           /\ Len(hunks) \in Nat /\ Len(hunks) >= 1
           /\ DOMAIN hunks = 1..Len(hunks)
BY DEF ParserInv, LastHunk

(* A line of the hunk that is being read. *)
LastHunkContinued ==
    /\ mode \in {"AddFile", "UpdateFile"}
    /\ UNCHANGED <<mode, environment_id>>
    /\ \E g \in ParsedHunks : Continues(g, LastHunk) /\ hunks' = WithLastHunk(g)

LEMMA ContinuedInv == ASSUME ParserInv, LastHunkContinued PROVE ParserInv'
<1>1. PICK g \in ParsedHunks : Continues(g, LastHunk) /\ hunks' = WithLastHunk(g)
  BY DEF LastHunkContinued
<1>2. mode \in {"AddFile", "UpdateFile"} /\ UNCHANGED <<mode, environment_id>>
  BY DEF LastHunkContinued
<1>3. hunks # <<>>
  BY <1>2 DEF ParserInv, ModeTellsHunk
<1>4. /\ hunks' \in Seq(ParsedHunks) /\ Len(hunks') = Len(hunks)
      /\ hunks'[Len(hunks)] = g /\ hunks' # <<>>
      /\ \A k \in 1..(Len(hunks) - 1) : hunks'[k] = hunks[k]
  BY <1>1, <1>3, LastHunkParsed DEF WithLastHunk, ParserInv
<1>5. LastHunk' = g /\ g.verb = LastHunk.verb
  BY <1>1, <1>4 DEF LastHunk, Continues
<1> QED BY <1>2, <1>3, <1>4, <1>5 DEF ParserInv, ModeTellsHunk, OthersAreComplete, Modes

LEMMA LineAdded ==
    ASSUME ParserInv, NEW l \in InputLines, AddLine(l)
    PROVE  LastHunkContinued
<1> DEFINE g == [LastHunk EXCEPT !.contents = Append(@, l.arg)]
<1>1. mode = "AddFile" /\ LastHunk \in Adds /\ l.arg \in Lines
  BY HunkKinds, LastHunkParsed, InputAssumption
  DEF AddLine, IsAddedLine, ParserInv, ModeTellsHunk, Signs
<1>2. g \in Adds /\ g.verb = LastHunk.verb /\ g.path = LastHunk.path /\ g.verb # "update"
  BY <1>1 DEF Adds
<1>3. g \in ParsedHunks /\ Continues(g, LastHunk)
  BY <1>2 DEF ParsedHunks, Continues
<1> QED BY <1>1, <1>3 DEF AddLine, LastHunkContinued

LEMMA UpdateUnderWay ==
    ASSUME ParserInv, mode = "UpdateFile"
    PROVE  /\ LastHunk \in ParsedHunks /\ LastHunk \in Updates
           /\ LastHunk.verb = "update"
           /\ LastHunk.chunks \in Seq(AlignedChunks)
           /\ LastHunk.chunks # <<>> => LastChunk \in AlignedChunks
<1>1. LastHunk \in ParsedHunks /\ LastHunk.verb = "update"
  BY LastHunkParsed DEF ParserInv, ModeTellsHunk
<1>2. LastHunk \in Updates
  BY <1>1, HunkKinds
<1>3. LastHunk.chunks \in Seq(AlignedChunks)
  BY <1>2 DEF Updates
<1>4. LastHunk.chunks # <<>> => LastHunk.chunks[Len(LastHunk.chunks)] \in AlignedChunks
  BY <1>3
<1> QED BY <1>1, <1>2, <1>3, <1>4 DEF LastChunk, Chunks

LEMMA DestinationNamed ==
    ASSUME ParserInv, NEW l \in InputLines, NameDestination(l)
    PROVE  LastHunkContinued
<1> DEFINE g == [LastHunk EXCEPT !.move_path = l.arg]
<1>1. mode = "UpdateFile" /\ l.arg \in Names
  BY InputAssumption DEF NameDestination, NamesDestination
<1>2. LastHunk \in ParsedHunks /\ LastHunk \in Updates
  BY <1>1, UpdateUnderWay
<1>3. /\ g \in Updates /\ g.verb = LastHunk.verb /\ g.path = LastHunk.path
      /\ g.chunks = LastHunk.chunks /\ LastHunk.verb = "update"
  BY <1>1, <1>2 DEF Updates
<1>4. \A m \in 1..(Len(LastHunk.chunks) - 1) : HasLines(LastHunk.chunks[m])
  BY <1>2, <1>3, HunkKinds
<1>5. g \in ParsedHunks /\ Continues(g, LastHunk)
  BY <1>3, <1>4 DEF ParsedHunks, Continues
<1> QED BY <1>1, <1>5 DEF NameDestination, LastHunkContinued

LEMMA ChunkStarted ==
    ASSUME ParserInv, NEW l \in InputLines, StartChunk(l)
    PROVE  LastHunkContinued
<1>1. /\ mode = "UpdateFile" /\ l.arg \in Lines \cup {None}
      /\ Chunks # <<>> => HasLines(LastChunk)
      /\ hunks' = WithNewChunk(NewChunk(l.arg))
      /\ UNCHANGED <<mode, environment_id>>
  BY InputAssumption DEF StartChunk, StartsChunk
<1>2. NewChunk(l.arg) \in AlignedChunks
  BY <1>1, NewChunkAligned
<1> QED BY <1>1, <1>2, UpdateUnderWay, ChunkAppended
        DEF Chunks, LastChunk, WithNewChunk, LastHunkContinued

LEMMA FileEnded ==
    ASSUME ParserInv, NEW l \in InputLines, EndFile(l)
    PROVE  LastHunkContinued \/ UNCHANGED <<mode, hunks, environment_id>>
<1>1. CASE Chunks = <<>>
  BY <1>1 DEF EndFile
<1>2. CASE Chunks # <<>>
  <2> DEFINE c == [LastChunk EXCEPT !.is_end_of_file = TRUE]
  <2>1. /\ mode = "UpdateFile" /\ ~LastChunk.is_end_of_file
        /\ hunks' = WithLastChunk(c) /\ UNCHANGED <<mode, environment_id>>
    BY <1>2 DEF EndFile, EndsFile, AtEndOfFile
  <2>2. LastChunk \in AlignedChunks
    BY <1>2, <2>1, UpdateUnderWay DEF Chunks
  <2>3. c \in AlignedChunks
    BY <2>2 DEF AlignedChunks, RawChunks, ContextPairsInOrder
  <2> HIDE DEF c
  <2> QED BY <1>2, <2>1, <2>3, UpdateUnderWay, LastChunkReplaced
          DEF Chunks, LastChunk, WithLastChunk, LastHunkContinued
<1> QED BY <1>1, <1>2

LEMMA ChunkContinued ==
    ASSUME ParserInv, NEW l \in InputLines, ChunkLine(l)
    PROVE  LastHunkContinued
<1>1. /\ mode = "UpdateFile" /\ ~AtEndOfFile /\ UNCHANGED <<mode, environment_id>>
  BY DEF ChunkLine, IsChunkLine
<1>2. CASE Chunks = <<>>
  <2>1. hunks' = WithNewChunk(PushLine(NewChunk(None), l))
    BY <1>2 DEF ChunkLine
  <2>2. PushLine(NewChunk(None), l) \in AlignedChunks
    BY NewChunkAligned, LinePushed
  <2> QED BY <1>1, <1>2, <2>1, <2>2, UpdateUnderWay, ChunkAppended
          DEF Chunks, WithNewChunk, LastHunkContinued
<1>3. CASE Chunks # <<>>
  <2>1. hunks' = WithLastChunk(PushLine(LastChunk, l)) /\ ~LastChunk.is_end_of_file
    BY <1>1, <1>3 DEF ChunkLine, AtEndOfFile
  <2>2. PushLine(LastChunk, l) \in AlignedChunks
    BY <1>1, <1>3, UpdateUnderWay, LinePushed DEF Chunks
  <2> QED BY <1>1, <1>3, <2>1, <2>2, UpdateUnderWay, LastChunkReplaced
          DEF Chunks, LastChunk, WithLastChunk, LastHunkContinued
<1> QED BY <1>2, <1>3

-----------------------------------------------------------------------------
(* Looking at its last section is enough to see that an update is whole.     *)
LEMMA LastHunkComplete ==
    ASSUME ParserInv, UpdateIsWhole, hunks # <<>>
    PROVE  Complete(LastHunk)
<1>1. CASE LastHunk.verb = "update" /\ mode = "UpdateFile"
  BY <1>1 DEF UpdateIsWhole, Complete, Chunks, LastChunk
<1>2. CASE LastHunk.verb = "update" /\ mode # "UpdateFile"
  <2>1. mode = "EndedPatch"
    BY <1>2 DEF ParserInv, ModeTellsHunk, Modes
  <2> QED BY <2>1 DEF ParserInv, OthersAreComplete
<1>3. CASE LastHunk.verb # "update"
  BY <1>3 DEF Complete
<1> QED BY <1>1, <1>2, <1>3

HunkStarted ==
    /\ mode # "EndedPatch"
    /\ environment_id' = environment_id
    /\ \E h \in ParsedHunks : hunks' = Append(hunks, h)

LEMMA NewHunkParsed ==
    ASSUME NEW l \in InputLines, l.form \in {"add", "delete", "update"}
    PROVE  NewHunk(l) \in ParsedHunks /\ NewHunk(l).verb = l.form
<1>1. l.arg \in Names
  BY InputAssumption
<1>2. CASE l.form = "add"
  <2>1. NewHunk(l) = [verb |-> "add", path |-> l.arg, contents |-> <<>>]
    BY <1>2 DEF NewHunk
  <2> QED BY <1>1, <1>2, <2>1 DEF ParsedHunks, Adds
<1>3. CASE l.form = "delete"
  <2>1. NewHunk(l) = [verb |-> "delete", path |-> l.arg]
    BY <1>3 DEF NewHunk
  <2> QED BY <1>1, <1>3, <2>1 DEF ParsedHunks, Deletes
<1>4. CASE l.form = "update"
  <2>1. NewHunk(l) = [verb |-> "update", path |-> l.arg, move_path |-> None, chunks |-> <<>>]
    BY <1>4 DEF NewHunk
  <2> QED BY <1>1, <1>4, <2>1 DEF ParsedHunks, Updates
<1> QED BY <1>2, <1>3, <1>4

LEMMA StartedInv ==
    ASSUME ParserInv, NEW l \in InputLines, StartHunk(l)
    PROVE  HunkStarted /\ ParserInv'
<1> DEFINE h == NewHunk(l)
<1>1. /\ mode \in {"StartedPatch", "AddFile", "DeleteFile", "UpdateFile"}
      /\ l.form \in {"add", "delete", "update"} /\ UpdateIsWhole
      /\ hunks' = Append(hunks, h) /\ mode' = NewMode(l)
      /\ environment_id' = environment_id
  BY DEF StartHunk, StartsHunk, InPatch
<1>2. h \in ParsedHunks /\ h.verb = l.form
  BY <1>1, NewHunkParsed
<1>3. /\ l.form = "add" => mode' = "AddFile"
      /\ l.form = "delete" => mode' = "DeleteFile"
      /\ l.form = "update" => mode' = "UpdateFile"
  BY <1>1 DEF NewMode
<1> HIDE DEF h
<1>4. /\ hunks \in Seq(ParsedHunks) /\ Len(hunks) \in Nat
      /\ hunks' \in Seq(ParsedHunks) /\ hunks' # <<>>
      /\ Len(hunks') = Len(hunks) + 1 /\ hunks'[Len(hunks')] = h
      /\ \A k \in 1..Len(hunks) : hunks'[k] = hunks[k]
  BY <1>1, <1>2 DEF ParserInv
<1>5. LastHunk' = h
  BY <1>4 DEF LastHunk
<1>6. ASSUME NEW k \in 1..Len(hunks) PROVE Complete(hunks[k])
  <2>1. CASE k = Len(hunks)
    BY <1>1, <1>4, <2>1, LastHunkComplete DEF LastHunk
  <2>2. CASE k # Len(hunks)
    BY <1>4, <2>2 DEF ParserInv, OthersAreComplete
  <2> QED BY <2>1, <2>2
<1>7. OthersAreComplete'
  <2>1. \A k \in 1..(Len(hunks') - 1) : Complete(hunks'[k])
    BY <1>4, <1>6
  <2> QED BY <1>1, <1>3, <2>1 DEF OthersAreComplete
<1>8. ModeTellsHunk' /\ mode' \in Modes
  BY <1>1, <1>2, <1>3, <1>4, <1>5 DEF ModeTellsHunk, Modes
<1> QED BY <1>1, <1>2, <1>4, <1>7, <1>8 DEF HunkStarted, ParserInv

(* The patch ends, or finish takes an end marker. *)
LEMMA EndedInv ==
    ASSUME ParserInv, UpdateIsWhole, mode' = "EndedPatch", UNCHANGED <<hunks, environment_id>>
    PROVE  ParserInv'
<1>1. hunks # <<>> => Complete(LastHunk)
  BY LastHunkComplete
<1> QED BY <1>1 DEF ParserInv, ModeTellsHunk, OthersAreComplete, LastHunk, Modes

(* What a step does to the hunks, for the invariant and for what stays.      *)
LEMMA LineRead ==
    ASSUME ParserInv, NEW l \in InputLines, Accept(l)
    PROVE  /\ ParserInv'
           /\ HunkStarted \/ LastHunkContinued \/ UNCHANGED hunks
           /\ mode = "EndedPatch" => mode' = "EndedPatch"
           /\ environment_id # None \/ hunks # <<>> => UNCHANGED environment_id
<1>1. CASE BeginPatch(l)
  <2>1. mode = "NotStarted" /\ mode' = "StartedPatch" /\ UNCHANGED <<hunks, environment_id>>
    BY <1>1 DEF BeginPatch, BeginsPatch
  <2> QED BY <2>1 DEF ParserInv, ModeTellsHunk, OthersAreComplete, LastHunk, Modes
<1>2. CASE SetEnvironment(l)
  <2>1. /\ mode = "StartedPatch" /\ environment_id = None
        /\ environment_id' \in Names /\ UNCHANGED <<mode, hunks>>
    BY <1>2, InputAssumption DEF SetEnvironment, SetsEnvironment
  <2> QED BY <2>1 DEF ParserInv, ModeTellsHunk, OthersAreComplete, LastHunk, Modes
<1>3. CASE EndPatch(l)
  <2>1. UpdateIsWhole /\ mode' = "EndedPatch" /\ UNCHANGED <<hunks, environment_id>>
    BY <1>3 DEF EndPatch, EndsPatch
  <2> QED BY <2>1, EndedInv
<1>4. CASE StartHunk(l)
  BY <1>4, StartedInv DEF HunkStarted
<1>5. CASE AddLine(l) \/ NameDestination(l) \/ StartChunk(l) \/ ChunkLine(l)
  <2>1. LastHunkContinued
    BY <1>5, LineAdded, DestinationNamed, ChunkStarted, ChunkContinued
  <2> QED BY <2>1, ContinuedInv DEF LastHunkContinued
<1>6. CASE UNCHANGED <<mode, hunks, environment_id>>
  BY <1>6 DEF ParserInv, ModeTellsHunk, OthersAreComplete, LastHunk
<1>7. CASE EndFile(l)
  <2>1. LastHunkContinued \/ UNCHANGED <<mode, hunks, environment_id>>
    BY <1>7, FileEnded
  <2> QED BY <1>6, <2>1, ContinuedInv DEF LastHunkContinued
<1>8. CASE Ignore(l)
  BY <1>6, <1>8 DEF Ignore, state
<1> QED BY <1>1, <1>2, <1>3, <1>4, <1>5, <1>7, <1>8 DEF Accept

LEMMA ParserStep ==
    ASSUME IInv, [Next]_vars
    PROVE  /\ IInv'
           /\ HunkStarted \/ LastHunkContinued \/ UNCHANGED hunks
           /\ environment_id # None \/ hunks # <<>> => UNCHANGED environment_id
<1> USE DEF IInv
<1>1. CASE UNCHANGED state /\ (answer' = "done" => mode' = "EndedPatch")
  BY <1>1 DEF state, ParserInv, ModeTellsHunk, OthersAreComplete, LastHunk
<1>2. ASSUME NEW l \in InputLines, Accept(l), answer' = "done" => mode' = "EndedPatch"
      PROVE  /\ IInv'
             /\ HunkStarted \/ LastHunkContinued \/ UNCHANGED hunks
             /\ environment_id # None \/ hunks # <<>> => UNCHANGED environment_id
  BY <1>2, LineRead
<1>3. ASSUME NEW l \in InputLines, PushAccepted(l) PROVE answer' = "ok" /\ Accept(l)
  BY <1>3 DEF PushAccepted
<1>4. ASSUME NEW l \in InputLines, PushRejected(l) PROVE answer' = "error" /\ UNCHANGED state
  BY <1>4 DEF PushRejected, Reject
<1>5. ASSUME NEW l \in InputLines, FinishAtMarker(l)
      PROVE  /\ UNCHANGED <<hunks, environment_id>>
             /\ \/ UpdateIsWhole /\ mode' = "EndedPatch"
                \/ answer' = "incomplete" /\ UNCHANGED mode
  BY <1>5 DEF FinishAtMarker
<1>6. ASSUME NEW l \in InputLines, FinishAtLine(l)
      PROVE  \/ Accept(l) /\ (answer' = "done" => mode' = "EndedPatch")
             \/ UNCHANGED state /\ answer' = "incomplete"
  BY <1>6 DEF FinishAtLine, Done, Reject
<1>7. CASE FinishEmpty
  BY <1>1, <1>7 DEF FinishEmpty, Done
<1>8. CASE UNCHANGED vars
  BY <1>1, <1>8 DEF vars, state
<1>9. ASSUME NEW l \in InputLines, FinishAtMarker(l)
      PROVE  IInv' /\ UNCHANGED <<hunks, environment_id>>
  <2>1. CASE UpdateIsWhole /\ mode' = "EndedPatch"
    BY <1>5, <1>9, <2>1, EndedInv
  <2>2. CASE answer' = "incomplete" /\ UNCHANGED mode
    BY <1>1, <1>5, <1>9, <2>2 DEF state
  <2> QED BY <1>5, <1>9, <2>1, <2>2
<1> QED BY <1>1, <1>2, <1>3, <1>4, <1>6, <1>7, <1>8, <1>9 DEF Next

LEMMA ParserInitial == Init => IInv
BY DEF Init, IInv, ParserInv, ModeTellsHunk, OthersAreComplete, Modes

(* The invariant of the parser holds in every state. *)
THEOREM Invariance == Spec => []IInv
BY ParserInitial, ParserStep, PTL DEF Spec

-----------------------------------------------------------------------------
LEMMA AllParsed ==
    ASSUME ParserInv, NEW k \in DOMAIN hunks
    PROVE  /\ hunks[k] \in ParsedHunks
           /\ k \in 1..Len(hunks) /\ Len(hunks) \in Nat /\ hunks # <<>>
BY DEF ParserInv

(* The parser is type correct, and its mode says which hunk it is reading:   *)
(* the arms of process_line find the kind of hunk they expect.               *)
THEOREM TypeCorrect == Spec => []TypeOK
<1>1. IInv => TypeOK
  <2> SUFFICES ASSUME ParserInv PROVE TypeOK
    BY DEF IInv
  <2>1. ASSUME NEW k \in DOMAIN hunks
        PROVE  /\ hunks[k].verb \in {"add", "delete", "update"}
               /\ hunks[k].path \in Names
               /\ hunks[k].verb = "add" => hunks[k].contents \in Seq(Lines)
               /\ hunks[k].verb = "update" => hunks[k].move_path \in Names \cup {None}
    BY AllParsed, HunkKinds DEF Adds, Updates
  <2> QED BY <2>1 DEF ParserInv, ModeTellsHunk, Modes, LastHunk, Last, TypeOK
<1> QED BY <1>1, Invariance, PTL

LEMMA CompleteUpdate ==
    ASSUME NEW h \in ParsedHunks, h.verb = "update"
    PROVE  /\ EmptySections(h) \subseteq {Len(h.chunks)}
           /\ Complete(h) => h.chunks # <<>> /\ EmptySections(h) = {}
<1>1. /\ h.chunks \in Seq(AlignedChunks)
      /\ \A m \in 1..(Len(h.chunks) - 1) : HasLines(h.chunks[m])
  BY HunkKinds DEF Updates
<1>2. DOMAIN h.chunks = 1..Len(h.chunks) /\ Len(h.chunks) \in Nat
  BY <1>1
<1>3. ASSUME NEW m \in DOMAIN h.chunks, ~HasLines(h.chunks[m]) PROVE m = Len(h.chunks)
  BY <1>1, <1>2, <1>3
<1> QED BY <1>3 DEF EmptySections, Complete

(* An update that is finished has a section, and no section without lines,   *)
(* though ensure_update_hunk_is_not_empty looks at the last one only.        *)
THEOREM UpdatesAreWhole == Spec => []FinishedUpdatesAreWhole
<1>1. IInv => FinishedUpdatesAreWhole
  <2> SUFFICES ASSUME IInv, NEW k \in DOMAIN hunks, hunks[k].verb = "update"
               PROVE  IF k < Len(hunks) \/ mode = "EndedPatch" \/ answer = "done"
                      THEN hunks[k].chunks # <<>> /\ EmptySections(hunks[k]) = {}
                      ELSE EmptySections(hunks[k]) \subseteq {Len(hunks[k].chunks)}
    BY DEF FinishedUpdatesAreWhole
  <2>1. /\ hunks[k] \in ParsedHunks
        /\ k \in 1..Len(hunks) /\ Len(hunks) \in Nat /\ hunks # <<>>
    BY AllParsed DEF IInv
  <2>2. ASSUME k < Len(hunks) PROVE Complete(hunks[k])
    BY <2>1, <2>2 DEF IInv, ParserInv, OthersAreComplete
  <2>3. ASSUME k = Len(hunks), mode = "EndedPatch" \/ answer = "done" PROVE Complete(hunks[k])
    BY <2>1, <2>3 DEF IInv, ParserInv, OthersAreComplete, LastHunk
  <2>4. k < Len(hunks) \/ k = Len(hunks)
    BY <2>1
  <2> QED BY <2>1, <2>2, <2>3, <2>4, CompleteUpdate
<1> QED BY <1>1, Invariance, PTL

(* The context pairs of every section advance on both sides and name equal   *)
(* lines, however its lines alternate: what compute_replacements relies on.  *)
THEOREM Aligned == Spec => []SectionsAreAligned
<1>1. IInv => SectionsAreAligned
  <2> SUFFICES ASSUME IInv, NEW k \in DOMAIN hunks, hunks[k].verb = "update",
                      NEW m \in DOMAIN hunks[k].chunks
               PROVE  ContextPairsInOrder(hunks[k].chunks[m])
    BY DEF SectionsAreAligned
  <2>1. hunks[k].chunks \in Seq(AlignedChunks)
    BY AllParsed, HunkKinds DEF IInv, Updates
  <2>2. hunks[k].chunks[m] \in AlignedChunks
    BY <2>1
  <2> QED BY <2>2 DEF AlignedChunks
<1> QED BY <1>1, Invariance, PTL

(* What a step leaves of the hunks that were there before it. *)
LEMMA HunksBefore ==
    ASSUME IInv, [Next]_vars, NEW k \in DOMAIN hunks
    PROVE  /\ Len(hunks') \in {Len(hunks), Len(hunks) + 1}
           /\ k \in DOMAIN hunks'
           /\ \/ hunks'[k] = hunks[k]
              \/ k = Len(hunks) /\ Len(hunks') = k /\ Continues(hunks'[k], hunks[k])
<1>1. /\ hunks \in Seq(ParsedHunks) /\ Len(hunks) \in Nat /\ hunks # <<>>
      /\ DOMAIN hunks = 1..Len(hunks) /\ Len(hunks) >= 1
  BY DEF IInv, ParserInv
<1>2. CASE HunkStarted
  <2>1. PICK h \in ParsedHunks : hunks' = Append(hunks, h)
    BY <1>2 DEF HunkStarted
  <2> QED BY <1>1, <2>1
<1>3. CASE LastHunkContinued
  <2>1. PICK g \in ParsedHunks : Continues(g, LastHunk) /\ hunks' = WithLastHunk(g)
    BY <1>3 DEF LastHunkContinued
  <2>2. /\ Len(hunks') = Len(hunks) /\ hunks'[Len(hunks)] = g
        /\ DOMAIN hunks' = DOMAIN hunks
        /\ k # Len(hunks) => hunks'[k] = hunks[k]
    BY <1>1, <2>1 DEF WithLastHunk
  <2> QED BY <2>1, <2>2 DEF LastHunk
<1>4. CASE UNCHANGED hunks
  BY <1>1, <1>4
<1> QED BY <1>2, <1>3, <1>4, ParserStep

(* A hunk that push_delta has shown is never taken back or changed, except   *)
(* that the last one grows; after finish has returned a patch nothing does.  *)
THEOREM ShownStay == Spec => ShownHunksStay
<1>1. ASSUME IInv, [Next]_vars
      PROVE  /\ Len(hunks') \in {Len(hunks), Len(hunks) + 1}
             /\ answer = "done" => UNCHANGED hunks
             /\ \A k \in DOMAIN hunks :
                   \/ hunks'[k] = hunks[k]
                   \/ k = Len(hunks) /\ Len(hunks') = k /\ hunks'[k].path = hunks[k].path
  <2>1. HunkStarted \/ LastHunkContinued \/ UNCHANGED hunks
    BY <1>1, ParserStep
  <2>2. answer = "done" => UNCHANGED hunks
    BY <1>1, <2>1 DEF IInv, HunkStarted, LastHunkContinued
  <2>3. Len(hunks') \in {Len(hunks), Len(hunks) + 1}
    <3>1. CASE hunks # <<>>
      <4>1. 1 \in DOMAIN hunks
        BY <1>1, <3>1 DEF IInv, ParserInv
      <4> QED BY <1>1, <4>1, HunksBefore
    <3>2. CASE hunks = <<>>
      <4>1. mode \notin {"AddFile", "UpdateFile"}
        BY <1>1, <3>2 DEF IInv, ParserInv, ModeTellsHunk
      <4> QED BY <2>1, <3>2, <4>1 DEF HunkStarted, LastHunkContinued
    <3> QED BY <3>1, <3>2
  <2> QED BY <1>1, <2>2, <2>3, HunksBefore DEF Continues
<1> QED BY <1>1, Invariance, PTL DEF Spec, ShownHunksStay

(* Once a section has its end-of-file marker nothing is added to it.         *)
THEOREM ClosedSections == Spec => EndOfFileClosesSection
<1>1. ASSUME IInv, [Next]_vars
      PROVE  \A k \in DOMAIN hunks : hunks[k].verb = "update" =>
                \A m \in DOMAIN hunks[k].chunks :
                    hunks[k].chunks[m].is_end_of_file
                        => hunks'[k].chunks[m] = hunks[k].chunks[m]
  BY <1>1, HunksBefore DEF Continues
<1> QED BY <1>1, Invariance, PTL DEF Spec, EndOfFileClosesSection

(* The environment id is given at most once, and before the first hunk.      *)
THEOREM EnvironmentStays == Spec => EnvironmentIsFixed
<1>1. ASSUME IInv, [Next]_vars
      PROVE  environment_id # None \/ hunks # <<>> => UNCHANGED environment_id
  BY <1>1, ParserStep
<1> QED BY <1>1, Invariance, PTL DEF Spec, EnvironmentIsFixed

-----------------------------------------------------------------------------
(***************************************************************************)
(* FlattenSeq concatenates: it is what any function that concatenates      *)
(* piece by piece ends with.                                               *)
(***************************************************************************)
LEMMA FlattenIs ==
    ASSUME NEW S, NEW pieces \in Seq(Seq(S)), NEW f, Concatenates(f, pieces, S)
    PROVE  FlattenSeq(pieces) = f[Len(pieces)]
<1> DEFINE N == Len(pieces)
           IsFlatten(g) == g = [k \in 1..N |-> IF k = 1 THEN pieces[k] ELSE g[k - 1] \o pieces[k]]
           flatten == CHOOSE g : IsFlatten(g)
<1>1. N \in Nat /\ \A n \in 1..N : pieces[n] \in Seq(S)
  OBVIOUS
<1>2. CASE N = 0
  BY <1>2 DEF FlattenSeq, Concatenates
<1>3. CASE N # 0
  <2>1. FlattenSeq(pieces) = flatten[N]
    BY <1>3 DEF FlattenSeq
  <2>2. IsFlatten([k \in 1..N |-> f[k]])
    <3> DEFINE g == [k \in 1..N |-> f[k]]
    <3>1. ASSUME NEW k \in 1..N PROVE g[k] = IF k = 1 THEN pieces[k] ELSE g[k - 1] \o pieces[k]
      <4>1. f[k] = f[k - 1] \o pieces[k]
        BY DEF Concatenates
      <4>2. CASE k = 1
        <5>1. f[k - 1] = <<>>
          BY <4>2 DEF Concatenates
        <5> QED BY <1>1, <4>1, <4>2, <5>1
      <4>3. CASE k # 1
        <5>1. k - 1 \in 1..N
          BY <1>1, <4>3
        <5> QED BY <4>1, <4>3, <5>1
      <4> QED BY <4>2, <4>3
    <3> QED BY <3>1
  <2>3. IsFlatten(flatten)
    <3> HIDE DEF IsFlatten
    <3> QED BY <2>2
  <2> HIDE DEF flatten
  <2> DEFINE S2 == {n \in Nat : n \in 1..N => flatten[n] = f[n]}
  <2>4. 0 \in S2
    OBVIOUS
  <2>5. ASSUME NEW n \in S2 PROVE n + 1 \in S2
    <3> SUFFICES ASSUME n + 1 \in 1..N PROVE flatten[n + 1] = f[n + 1]
      OBVIOUS
    <3>1. f[n + 1] = f[n] \o pieces[n + 1]
      <4>1. n \in Nat /\ (n + 1) - 1 = n
        OBVIOUS
      <4> QED BY <4>1 DEF Concatenates
    <3>2. flatten[n + 1] = IF n + 1 = 1 THEN pieces[n + 1] ELSE flatten[(n + 1) - 1] \o pieces[n + 1]
      BY <2>3
    <3>3. CASE n = 0
      <4>1. f[0] = <<>>
        BY DEF Concatenates
      <4> QED BY <1>1, <3>1, <3>2, <3>3, <4>1
    <3>4. CASE n # 0
      <4>1. n \in 1..N /\ (n + 1) - 1 = n /\ n + 1 # 1
        BY <1>1, <3>4
      <4> QED BY <3>1, <3>2, <4>1
    <3> QED BY <3>3, <3>4
  <2>6. S2 = Nat
    <3>1. S2 \in SUBSET Nat
      OBVIOUS
    <3> HIDE DEF S2
    <3> QED BY <2>4, <2>5, <3>1, SetInduction
  <2>7. N \in S2 /\ N \in 1..N
    BY <1>1, <1>3, <2>6
  <2> QED BY <2>1, <2>7
<1> QED BY <1>2, <1>3

(* Concatenating one more piece. *)
LEMMA FlattenAppend ==
    ASSUME NEW S, NEW pieces \in Seq(Seq(S)), NEW piece \in Seq(S)
    PROVE  /\ FlattenSeq(Append(pieces, piece)) = FlattenSeq(pieces) \o piece
           /\ FlattenSeq(pieces) \in Seq(S)
<1> DEFINE N == Len(pieces)
           more == Append(pieces, piece)
<1>1. PICK f : Concatenates(f, pieces, S)
  BY ConcatenationExists
<1> DEFINE g == [n \in 0..(N + 1) |-> IF n = N + 1 THEN f[N] \o piece ELSE f[n]]
<1>2. /\ N \in Nat /\ more \in Seq(Seq(S)) /\ Len(more) = N + 1
      /\ more[N + 1] = piece /\ \A n \in 1..N : more[n] = pieces[n]
  OBVIOUS
<1>3. f \in [0..N -> Seq(S)] /\ f[N] \in Seq(S)
  BY <1>1, <1>2 DEF Concatenates
<1>4. g \in [0..(N + 1) -> Seq(S)] /\ g[0] = <<>>
  <2>1. \A n \in 0..(N + 1) : n # N + 1 => n \in 0..N
    BY <1>2
  <2>2. f[N] \o piece \in Seq(S)
    BY <1>3
  <2> QED BY <1>1, <1>2, <1>3, <2>1, <2>2 DEF Concatenates
<1>5. ASSUME NEW n \in 1..(N + 1) PROVE g[n] = g[n - 1] \o more[n]
  <2>1. n - 1 \in 0..(N + 1) /\ n - 1 # N + 1 /\ n \in 0..(N + 1)
    BY <1>2
  <2>2. CASE n = N + 1
    <3>1. n - 1 = N /\ g[n - 1] = f[n - 1] /\ g[n] = f[N] \o piece /\ more[n] = piece
      BY <1>2, <2>1, <2>2
    <3> HIDE DEF g, more
    <3> QED BY <3>1
  <2>3. CASE n # N + 1
    <3>1. n \in 1..N
      BY <1>2, <2>3
    <3> QED BY <1>1, <1>2, <2>1, <2>3, <3>1 DEF Concatenates
  <2> QED BY <2>2, <2>3
<1>6. Concatenates(g, more, S)
  BY <1>2, <1>4, <1>5 DEF Concatenates
<1>7. FlattenSeq(more) = g[N + 1] /\ FlattenSeq(pieces) = f[N]
  <2> HIDE DEF g, more
  <2> QED BY <1>1, <1>2, <1>6, FlattenIs
<1> QED BY <1>2, <1>3, <1>7

LEMMA FlattenNothing == FlattenSeq(<<>>) = <<>>
BY DEF FlattenSeq

LEMMA SameElements ==
    ASSUME NEW S, NEW s \in Seq(S), NEW t \in Seq(S), Len(s) = Len(t),
           \A n \in 1..Len(s) : s[n] = t[n]
    PROVE  s = t
OBVIOUS

LEMMA AppendElements ==
    ASSUME NEW S, NEW s \in Seq(S), NEW x \in S
    PROVE  /\ Append(s, x) \in Seq(S) /\ Len(Append(s, x)) = Len(s) + 1
           /\ \A n \in 1..(Len(s) + 1) : Append(s, x)[n] = IF n = Len(s) + 1 THEN x ELSE s[n]
OBVIOUS

(* Prolonging the last piece. *)
LEMMA FlattenLast ==
    ASSUME NEW S, NEW pieces \in Seq(Seq(S)), pieces # <<>>, NEW more \in Seq(S)
    PROVE  FlattenSeq([pieces EXCEPT ![Len(pieces)] = pieces[Len(pieces)] \o more])
             = FlattenSeq(pieces) \o more
<1> DEFINE N == Len(pieces)
           front == [n \in 1..(N - 1) |-> pieces[n]]
           final == pieces[N]
           longer == [pieces EXCEPT ![N] = final \o more]
<1>1. N \in Nat /\ N # 0 /\ final \in Seq(S) /\ final \o more \in Seq(S)
  OBVIOUS
<1>2. front \in Seq(Seq(S)) /\ Len(front) = N - 1 /\ \A n \in 1..(N - 1) : front[n] = pieces[n]
  BY <1>1
<1>3. pieces = Append(front, final)
  <2>1. (N - 1) + 1 = N
    BY <1>1
  <2>2. /\ Append(front, final) \in Seq(Seq(S)) /\ Len(Append(front, final)) = N
        /\ \A n \in 1..N : Append(front, final)[n] = IF n = N THEN final ELSE front[n]
    <3> HIDE DEF front, final
    <3> QED BY <1>1, <1>2, <2>1, AppendElements
  <2>3. \A n \in 1..N : n # N => n \in 1..(N - 1)
    BY <1>1
  <2>4. \A n \in 1..N : pieces[n] = Append(front, final)[n]
    BY <1>2, <2>2, <2>3
  <2> HIDE DEF front, final
  <2> QED BY <2>2, <2>4, SameElements
<1>4. longer = Append(front, final \o more)
  <2>1. longer \in Seq(Seq(S)) /\ Len(longer) = N
    BY <1>1
  <2>2. \A n \in 1..N : longer[n] = IF n = N THEN final \o more ELSE pieces[n]
    BY <1>1
  <2> HIDE DEF longer, front, final
  <2>3. /\ Append(front, final \o more) \in Seq(Seq(S)) /\ Len(Append(front, final \o more)) = N
        /\ \A n \in 1..N : Append(front, final \o more)[n] = IF n = N THEN final \o more ELSE pieces[n]
    <3>1. (N - 1) + 1 = N
      BY <1>1
    <3>2. /\ Append(front, final \o more) \in Seq(Seq(S)) /\ Len(Append(front, final \o more)) = N
          /\ \A n \in 1..N : Append(front, final \o more)[n]
                               = IF n = N THEN final \o more ELSE front[n]
      BY <1>1, <1>2, <3>1, AppendElements
    <3>3. \A n \in 1..N : n # N => n \in 1..(N - 1)
      BY <1>1
    <3> QED BY <1>2, <3>2, <3>3
  <2>4. \A n \in 1..N : longer[n] = Append(front, final \o more)[n]
    BY <2>2, <2>3
  <2> QED BY <2>1, <2>3, <2>4, SameElements
<1> HIDE DEF front, final, longer, N
<1>5. /\ FlattenSeq(Append(front, final)) = FlattenSeq(front) \o final
      /\ FlattenSeq(Append(front, final \o more)) = FlattenSeq(front) \o (final \o more)
      /\ FlattenSeq(front) \in Seq(S)
  BY <1>1, <1>2, FlattenAppend
<1>6. FlattenSeq(front) \o (final \o more) = (FlattenSeq(front) \o final) \o more
  BY <1>1, <1>5
<1> QED BY <1>3, <1>4, <1>5, <1>6 DEF longer, final, N

-----------------------------------------------------------------------------
OldLinesOf(chunks) == FlattenSeq([k \in DOMAIN chunks |-> chunks[k].old_lines])

NewLinesOf(chunks) == FlattenSeq([k \in DOMAIN chunks |-> chunks[k].new_lines])

(* A function on 1..N is a sequence, and one on 1..N + 1 an appended one.     *)
LEMMA FunctionIsSequence ==
    ASSUME NEW S, NEW N \in Nat, NEW f \in [1..N -> S]
    PROVE  f \in Seq(S) /\ Len(f) = N /\ (N # 0 => f # <<>>)
OBVIOUS

LEMMA FunctionAppended ==
    ASSUME NEW S, NEW N \in Nat, NEW f \in [1..N -> S], NEW g \in [1..(N + 1) -> S],
           \A k \in 1..N : g[k] = f[k]
    PROVE  g = Append(f, g[N + 1])
<1>1. f \in Seq(S) /\ Len(f) = N
  OBVIOUS
<1>2. N + 1 \in Nat /\ N + 1 \in 1..(N + 1)
  OBVIOUS
<1>3. g \in Seq(S) /\ Len(g) = N + 1 /\ g[N + 1] \in S
  BY <1>2
<1>4. /\ Append(f, g[N + 1]) \in Seq(S) /\ Len(Append(f, g[N + 1])) = N + 1
      /\ \A k \in 1..(N + 1) : Append(f, g[N + 1])[k] = IF k = N + 1 THEN g[N + 1] ELSE f[k]
  BY <1>1, <1>3, AppendElements
<1>5. \A k \in 1..(N + 1) : k # N + 1 => k \in 1..N
  OBVIOUS
<1>6. \A k \in 1..(N + 1) : g[k] = Append(f, g[N + 1])[k]
  BY <1>4, <1>5
<1> QED BY <1>3, <1>4, <1>6, SameElements

LEMMA AlignedSides ==
    ASSUME NEW c \in AlignedChunks
    PROVE  c.old_lines \in Seq(Lines) /\ c.new_lines \in Seq(Lines)
BY DEF AlignedChunks, RawChunks

LEMMA AddingIsLines ==
    ASSUME NEW l \in InputLines, NEW signs PROVE Adding(l, signs) \in Seq(Lines)
<1>1. <<ContentText(l)>> \in Seq(Lines) /\ <<>> \in Seq(Lines)
  BY ContentTextIsLine
<1> QED BY <1>1 DEF Adding

LEMMA AppendIsConcatenation ==
    ASSUME NEW S, NEW s \in Seq(S), NEW x \in S
    PROVE  s \o <<x>> = Append(s, x) /\ s \o <<>> = s
<1>1. s \o <<x>> = Append(s, x)
  <2>1. /\ s \o <<x>> \in Seq(S) /\ Len(s \o <<x>>) = Len(s) + 1
        /\ \A n \in 1..(Len(s) + 1) : (s \o <<x>>)[n] = IF n = Len(s) + 1 THEN x ELSE s[n]
    OBVIOUS
  <2>2. /\ Append(s, x) \in Seq(S) /\ Len(Append(s, x)) = Len(s) + 1
        /\ \A n \in 1..(Len(s) + 1) : Append(s, x)[n] = IF n = Len(s) + 1 THEN x ELSE s[n]
    BY AppendElements
  <2> QED BY <2>1, <2>2, SameElements
<1> QED BY <1>1

(* A line goes to the sides its sign names. *)
LEMMA LineOnItsSides ==
    ASSUME NEW c \in AlignedChunks, NEW l \in InputLines
    PROVE  /\ PushLine(c, l).old_lines = c.old_lines \o Adding(l, {" ", "-"})
           /\ PushLine(c, l).new_lines = c.new_lines \o Adding(l, {" ", "+"})
<1> DEFINE x == ContentText(l)
<1>1. /\ c \in RawChunks /\ c.old_lines \in Seq(Lines) /\ c.new_lines \in Seq(Lines)
      /\ x \in Lines
  BY ContentTextIsLine, AlignedSides DEF AlignedChunks
<1> HIDE DEF x
<1>2. /\ c.old_lines \o <<x>> = Append(c.old_lines, x) /\ c.old_lines \o <<>> = c.old_lines
      /\ c.new_lines \o <<x>> = Append(c.new_lines, x) /\ c.new_lines \o <<>> = c.new_lines
  BY <1>1, AppendIsConcatenation
<1>3. CASE Sign(l) = " "
  <2>1. PushLine(c, l) = PushContextLine(c, x)
    BY <1>3 DEF PushLine, x
  <2>2. /\ PushContextLine(c, x).old_lines = Append(c.old_lines, x)
        /\ PushContextLine(c, x).new_lines = Append(c.new_lines, x)
    BY <1>1 DEF PushContextLine, RawChunks
  <2>3. Adding(l, {" ", "-"}) = <<x>> /\ Adding(l, {" ", "+"}) = <<x>>
    BY <1>3 DEF Adding, x
  <2> QED BY <1>2, <2>1, <2>2, <2>3
<1>4. CASE Sign(l) = "+"
  <2>1. PushLine(c, l) = PushAddedLine(c, x)
    BY <1>4 DEF PushLine, x
  <2>2. /\ PushAddedLine(c, x).old_lines = c.old_lines
        /\ PushAddedLine(c, x).new_lines = Append(c.new_lines, x)
    BY <1>1 DEF PushAddedLine, RawChunks
  <2>3. Adding(l, {" ", "-"}) = <<>> /\ Adding(l, {" ", "+"}) = <<x>>
    BY <1>4 DEF Adding, x
  <2> QED BY <1>2, <2>1, <2>2, <2>3
<1>5. CASE Sign(l) = "-"
  <2>1. PushLine(c, l) = PushRemovedLine(c, x)
    BY <1>5 DEF PushLine, x
  <2>2. /\ PushRemovedLine(c, x).old_lines = Append(c.old_lines, x)
        /\ PushRemovedLine(c, x).new_lines = c.new_lines
    BY <1>1 DEF PushRemovedLine, RawChunks
  <2>3. Adding(l, {" ", "-"}) = <<x>> /\ Adding(l, {" ", "+"}) = <<>>
    BY <1>5 DEF Adding, x
  <2> QED BY <1>2, <2>1, <2>2, <2>3
<1> QED BY <1>3, <1>4, <1>5 DEF Sign

-----------------------------------------------------------------------------
(* What the sections hold together, when one is added or the last one grows. *)
LEMMA SectionAdded ==
    ASSUME NEW chunks \in Seq(AlignedChunks), NEW c \in AlignedChunks
    PROVE  /\ OldLinesOf(Append(chunks, c)) = OldLinesOf(chunks) \o c.old_lines
           /\ NewLinesOf(Append(chunks, c)) = NewLinesOf(chunks) \o c.new_lines
           /\ OldLinesOf(chunks) \in Seq(Lines) /\ NewLinesOf(chunks) \in Seq(Lines)
<1> DEFINE N == Len(chunks)
           more == Append(chunks, c)
           olds == [k \in 1..N |-> chunks[k].old_lines]
           news == [k \in 1..N |-> chunks[k].new_lines]
           olds2 == [k \in 1..(N + 1) |-> more[k].old_lines]
           news2 == [k \in 1..(N + 1) |-> more[k].new_lines]
<1>1. /\ N \in Nat /\ DOMAIN chunks = 1..N /\ DOMAIN more = 1..(N + 1)
      /\ \A k \in 1..N : chunks[k] \in AlignedChunks
      /\ \A k \in 1..(N + 1) : more[k] \in AlignedChunks
      /\ \A k \in 1..N : k \in 1..(N + 1) /\ more[k] = chunks[k]
      /\ N + 1 \in 1..(N + 1) /\ more[N + 1] = c
  OBVIOUS
<1> HIDE DEF N, more
<1>2. olds \in [1..N -> Seq(Lines)] /\ news \in [1..N -> Seq(Lines)]
  BY <1>1, AlignedSides
<1>3. olds2 \in [1..(N + 1) -> Seq(Lines)] /\ news2 \in [1..(N + 1) -> Seq(Lines)]
  BY <1>1, AlignedSides
<1>4. /\ olds2[N + 1] = c.old_lines /\ news2[N + 1] = c.new_lines
      /\ \A k \in 1..N : olds2[k] = olds[k] /\ news2[k] = news[k]
  BY <1>1
<1>5. OldLinesOf(chunks) = FlattenSeq(olds) /\ NewLinesOf(chunks) = FlattenSeq(news)
  BY <1>1 DEF OldLinesOf, NewLinesOf
<1>6. OldLinesOf(more) = FlattenSeq(olds2) /\ NewLinesOf(more) = FlattenSeq(news2)
  BY <1>1 DEF OldLinesOf, NewLinesOf
<1> HIDE DEF olds, news, olds2, news2
<1>7. olds2 = Append(olds, c.old_lines) /\ news2 = Append(news, c.new_lines)
  <2>1. olds2 = Append(olds, olds2[N + 1])
    BY <1>1, <1>2, <1>3, <1>4, FunctionAppended
  <2>2. news2 = Append(news, news2[N + 1])
    BY <1>1, <1>2, <1>3, <1>4, FunctionAppended
  <2> QED BY <1>4, <2>1, <2>2
<1>8. olds \in Seq(Seq(Lines)) /\ news \in Seq(Seq(Lines))
  BY <1>1, <1>2, FunctionIsSequence
<1>9. /\ FlattenSeq(Append(olds, c.old_lines)) = FlattenSeq(olds) \o c.old_lines
      /\ FlattenSeq(Append(news, c.new_lines)) = FlattenSeq(news) \o c.new_lines
      /\ FlattenSeq(olds) \in Seq(Lines) /\ FlattenSeq(news) \in Seq(Lines)
  BY <1>8, AlignedSides, FlattenAppend
<1> QED BY <1>5, <1>6, <1>7, <1>9 DEF more

LEMMA SectionGrown ==
    ASSUME NEW chunks \in Seq(AlignedChunks), chunks # <<>>, NEW c \in AlignedChunks,
           NEW o \in Seq(Lines), NEW n \in Seq(Lines),
           c.old_lines = chunks[Len(chunks)].old_lines \o o,
           c.new_lines = chunks[Len(chunks)].new_lines \o n
    PROVE  /\ OldLinesOf([chunks EXCEPT ![Len(chunks)] = c]) = OldLinesOf(chunks) \o o
           /\ NewLinesOf([chunks EXCEPT ![Len(chunks)] = c]) = NewLinesOf(chunks) \o n
<1> DEFINE N == Len(chunks)
           olds == [k \in 1..N |-> chunks[k].old_lines]
           news == [k \in 1..N |-> chunks[k].new_lines]
           grown == [chunks EXCEPT ![N] = c]
           olds2 == [olds EXCEPT ![N] = olds[N] \o o]
           news2 == [news EXCEPT ![N] = news[N] \o n]
<1>1. /\ N \in Nat /\ N \in 1..N /\ DOMAIN chunks = 1..N /\ DOMAIN grown = 1..N
      /\ \A k \in 1..N : chunks[k] \in AlignedChunks
      /\ \A k \in 1..N : grown[k] = IF k = N THEN c ELSE chunks[k]
  OBVIOUS
<1> HIDE DEF N, grown
<1>2. olds \in Seq(Seq(Lines)) /\ news \in Seq(Seq(Lines)) /\ Len(olds) = N /\ Len(news) = N
      /\ olds # <<>> /\ news # <<>>
  <2>1. olds \in [1..N -> Seq(Lines)] /\ news \in [1..N -> Seq(Lines)] /\ N # 0
    BY <1>1, AlignedSides
  <2> HIDE DEF olds, news
  <2> QED BY <1>1, <2>1, FunctionIsSequence
<1>3. /\ c.old_lines = olds[N] \o o /\ c.new_lines = news[N] \o n
  BY <1>1 DEF N
<1>4. /\ olds2 = [k \in 1..N |-> grown[k].old_lines]
      /\ news2 = [k \in 1..N |-> grown[k].new_lines]
  BY <1>1, <1>3
<1>5. OldLinesOf(chunks) = FlattenSeq(olds) /\ NewLinesOf(chunks) = FlattenSeq(news)
  BY <1>1 DEF OldLinesOf, NewLinesOf
<1>6. OldLinesOf(grown) = FlattenSeq(olds2) /\ NewLinesOf(grown) = FlattenSeq(news2)
  BY <1>1, <1>4 DEF OldLinesOf, NewLinesOf
<1>7. /\ FlattenSeq([olds EXCEPT ![N] = olds[N] \o o]) = FlattenSeq(olds) \o o
      /\ FlattenSeq([news EXCEPT ![N] = news[N] \o n]) = FlattenSeq(news) \o n
  <2> HIDE DEF olds, news, olds2, news2
  <2> QED BY <1>2, FlattenLast
<1> QED BY <1>5, <1>6, <1>7 DEF grown, N

LEMMA NoSections == OldLinesOf(<<>>) = <<>> /\ NewLinesOf(<<>>) = <<>>
BY FlattenNothing DEF OldLinesOf, NewLinesOf

-----------------------------------------------------------------------------
TextsOf(lines, signs) == FlattenSeq([n \in DOMAIN lines |-> Adding(lines[n], signs)])

LEMMA TextsOfBody == \A signs : Texts(signs) = TextsOf(body, signs)
BY DEF Texts, TextsOf

LEMMA TextsOfNothing == \A signs : TextsOf(<<>>, signs) = <<>>
BY FlattenNothing DEF TextsOf

LEMMA TextsGrow ==
    ASSUME NEW lines \in Seq(InputLines), NEW l \in InputLines, NEW signs
    PROVE  /\ TextsOf(Append(lines, l), signs) = TextsOf(lines, signs) \o Adding(l, signs)
           /\ TextsOf(lines, signs) \in Seq(Lines)
<1> DEFINE N == Len(lines)
           more == Append(lines, l)
           pieces == [n \in 1..N |-> Adding(lines[n], signs)]
           longer == [n \in 1..(N + 1) |-> Adding(more[n], signs)]
<1>1. /\ N \in Nat /\ DOMAIN lines = 1..N /\ DOMAIN more = 1..(N + 1)
      /\ \A n \in 1..N : lines[n] \in InputLines
      /\ \A n \in 1..(N + 1) : more[n] \in InputLines
      /\ \A n \in 1..N : n \in 1..(N + 1) /\ more[n] = lines[n]
      /\ N + 1 \in 1..(N + 1) /\ more[N + 1] = l
  OBVIOUS
<1> HIDE DEF N, more
<1>2. pieces \in [1..N -> Seq(Lines)] /\ longer \in [1..(N + 1) -> Seq(Lines)]
  BY <1>1, AddingIsLines
<1>3. longer[N + 1] = Adding(l, signs) /\ \A n \in 1..N : longer[n] = pieces[n]
  BY <1>1
<1>4. TextsOf(lines, signs) = FlattenSeq(pieces) /\ TextsOf(more, signs) = FlattenSeq(longer)
  BY <1>1 DEF TextsOf
<1> HIDE DEF pieces, longer
<1>5. longer = Append(pieces, Adding(l, signs))
  <2>1. longer = Append(pieces, longer[N + 1])
    BY <1>1, <1>2, <1>3, FunctionAppended
  <2> QED BY <1>3, <2>1
<1>6. pieces \in Seq(Seq(Lines))
  BY <1>1, <1>2, FunctionIsSequence
<1>7. /\ FlattenSeq(Append(pieces, Adding(l, signs))) = FlattenSeq(pieces) \o Adding(l, signs)
      /\ FlattenSeq(pieces) \in Seq(Lines)
  BY <1>6, AddingIsLines, FlattenAppend
<1> QED BY <1>4, <1>5, <1>7 DEF more

-----------------------------------------------------------------------------
(* What a hunk holds, against the content lines that were read for it.       *)
Holds(h, lines) ==
    /\ h.verb = "add" => h.contents = TextsOf(lines, {"+"})
    /\ h.verb = "update" =>
          /\ OldLinesOf(h.chunks) = TextsOf(lines, {" ", "-"})
          /\ NewLinesOf(h.chunks) = TextsOf(lines, {" ", "+"})

KeptInv ==
    /\ IInv
    /\ body \in Seq(InputLines)
    /\ hunks # <<>> => Holds(LastHunk, body)

LEMMA KeptMeans == KeptInv => EveryLineIsInItsHunk
<1> SUFFICES ASSUME KeptInv, hunks # <<>>
             PROVE  /\ LastHunk.verb = "add" => LastHunk.contents = Texts({"+"})
                    /\ LastHunk.verb = "update" =>
                          OldTexts = Texts({" ", "-"}) /\ NewTexts = Texts({" ", "+"})
  BY DEF EveryLineIsInItsHunk
<1>1. OldTexts = OldLinesOf(LastHunk.chunks) /\ NewTexts = NewLinesOf(LastHunk.chunks)
  BY DEF OldTexts, NewTexts, OldLinesOf, NewLinesOf, Chunks
<1> QED BY <1>1, TextsOfBody DEF KeptInv, Holds

(* The last hunk becomes g, and the lines read for it are those of g.        *)
LEMMA HunkReplaced ==
    ASSUME ParserInv, hunks # <<>>, NEW g, hunks' = WithLastHunk(g), Holds(g, body')
    PROVE  hunks' # <<>> => Holds(LastHunk', body')
<1>1. Len(hunks') = Len(hunks) /\ hunks'[Len(hunks)] = g
  BY LastHunkParsed DEF WithLastHunk, ParserInv
<1> QED BY <1>1 DEF LastHunk

LEMMA LineAddedKept ==
    ASSUME KeptInv, NEW l \in InputLines, AddLine(l)
    PROVE  body' \in Seq(InputLines) /\ (hunks' # <<>> => Holds(LastHunk', body'))
<1> DEFINE g == [LastHunk EXCEPT !.contents = Append(@, l.arg)]
<1>1. /\ mode = "AddFile" /\ l.form = "+" /\ ParserInv /\ l.arg \in Lines
      /\ hunks' = WithLastHunk(g) /\ body' = Append(body, l) /\ body \in Seq(InputLines)
  BY InputAssumption DEF AddLine, IsAddedLine, KeptInv, IInv, Signs
<1>2. hunks # <<>> /\ LastHunk.verb = "add" /\ LastHunk \in Adds
  BY <1>1, HunkKinds, LastHunkParsed DEF ParserInv, ModeTellsHunk
<1>3. /\ g.verb = "add" /\ g.contents = Append(LastHunk.contents, l.arg)
      /\ LastHunk.contents \in Seq(Lines)
  BY <1>2 DEF Adds
<1>4. Adding(l, {"+"}) = <<l.arg>>
  BY <1>1 DEF Adding, Sign, ContentText, Signs
<1>5. LastHunk.contents = TextsOf(body, {"+"})
  BY <1>2 DEF KeptInv, Holds
<1>6. g.contents = TextsOf(body', {"+"})
  <2>1. TextsOf(Append(body, l), {"+"}) = TextsOf(body, {"+"}) \o Adding(l, {"+"})
    BY <1>1, TextsGrow
  <2>2. LastHunk.contents \o <<l.arg>> = Append(LastHunk.contents, l.arg)
    BY <1>1, <1>3, AppendIsConcatenation
  <2> QED BY <1>1, <1>3, <1>4, <1>5, <2>1, <2>2
<1> HIDE DEF g
<1>7. Holds(g, body')
  BY <1>3, <1>6 DEF Holds
<1> QED BY <1>1, <1>2, <1>7, HunkReplaced

LEMMA DestinationKept ==
    ASSUME KeptInv, NEW l \in InputLines, NameDestination(l)
    PROVE  body' \in Seq(InputLines) /\ (hunks' # <<>> => Holds(LastHunk', body'))
<1> DEFINE g == [LastHunk EXCEPT !.move_path = l.arg]
<1>1. /\ mode = "UpdateFile" /\ ParserInv /\ body' = body /\ body \in Seq(InputLines)
      /\ hunks' = WithLastHunk(g)
  BY DEF NameDestination, NamesDestination, KeptInv, IInv
<1>2. hunks # <<>> /\ LastHunk.verb = "update" /\ LastHunk \in Updates
  BY <1>1, UpdateUnderWay DEF ParserInv, ModeTellsHunk
<1>3. g.verb = "update" /\ g.chunks = LastHunk.chunks
  BY <1>2 DEF Updates
<1> HIDE DEF g
<1>4. Holds(g, body')
  BY <1>1, <1>2, <1>3 DEF Holds, KeptInv
<1> QED BY <1>1, <1>2, <1>4, HunkReplaced

(* The sections of an update under way are replaced. *)
LEMMA ChunksKept ==
    ASSUME KeptInv, mode = "UpdateFile", NEW chunks,
           hunks' = WithLastHunk([LastHunk EXCEPT !.chunks = chunks]),
           OldLinesOf(chunks) = TextsOf(body', {" ", "-"}),
           NewLinesOf(chunks) = TextsOf(body', {" ", "+"})
    PROVE  hunks' # <<>> => Holds(LastHunk', body')
<1> DEFINE g == [LastHunk EXCEPT !.chunks = chunks]
<1>1. hunks # <<>> /\ LastHunk.verb = "update" /\ LastHunk \in Updates /\ ParserInv
  BY UpdateUnderWay DEF KeptInv, IInv, ParserInv, ModeTellsHunk
<1>2. g.verb = "update" /\ g.chunks = chunks
  BY <1>1 DEF Updates
<1> HIDE DEF g
<1>3. Holds(g, body')
  BY <1>2 DEF Holds
<1> QED BY <1>1, <1>3, HunkReplaced DEF g

LEMMA ChunksSoFar ==
    ASSUME KeptInv, mode = "UpdateFile"
    PROVE  /\ ParserInv /\ body \in Seq(InputLines) /\ Chunks \in Seq(AlignedChunks)
           /\ Chunks # <<>> => LastChunk \in AlignedChunks
           /\ OldLinesOf(Chunks) = TextsOf(body, {" ", "-"})
           /\ NewLinesOf(Chunks) = TextsOf(body, {" ", "+"})
           /\ \A c : WithLastChunk(c)
                       = WithLastHunk([LastHunk EXCEPT !.chunks = [Chunks EXCEPT ![Len(Chunks)] = c]])
           /\ \A c : WithNewChunk(c)
                       = WithLastHunk([LastHunk EXCEPT !.chunks = Append(Chunks, c)])
<1>1. /\ hunks # <<>> /\ LastHunk.verb = "update" /\ LastHunk \in Updates /\ ParserInv
      /\ LastHunk.chunks \in Seq(AlignedChunks)
      /\ LastHunk.chunks # <<>> => LastChunk \in AlignedChunks
  BY UpdateUnderWay DEF KeptInv, IInv, ParserInv, ModeTellsHunk
<1>2. Holds(LastHunk, body) /\ body \in Seq(InputLines)
  BY <1>1 DEF KeptInv
<1>3. ASSUME NEW c
      PROVE  WithLastChunk(c)
                = WithLastHunk([LastHunk EXCEPT !.chunks = [Chunks EXCEPT ![Len(Chunks)] = c]])
  BY <1>1 DEF WithLastChunk, Chunks, Updates
<1>4. ASSUME NEW c
      PROVE  WithNewChunk(c) = WithLastHunk([LastHunk EXCEPT !.chunks = Append(Chunks, c)])
  BY <1>1 DEF WithNewChunk, Chunks, Updates
<1> QED BY <1>1, <1>2, <1>3, <1>4 DEF Holds, Chunks

(* A section is added for no line yet, or with the line that opens it.       *)
LEMMA ChunkStartedKept ==
    ASSUME KeptInv, NEW l \in InputLines, StartChunk(l)
    PROVE  body' \in Seq(InputLines) /\ (hunks' # <<>> => Holds(LastHunk', body'))
<1> DEFINE c == NewChunk(l.arg)
           chunks == Append(Chunks, c)
<1>1. mode = "UpdateFile" /\ hunks' = WithNewChunk(c) /\ body' = body /\ l.arg \in Lines \cup {None}
  BY InputAssumption DEF StartChunk, StartsChunk
<1>2. c \in AlignedChunks /\ c.old_lines = <<>> /\ c.new_lines = <<>>
  BY <1>1, NewChunkAligned DEF NewChunk
<1> HIDE DEF c
<1>3. /\ OldLinesOf(chunks) = OldLinesOf(Chunks) \o <<>> /\ OldLinesOf(Chunks) \in Seq(Lines)
      /\ NewLinesOf(chunks) = NewLinesOf(Chunks) \o <<>> /\ NewLinesOf(Chunks) \in Seq(Lines)
  BY <1>1, <1>2, ChunksSoFar, SectionAdded
<1>4. OldLinesOf(chunks) = OldLinesOf(Chunks) /\ NewLinesOf(chunks) = NewLinesOf(Chunks)
  BY <1>3
<1>5. hunks' = WithLastHunk([LastHunk EXCEPT !.chunks = chunks])
  BY <1>1, ChunksSoFar
<1> HIDE DEF chunks
<1>6. /\ OldLinesOf(chunks) = TextsOf(body', {" ", "-"})
      /\ NewLinesOf(chunks) = TextsOf(body', {" ", "+"})
      /\ body' \in Seq(InputLines)
  BY <1>1, <1>4, ChunksSoFar
<1> QED BY <1>1, <1>5, <1>6, ChunksKept

LEMMA FileEndedKept ==
    ASSUME KeptInv, NEW l \in InputLines, EndFile(l)
    PROVE  body' \in Seq(InputLines) /\ (hunks' # <<>> => Holds(LastHunk', body'))
<1>1. mode = "UpdateFile" /\ body' = body
  BY DEF EndFile, EndsFile
<1>2. CASE Chunks = <<>>
  BY <1>1, <1>2 DEF EndFile, KeptInv, LastHunk
<1>3. CASE Chunks # <<>>
  <2> DEFINE c == [LastChunk EXCEPT !.is_end_of_file = TRUE]
             chunks == [Chunks EXCEPT ![Len(Chunks)] = c]
  <2>1. hunks' = WithLastChunk(c) /\ LastChunk \in AlignedChunks
    BY <1>1, <1>3, ChunksSoFar DEF EndFile
  <2>2. /\ c \in AlignedChunks /\ c.old_lines = LastChunk.old_lines
        /\ c.new_lines = LastChunk.new_lines
    BY <2>1 DEF AlignedChunks, RawChunks, ContextPairsInOrder
  <2> HIDE DEF c
  <2>3. /\ c.old_lines = Chunks[Len(Chunks)].old_lines \o <<>>
        /\ c.new_lines = Chunks[Len(Chunks)].new_lines \o <<>>
    BY <2>1, <2>2, AlignedSides DEF LastChunk
  <2>4. /\ OldLinesOf(chunks) = OldLinesOf(Chunks) \o <<>> /\ OldLinesOf(Chunks) \in Seq(Lines)
        /\ NewLinesOf(chunks) = NewLinesOf(Chunks) \o <<>> /\ NewLinesOf(Chunks) \in Seq(Lines)
    <3>1. <<>> \in Seq(Lines)
      OBVIOUS
    <3>2. /\ OldLinesOf(chunks) = OldLinesOf(Chunks) \o <<>>
          /\ NewLinesOf(chunks) = NewLinesOf(Chunks) \o <<>>
      BY <1>1, <1>3, <2>2, <2>3, <3>1, ChunksSoFar, SectionGrown
    <3>3. OldLinesOf(Chunks) \in Seq(Lines) /\ NewLinesOf(Chunks) \in Seq(Lines)
      BY <1>1, <2>1, ChunksSoFar, SectionAdded
    <3> QED BY <3>2, <3>3
  <2>5. hunks' = WithLastHunk([LastHunk EXCEPT !.chunks = chunks])
    BY <1>1, <2>1, ChunksSoFar
  <2> HIDE DEF chunks
  <2>7. OldLinesOf(chunks) = OldLinesOf(Chunks) /\ NewLinesOf(chunks) = NewLinesOf(Chunks)
    BY <2>4
  <2>6. /\ OldLinesOf(chunks) = TextsOf(body', {" ", "-"})
        /\ NewLinesOf(chunks) = TextsOf(body', {" ", "+"})
        /\ body' \in Seq(InputLines)
    BY <1>1, <2>7, ChunksSoFar
  <2> QED BY <1>1, <2>5, <2>6, ChunksKept
<1> QED BY <1>2, <1>3

LEMMA ChunkLineKept ==
    ASSUME KeptInv, NEW l \in InputLines, ChunkLine(l)
    PROVE  body' \in Seq(InputLines) /\ (hunks' # <<>> => Holds(LastHunk', body'))
<1> DEFINE old == Adding(l, {" ", "-"})
           new == Adding(l, {" ", "+"})
<1>1. mode = "UpdateFile" /\ body' = Append(body, l)
  BY DEF ChunkLine, IsChunkLine
<1>2. old \in Seq(Lines) /\ new \in Seq(Lines)
  BY AddingIsLines
<1>3. /\ TextsOf(body', {" ", "-"}) = TextsOf(body, {" ", "-"}) \o old
      /\ TextsOf(body', {" ", "+"}) = TextsOf(body, {" ", "+"}) \o new
      /\ body' \in Seq(InputLines)
  <2>1. body \in Seq(InputLines)
    BY DEF KeptInv
  <2>2. /\ TextsOf(Append(body, l), {" ", "-"}) = TextsOf(body, {" ", "-"}) \o old
        /\ TextsOf(Append(body, l), {" ", "+"}) = TextsOf(body, {" ", "+"}) \o new
    BY <2>1, TextsGrow
  <2>3. Append(body, l) \in Seq(InputLines)
    BY <2>1
  <2> HIDE DEF old, new
  <2> QED BY <1>1, <2>2, <2>3
<1> SUFFICES ASSUME NEW chunks,
                    hunks' = WithLastHunk([LastHunk EXCEPT !.chunks = chunks]),
                    OldLinesOf(chunks) = OldLinesOf(Chunks) \o old,
                    NewLinesOf(chunks) = NewLinesOf(Chunks) \o new
             PROVE  hunks' # <<>> => Holds(LastHunk', body')
  <2>1. \E chunks : /\ hunks' = WithLastHunk([LastHunk EXCEPT !.chunks = chunks])
                    /\ OldLinesOf(chunks) = OldLinesOf(Chunks) \o old
                    /\ NewLinesOf(chunks) = NewLinesOf(Chunks) \o new
    <3>1. CASE Chunks = <<>>
      <4> DEFINE c == PushLine(NewChunk(None), l)
                 chunks == Append(Chunks, c)
      <4>1. c \in AlignedChunks
        BY NewChunkAligned, LinePushed
      <4>2. c.old_lines = <<>> \o old /\ c.new_lines = <<>> \o new
        <5>1. /\ NewChunk(None) \in AlignedChunks
              /\ NewChunk(None).old_lines = <<>> /\ NewChunk(None).new_lines = <<>>
          BY NewChunkAligned DEF NewChunk
        <5>2. /\ c.old_lines = NewChunk(None).old_lines \o old
              /\ c.new_lines = NewChunk(None).new_lines \o new
          BY <5>1, LineOnItsSides
        <5> QED BY <5>1, <5>2
      <4>3. c.old_lines = old /\ c.new_lines = new
        <5> HIDE DEF c, old, new
        <5> QED BY <1>2, <4>2
      <4>4. hunks' = WithNewChunk(c)
        BY <3>1 DEF ChunkLine
      <4> HIDE DEF c
      <4>5. hunks' = WithLastHunk([LastHunk EXCEPT !.chunks = chunks])
        BY <1>1, <4>4, ChunksSoFar
      <4>6. /\ OldLinesOf(chunks) = OldLinesOf(Chunks) \o old
            /\ NewLinesOf(chunks) = NewLinesOf(Chunks) \o new
        BY <1>1, <4>1, <4>3, ChunksSoFar, SectionAdded
      <4> QED BY <4>5, <4>6
    <3>2. CASE Chunks # <<>>
      <4> DEFINE c == PushLine(LastChunk, l)
                 chunks == [Chunks EXCEPT ![Len(Chunks)] = c]
      <4>1. LastChunk \in AlignedChunks
        BY <1>1, <3>2, ChunksSoFar
      <4>2. c \in AlignedChunks
        BY <4>1, LinePushed
      <4>3. c.old_lines = LastChunk.old_lines \o old /\ c.new_lines = LastChunk.new_lines \o new
        BY <4>1, LineOnItsSides
      <4>4. hunks' = WithLastChunk(c)
        BY <3>2 DEF ChunkLine
      <4> HIDE DEF c, old, new
      <4>5. hunks' = WithLastHunk([LastHunk EXCEPT !.chunks = chunks])
        BY <1>1, <4>4, ChunksSoFar
      <4>6. /\ OldLinesOf(chunks) = OldLinesOf(Chunks) \o old
            /\ NewLinesOf(chunks) = NewLinesOf(Chunks) \o new
        <5>1. /\ c.old_lines = Chunks[Len(Chunks)].old_lines \o old
              /\ c.new_lines = Chunks[Len(Chunks)].new_lines \o new
          BY <4>3 DEF LastChunk
        <5>2. Chunks \in Seq(AlignedChunks)
          BY <1>1, ChunksSoFar
        <5> QED BY <1>2, <3>2, <4>2, <5>1, <5>2, SectionGrown
      <4> QED BY <4>5, <4>6
    <3> QED BY <3>1, <3>2
  <2> QED BY <1>3, <2>1
<1> HIDE DEF old, new
<1>4. /\ OldLinesOf(chunks) = TextsOf(body', {" ", "-"})
      /\ NewLinesOf(chunks) = TextsOf(body', {" ", "+"})
  BY <1>1, <1>3, ChunksSoFar
<1> QED BY <1>1, <1>4, ChunksKept

LEMMA HunkStartedKept ==
    ASSUME KeptInv, NEW l \in InputLines, StartHunk(l)
    PROVE  body' \in Seq(InputLines) /\ (hunks' # <<>> => Holds(LastHunk', body'))
<1> DEFINE h == NewHunk(l)
<1>1. /\ l.form \in {"add", "delete", "update"} /\ hunks \in Seq(ParsedHunks)
      /\ hunks' = Append(hunks, h) /\ body' = <<>>
  BY DEF StartHunk, StartsHunk, KeptInv, IInv, ParserInv
<1>2. h \in ParsedHunks
  BY <1>1, NewHunkParsed
<1>3. /\ h.verb = "add" => h.contents = <<>>
      /\ h.verb = "update" => h.chunks = <<>>
  <2>1. CASE l.form = "add"
    <3>1. h = [verb |-> "add", path |-> l.arg, contents |-> <<>>]
      BY <2>1 DEF NewHunk
    <3> QED BY <3>1
  <2>2. CASE l.form = "delete"
    <3>1. h = [verb |-> "delete", path |-> l.arg]
      BY <2>2 DEF NewHunk
    <3> QED BY <3>1
  <2>3. CASE l.form = "update"
    <3>1. h = [verb |-> "update", path |-> l.arg, move_path |-> None, chunks |-> <<>>]
      BY <2>3 DEF NewHunk
    <3> QED BY <3>1
  <2> QED BY <1>1, <2>1, <2>2, <2>3
<1> HIDE DEF h
<1>4. hunks'[Len(hunks')] = h
  BY <1>1, <1>2
<1>5. Holds(h, <<>>)
  BY <1>3, NoSections, TextsOfNothing DEF Holds
<1> QED BY <1>1, <1>4, <1>5 DEF LastHunk

LEMMA LineKept ==
    ASSUME KeptInv, NEW l \in InputLines, Accept(l)
    PROVE  body' \in Seq(InputLines) /\ (hunks' # <<>> => Holds(LastHunk', body'))
<1>1. CASE UNCHANGED <<hunks, body>>
  BY <1>1 DEF KeptInv, LastHunk
<1>2. CASE BeginPatch(l) \/ SetEnvironment(l) \/ EndPatch(l) \/ Ignore(l)
  BY <1>1, <1>2 DEF BeginPatch, SetEnvironment, EndPatch, Ignore, state
<1> QED BY <1>2, HunkStartedKept, LineAddedKept, DestinationKept, ChunkStartedKept,
           FileEndedKept, ChunkLineKept DEF Accept

LEMMA KeptStep == KeptInv /\ [Next]_vars => KeptInv'
<1> SUFFICES ASSUME KeptInv, [Next]_vars PROVE KeptInv'
  OBVIOUS
<1>1. IInv'
  BY ParserStep DEF KeptInv
<1>2. body' \in Seq(InputLines) /\ (hunks' # <<>> => Holds(LastHunk', body'))
  <2>1. CASE UNCHANGED <<hunks, body>>
    BY <2>1 DEF KeptInv, LastHunk
  <2>2. ASSUME NEW l \in InputLines, PushAccepted(l) \/ FinishAtLine(l)
        PROVE  Accept(l) \/ UNCHANGED <<hunks, body>>
    BY <2>2 DEF PushAccepted, FinishAtLine, Reject, state
  <2>3. ASSUME NEW l \in InputLines, PushRejected(l) \/ FinishAtMarker(l)
        PROVE  UNCHANGED <<hunks, body>>
    BY <2>3 DEF PushRejected, FinishAtMarker, Reject, state
  <2>4. FinishEmpty => UNCHANGED <<hunks, body>>
    BY DEF FinishEmpty, state
  <2>5. UNCHANGED vars => UNCHANGED <<hunks, body>>
    BY DEF vars, state
  <2> QED BY <2>1, <2>2, <2>3, <2>4, <2>5, LineKept DEF Next
<1> QED BY <1>1, <1>2 DEF KeptInv

(* The last hunk holds the content lines that were accepted since its        *)
(* header, in their order and on the sides their signs name, over all its    *)
(* sections, across rejected lines and calls of finish.                      *)
THEOREM LinesKept == Spec => []EveryLineIsInItsHunk
<1>1. Init => KeptInv
  BY ParserInitial DEF Init, KeptInv
<1> QED BY <1>1, KeptStep, KeptMeans, PTL DEF Spec
=============================================================================
