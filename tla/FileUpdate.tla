----------------------------- MODULE FileUpdate -----------------------------
(***************************************************************************)
(* How the chunks of an Update File turn one text into another:            *)
(* compute_replacements of file_update.rs, seek_sequence.rs and the        *)
(* SourceFile of text_file.rs.                                             *)
(*                                                                         *)
(* A line is a text and an ending.  Texts are compared in four passes,     *)
(* each more lenient than the one before; Look[pass] maps a text to what   *)
(* the pass sees of it.  Indices of lines count from 0, as in the source:  *)
(* line k is lines[k + 1], and a region [start, end) holds the lines from  *)
(* start to end - 1.                                                       *)
(***************************************************************************)
EXTENDS Integers, Sequences, FiniteSets, SequencesExt, UpdateFileChunk

CONSTANTS
    Lines,      \* texts of lines
    Blank,      \* the empty text
    Look,       \* what each pass of a search sees of a text
    None,       \* no ending, no context, no match
    Updates     \* pairs of a file, as a sequence of lines, and chunks for it

Endings == {"Lf", "CrLf", "Cr"}

(* Exact, without trailing space, without space around, plain punctuation. *)
Passes == 1..4

SourceLines == [text : Lines, ending : Endings \cup {None}]

Chunks ==
    {chunk \in [change_context : Lines \cup {None},
                old_lines : Seq(Lines),
                new_lines : Seq(Lines),
                context_line_indices : Seq(Nat \X Nat),
                is_end_of_file : BOOLEAN] : ContextPairsInOrder(chunk)}

-----------------------------------------------------------------------------
(***************************************************************************)
(* SourceFile::parse.  A file is split after each "\n", "\r\n" and lone    *)
(* "\r", so a line that ends in "\r" is never followed by the empty line   *)
(* that ends in "\n": the two characters are one ending.                   *)
(***************************************************************************)
Fuses(line, next) ==
    line.ending = "Cr" /\ next.text = Blank /\ next.ending = "Lf"

Parsed(lines) ==
    /\ \A k \in DOMAIN lines : lines[k].ending = None =>
          k = Len(lines) /\ lines[k].text # Blank
    /\ \A k \in DOMAIN lines : k > 1 => ~Fuses(lines[k - 1], lines[k])

(* The first ending of the file is the ending of inserted lines. *)
PreferredEnding(lines) ==
    IF lines # <<>> /\ lines[1].ending # None THEN lines[1].ending ELSE "Lf"

LineTexts(lines) == [k \in DOMAIN lines |-> lines[k].text]

(* into_contents, seen by the next reader of the file. *)
Reread(lines) ==
    FoldLeft(LAMBDA read, line :
                 IF read # <<>> /\ Fuses(read[Len(read)], line)
                 THEN [read EXCEPT ![Len(read)].ending = "CrLf"]
                 ELSE Append(read, line),
             <<>>, lines)

ASSUME LookAssumption ==
    /\ None \notin Nat
    /\ None \notin Lines
    /\ Blank \in Lines
    /\ Look \in [Passes -> [Lines -> Lines]]
    /\ \A line \in Lines : Look[1][line] = line
    /\ \A pass \in 1..3 : \A a, b \in Lines :
          Look[pass][a] = Look[pass][b] => Look[pass + 1][a] = Look[pass + 1][b]

ASSUME UpdateAssumption ==
    \A update \in Updates :
        /\ update.source \in Seq(SourceLines)
        /\ Parsed(update.source)
        /\ update.chunks \in Seq(Chunks)

-----------------------------------------------------------------------------
(***************************************************************************)
(* seek_sequence: the first place, at or after start, where pattern occurs *)
(* under the strictest pass that finds it anywhere.  A pattern that belongs *)
(* to the end of the file is looked for there only.                        *)
(***************************************************************************)
Matches(lines, pattern, at, pass) ==
    \A k \in DOMAIN pattern : Look[pass][lines[at + k]] = Look[pass][pattern[k]]

Candidates(lines, pattern, first, pass) ==
    {at \in first..(Len(lines) - Len(pattern)) : Matches(lines, pattern, at, pass)}

(* Mutant of SearchStart: the marker sends a search back to matched lines. *)
SearchStartAtEnd(lines, pattern, start, eof) ==
    IF eof /\ Len(pattern) <= Len(lines)
    THEN Len(lines) - Len(pattern)
    ELSE start

(* Mutant of SearchStart: the end-of-file marker is not looked at. *)
SearchStartAnywhere(lines, pattern, start, eof) == start

SearchStart(lines, pattern, start, eof) ==
    IF eof /\ Len(lines) - Len(pattern) > start
    THEN Len(lines) - Len(pattern)
    ELSE start

Least(S) == CHOOSE m \in S : \A n \in S : m <= n

PassesThatFind(lines, pattern, first) ==
    {pass \in Passes : Candidates(lines, pattern, first, pass) # {}}

SeekSequence(lines, pattern, start, eof) ==
    LET first == SearchStart(lines, pattern, start, eof)
        passes == PassesThatFind(lines, pattern, first)
    IN  IF pattern = <<>>
        THEN start
        ELSE IF passes = {}
             THEN None
             ELSE Least(Candidates(lines, pattern, first, Least(passes)))

-----------------------------------------------------------------------------
VARIABLES
    source,        \* the file, as SourceFile::parse splits it
    chunks,
    c,             \* the chunk to place next
    line_index,    \* where the search for it starts
    replacements,  \* what to remove and insert, and where
    placed,        \* history: the region each chunk was matched to
    result,        \* the lines of the new file
    pc

update == <<source, chunks>>
vars == <<update, c, line_index, replacements, placed, result, pc>>

TypeOK ==
    /\ source \in Seq(SourceLines)
    /\ chunks \in Seq(Chunks)
    /\ c \in 1..(Len(chunks) + 1)
    /\ line_index \in 0..Len(source)
    /\ \A r \in replacements :
          /\ r.chunk \in 1..(c - 1)
          /\ r.start \in 0..Len(source)
          /\ r.old_len \in 0..(Len(source) - r.start)
    /\ pc \in {"place", "done", "failed"}

Init ==
    /\ \E u \in Updates : source = u.source /\ chunks = u.chunks
    /\ c = 1
    /\ line_index = 0
    /\ replacements = {}
    /\ placed = <<>>
    /\ result = <<>>
    /\ pc = "place"

-----------------------------------------------------------------------------
(***************************************************************************)
(* compute_replacements, one chunk at a time.  The change context, if any, *)
(* is found first and the search goes on behind it.                        *)
(***************************************************************************)
Chunk == chunks[c]

AtChunk == pc = "place" /\ c <= Len(chunks)

ContextAt == SeekSequence(LineTexts(source), <<Chunk.change_context>>, line_index, FALSE)

SearchFrom ==
    IF Chunk.change_context = None
    THEN line_index
    ELSE IF ContextAt = None THEN None ELSE ContextAt + 1

Fail == pc' = "failed" /\ UNCHANGED <<update, c, line_index, replacements, placed, result>>

LoseContext == AtChunk /\ SearchFrom = None /\ Fail

(***************************************************************************)
(* A chunk that removes and keeps nothing adds its lines at the end of the *)
(* file, wherever its context was.                                         *)
(***************************************************************************)
AddAtEnd ==
    /\ AtChunk
    /\ SearchFrom # None
    /\ Chunk.old_lines = <<>>
    /\ replacements' = replacements \cup
          {[chunk |-> c, gap |-> 0, start |-> Len(source), old_len |-> 0,
            new_lines |-> Chunk.new_lines]}
    /\ placed' = Append(placed, [at |-> Len(source), pattern |-> <<>>,
                                 new_slice |-> Chunk.new_lines])
    /\ line_index' = SearchFrom
    /\ c' = c + 1
    /\ UNCHANGED <<update, result, pc>>

(***************************************************************************)
(* Where the old lines are.  If they are nowhere and end in an empty line, *)
(* that line may stand for the newline at the end of the file, and the     *)
(* search is repeated without it.                                          *)
(***************************************************************************)
WithoutLastBlank(lines) ==
    IF lines # <<>> /\ lines[Len(lines)] = Blank
    THEN SubSeq(lines, 1, Len(lines) - 1)
    ELSE lines

(* Mutant of Region: the new lines stay whole when the old ones do not. *)
RegionOfWholeNewLines(chunk, from) ==
    LET Seek(pattern) ==
            SeekSequence(LineTexts(source), pattern, from, chunk.is_end_of_file)
        shorter == WithoutLastBlank(chunk.old_lines)
        pattern == IF Seek(chunk.old_lines) # None THEN chunk.old_lines ELSE shorter
    IN  [at |-> Seek(pattern), pattern |-> pattern, new_slice |-> chunk.new_lines]

Region(chunk, from) ==
    LET Seek(pattern) ==
            SeekSequence(LineTexts(source), pattern, from, chunk.is_end_of_file)
        shorter == WithoutLastBlank(chunk.old_lines)
    IN  IF Seek(chunk.old_lines) # None \/ shorter = chunk.old_lines
        THEN [at |-> Seek(chunk.old_lines), pattern |-> chunk.old_lines,
              new_slice |-> chunk.new_lines]
        ELSE [at |-> Seek(shorter), pattern |-> shorter,
              new_slice |-> WithoutLastBlank(chunk.new_lines)]

(***************************************************************************)
(* The context lines of a region stay as they are.  What lies between two  *)
(* of them, before the first and after the last is replaced, unless there  *)
(* is nothing on either side.  A pair of which either side was cut off     *)
(* with the last blank line, and all after it, are no longer context.      *)
(***************************************************************************)
ContextPairs(chunk) ==
    {chunk.context_line_indices[k] : k \in DOMAIN chunk.context_line_indices}

Kept(chunk, region) ==
    {pair \in ContextPairs(chunk) :
        pair[1] < Len(region.pattern) /\ pair[2] < Len(region.new_slice)}

(* The gap that follows the context pair p. *)
GapAfter(chunk, region, p) ==
    LET behind == {q \in Kept(chunk, region) : q[1] > p[1]}
        next == IF behind = {}
                THEN <<Len(region.pattern), Len(region.new_slice)>>
                ELSE CHOOSE q \in behind : \A o \in behind : q[1] <= o[1]
    IN  [chunk |-> c,
         gap |-> p[1] + 1,
         start |-> region.at + p[1] + 1,
         old_len |-> next[1] - p[1] - 1,
         new_lines |-> SubSeq(region.new_slice, p[2] + 2, next[2])]

(* Mutants of RegionReplacements: one replacement for the whole region, and  *)
(* the length of the old lines though a shorter pattern was found.           *)
WholeRegion(chunk, region) ==
    {[chunk |-> c, gap |-> 0, start |-> region.at,
      old_len |-> Len(region.pattern), new_lines |-> region.new_slice]}

ForgetsShorterPattern(chunk, region) ==
    {GapAfter(chunk, [region EXCEPT !.pattern = chunk.old_lines], p) :
        p \in Kept(chunk, region) \cup {<<-1, -1>>}}

RegionReplacements(chunk, region) ==
    {r \in {GapAfter(chunk, region, p) : p \in Kept(chunk, region) \cup {<<-1, -1>>}} :
        r.old_len # 0 \/ r.new_lines # <<>>}

ReplaceLines ==
    /\ AtChunk
    /\ SearchFrom # None
    /\ Chunk.old_lines # <<>>
    /\ LET region == Region(Chunk, SearchFrom)
       IN  /\ region.at # None
           /\ replacements' = replacements \cup RegionReplacements(Chunk, region)
           /\ placed' = Append(placed, region)
           /\ line_index' = region.at + Len(region.pattern)
    /\ c' = c + 1
    /\ UNCHANGED <<update, result, pc>>

LoseLines ==
    /\ AtChunk
    /\ SearchFrom # None
    /\ Chunk.old_lines # <<>>
    /\ Region(Chunk, SearchFrom).at = None
    /\ Fail

-----------------------------------------------------------------------------
(***************************************************************************)
(* The replacements are sorted by where they start, those of one place in  *)
(* the order they were made (a stable sort), and apply_replacements copies *)
(* the file around them.  At the end every line has an ending.             *)
(***************************************************************************)
Precedes(r, s) ==
    \/ r.start < s.start
    \/ r.start = s.start /\ r.chunk < s.chunk
    \/ r.start = s.start /\ r.chunk = s.chunk /\ r.gap < s.gap

(* The elements of a set, each behind those that are before it. *)
InOrder(S, before) ==
    [n \in 1..Cardinality(S) |->
        CHOOSE x \in S : Cardinality({y \in S : <<y, x>> \in before}) = n - 1]

Inserted(texts) ==
    [k \in DOMAIN texts |-> [text |-> texts[k], ending |-> PreferredEnding(source)]]

Terminated(lines) ==
    [k \in DOMAIN lines |->
        IF lines[k].ending = None
        THEN [lines[k] EXCEPT !.ending = PreferredEnding(source)]
        ELSE lines[k]]

SourceIndex(sorted, n) == IF n = 0 THEN 0 ELSE sorted[n].start + sorted[n].old_len

ApplyReplacements ==
    LET sorted == InOrder(replacements,
                          {p \in replacements \X replacements : Precedes(p[1], p[2])})
        new_lines[n \in 0..Len(sorted)] ==
            IF n = 0 THEN <<>>
            ELSE new_lines[n - 1]
                 \o SubSeq(source, SourceIndex(sorted, n - 1) + 1, sorted[n].start)
                 \o Inserted(sorted[n].new_lines)
    IN  Terminated(new_lines[Len(sorted)]
                   \o SubSeq(source, SourceIndex(sorted, Len(sorted)) + 1, Len(source)))

Rebuild ==
    /\ pc = "place"
    /\ c > Len(chunks)
    /\ result' = ApplyReplacements
    /\ pc' = "done"
    /\ UNCHANGED <<update, c, line_index, replacements, placed>>

Step == LoseContext \/ AddAtEnd \/ ReplaceLines \/ LoseLines \/ Rebuild

Finished == pc \in {"done", "failed"} /\ UNCHANGED vars

Next == Step \/ Finished

Spec == Init /\ [][Next]_vars

-----------------------------------------------------------------------------
(* The replacements of an update never overlap, so apply_replacements never  *)
(* has to go back (its debug_assert holds) and no chunk removes or inserts   *)
(* inside the lines another one matched; only additions at the end of the    *)
(* file may stand apart from their chunk's neighbours.                       *)
NeverOverlap ==
    \A r, s \in replacements :
        r.chunk < s.chunk \/ (r.chunk = s.chunk /\ r.gap < s.gap) =>
            r.start + r.old_len <= s.start \/ r.start = Len(source)

(***************************************************************************)
(* The new file, said without replacements: which lines of the source      *)
(* survive, where each added line belongs, and nothing else.  Context is   *)
(* what the chunk says it is, wherever its lines were found.               *)
(***************************************************************************)
Context(k) ==
    {pair \in ContextPairs(chunks[k]) : pair[1] < Len(placed[k].pattern)}

(* What chunk k puts in place of the lines it was matched to.  If it was     *)
(* found only without its last line, a blank one, that line stood for the    *)
(* newline at the end of the file, and so does a blank last new line.        *)
Wanted(k) ==
    IF placed[k].pattern = chunks[k].old_lines
    THEN chunks[k].new_lines
    ELSE WithoutLastBlank(chunks[k].new_lines)

(* The new side of every context line is among the lines that are wanted.    *)
KeepsContext(k) == \A pair \in Context(k) : pair[2] < Len(Wanted(k))

Removed ==
    UNION {{placed[k].at + o : o \in (0..(Len(placed[k].pattern) - 1))
                                       \ {p[1] : p \in Context(k)}} :
           k \in DOMAIN placed}

(* Added line n of chunk k stands behind the last context line before it. *)
AddedBefore(k, n) ==
    LET earlier == {p[1] : p \in {q \in Context(k) : q[2] < n - 1}}
    IN  placed[k].at + IF earlier = {} THEN 0
                       ELSE 1 + CHOOSE o \in earlier : \A q \in earlier : q <= o

(* The key of a line orders it: lines added before source line p, then p. *)
Survivors ==
    {[key |-> <<p, 1, 0, 0>>, line |-> source[p + 1]] :
        p \in (0..(Len(source) - 1)) \ Removed}

Additions ==
    UNION {{[key |-> <<AddedBefore(k, n), 0, k, n>>,
             line |-> Inserted(Wanted(k))[n]] :
               n \in {m \in DOMAIN Wanted(k) : m - 1 \notin {p[2] : p \in Context(k)}}} :
           k \in DOMAIN placed}

KeyBefore(x, y) ==
    \E d \in 1..4 : /\ x.key[d] < y.key[d]
                    /\ \A e \in 1..(d - 1) : x.key[e] = y.key[e]

(* Context lines and lines no chunk names keep their exact text and ending,  *)
(* every removed line is gone, every added line stands where its chunk was   *)
(* matched, in patch order, with the ending the file prefers.  Only updates  *)
(* are left out in which a chunk was found without its last blank line while *)
(* its last new line, blank as well, is a context line further up: of that   *)
(* line see ContextIsKept.                                                   *)
ResultIsTheSplice ==
    pc = "done" /\ (\A k \in DOMAIN placed : KeepsContext(k)) =>
        LET lines == Survivors \cup Additions
            expected == InOrder(lines, {p \in lines \X lines : KeyBefore(p[1], p[2])})
        IN  result = Terminated([k \in DOMAIN expected |-> expected[k].line])

(* A chunk marked as the end of the file ends there, if it matched any line. *)
EndOfFileChunksReachTheEnd ==
    \A k \in DOMAIN placed :
        chunks[k].is_end_of_file /\ placed[k].pattern # <<>> =>
            placed[k].at + Len(placed[k].pattern) = Len(source)

-----------------------------------------------------------------------------
(***************************************************************************)
(* What comments say of an update, against what the code does.             *)
(***************************************************************************)

(* The new file reads back as the lines the update made: unchanged lines     *)
(* retain their endings (the comment on apply_replacements says so).         *)
LinesReadBack == pc = "done" => Reread(result) = result

(* Every context line of a chunk that was matched stays in the file (the     *)
(* comment in compute_replacements says so, and SKILL.md).                   *)
ContextIsKept ==
    \A k \in DOMAIN placed : \A pair \in Context(k) : \A r \in replacements :
        placed[k].at + pair[1] \notin r.start..(r.start + r.old_len - 1)

(* A chunk marked as the end of the file is searched for from line_index if  *)
(* it is not found there (the comment on seek_sequence says so).             *)
EndOfFileFallsBack ==
    pc = "failed" /\ SearchFrom # None =>
        SeekSequence(LineTexts(source), Chunk.old_lines, SearchFrom, FALSE) = None
=============================================================================
