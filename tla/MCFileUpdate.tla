---------------------------- MODULE MCFileUpdate ----------------------------
(***************************************************************************)
(* Instances of FileUpdate for TLC.  The text a looks like aTrail to the   *)
(* second pass, like aLead to the third and like aFancy to the fourth.     *)
(***************************************************************************)
EXTENDS FileUpdate

CONSTANTS a, aTrail, aLead, aFancy, b

MCLines == {a, aTrail, aLead, aFancy, b, Blank}

MCLook ==
    LET Alike(variants) == [line \in MCLines |-> IF line \in variants THEN a ELSE line]
    IN  <<Alike({a}), Alike({a, aTrail}), Alike({a, aTrail, aLead}),
          Alike({a, aTrail, aLead, aFancy})>>

SeqsUpTo(S, n) == UNION {[1..m -> S] : m \in 0..n}

-----------------------------------------------------------------------------
(* A file whose lines all end in ending, the last one perhaps in nothing. *)
File(texts, ending, terminated) ==
    [k \in DOMAIN texts |->
        [text |-> texts[k],
         ending |-> IF k = Len(texts) /\ ~terminated THEN None ELSE ending]]

PlainFiles ==
    {f \in {File(texts, "Lf", t) : texts \in SeqsUpTo({a, b, Blank}, 3), t \in BOOLEAN} :
        Parsed(f)}

(* Files that mix endings. *)
MixedFiles ==
    {f \in [1..3 -> [text : {a, Blank}, ending : Endings]] : Parsed(f)}

(* Files where the passes differ. *)
LookFiles == {File(texts, "Lf", TRUE) : texts \in [1..3 -> MCLines \ {b, Blank}]}

-----------------------------------------------------------------------------
(* The chunk the parser builds from signed lines. *)
ChunkOf(context, body, eof) ==
    LET Push(chunk, entry) ==
            CASE entry[1] = " " -> PushContextLine(chunk, entry[2])
              [] entry[1] = "-" -> PushRemovedLine(chunk, entry[2])
              [] entry[1] = "+" -> PushAddedLine(chunk, entry[2])
    IN  [FoldLeft(Push, NewChunk(context), body) EXCEPT !.is_end_of_file = eof]

SignedLines(S) == {" ", "-", "+"} \X S

Bodies == SeqsUpTo(SignedLines({a, Blank}), 2) \ {<<>>}

(* A change between context lines, and one around a context line. *)
LongBodies ==
    {<<<<" ", a>>, <<sign, b>>, <<" ", Blank>>>> : sign \in {"-", "+"}}
    \cup {<<<<"-", a>>, <<"+", b>>, <<" ", line>>, <<"+", b>>>> : line \in {a, Blank}}

SingleChunks ==
    {<<ChunkOf(context, body, eof)>> :
        context \in {None, a}, body \in Bodies \cup LongBodies, eof \in BOOLEAN}

ShortChunks ==
    {ChunkOf(None, body, FALSE) :
        body \in {<<e>> : e \in SignedLines({a})}
                 \cup {<<<<" ", a>>, <<"+", b>>>>, <<<<"-", Blank>>, <<"+", b>>>>}}
    \cup {ChunkOf(a, <<<<"+", b>>>>, FALSE), ChunkOf(None, <<<<"-", a>>>>, TRUE)}

ChunkPairs == {<<x, y>> : x \in ShortChunks, y \in ShortChunks}

LookChunks == {<<ChunkOf(context, <<<<"-", a>>, <<"+", b>>>>, FALSE)>> : context \in {None, a}}

Pairing(S, T) == [source : S, chunks : T]

AllUpdates ==
    Pairing(PlainFiles, SingleChunks)
    \cup Pairing(PlainFiles, ChunkPairs)
    \cup Pairing(MixedFiles, {<<x>> : x \in ShortChunks})
    \cup Pairing(LookFiles, LookChunks)

MixedUpdates ==
    Pairing(MixedFiles, {<<ChunkOf(None, <<<<" ", a>>, <<"+", Blank>>>>, FALSE)>>,
                         <<ChunkOf(None, <<<<"-", a>>>>, FALSE)>>})
=============================================================================
