--------------------------- MODULE StreamingParser ---------------------------
(***************************************************************************)
(* StreamingPatchParser of streaming_parser.rs: patch text arrives in      *)
(* deltas and becomes hunks line by line.                                  *)
(*                                                                         *)
(* A step of this specification is one call of process_line, or finish.    *)
(* How the text is cut into deltas makes no difference to the lines: the   *)
(* buffer keeps the part of a line that has arrived.  The lines of a delta *)
(* that follow an error are dropped, which to the parser is as if they had *)
(* never been sent; nothing stops a caller from pushing more after an      *)
(* error, or after finish.                                                 *)
(*                                                                         *)
(* A line is its form, the text behind the marker or sign, and whether     *)
(* a space precedes it.  Forms " ", "+" and "-" are the content lines.     *)
(***************************************************************************)
EXTENDS Naturals, Sequences, SequencesExt, UpdateFileChunk

CONSTANTS
    Names,       \* paths and environment ids
    Lines,       \* texts of content lines and section headers
    Blank,       \* the empty text
    MarkerText,  \* the text of an indented marker, read as a context line
    None,        \* no text
    InputLines,  \* the lines a patch is made of
    MaxLines     \* bound on the lines that are accepted

Forms == {"begin", "env", "add", "delete", "update", "move", "section", "eof",
          "end", " ", "+", "-", "empty", "junk"}

Signs == {" ", "+", "-"}

ASSUME InputAssumption ==
    /\ None \notin Names \cup Lines
    /\ {Blank, MarkerText} \subseteq Lines
    /\ Blank # MarkerText
    /\ MaxLines \in Nat
    /\ \A line \in InputLines :
          /\ line \in [form : Forms, arg : Names \cup Lines \cup {None}, indented : BOOLEAN]
          /\ line.form \in {"add", "delete", "update", "move"} => line.arg \in Names
          /\ line.form = "env" => line.arg \in Names \cup {None}
          /\ line.form = "section" => line.arg \in Lines \cup {None}
          /\ line.form \in Signs => line.arg \in Lines /\ ~line.indented
          /\ line.form \in {"empty", "junk"} => ~line.indented

-----------------------------------------------------------------------------
VARIABLES
    mode,            \* StreamingParserMode
    hunks,
    environment_id,
    answer,          \* of the last call: "ok" or "error" from push_delta,
                     \* "done" or "incomplete" from finish
    body,            \* history: content lines since the last hunk header
    count            \* history: lines accepted

state == <<mode, hunks, environment_id>>
vars == <<state, answer, body, count>>

TypeOK ==
    /\ mode \in {"NotStarted", "StartedPatch", "AddFile", "DeleteFile",
                 "UpdateFile", "EndedPatch"}
    /\ \A k \in DOMAIN hunks :
          /\ hunks[k].verb \in {"add", "delete", "update"}
          /\ hunks[k].path \in Names
          /\ hunks[k].verb = "add" => hunks[k].contents \in Seq(Lines)
          /\ hunks[k].verb = "update" => hunks[k].move_path \in Names \cup {None}
    /\ mode = "AddFile" => hunks # <<>> /\ Last(hunks).verb = "add"
    /\ mode = "UpdateFile" => hunks # <<>> /\ Last(hunks).verb = "update"
    /\ environment_id \in Names \cup {None}

Init ==
    /\ mode = "NotStarted"
    /\ hunks = <<>>
    /\ environment_id = None
    /\ answer = "ok"
    /\ body = <<>>
    /\ count = 0

-----------------------------------------------------------------------------
(***************************************************************************)
(* In an update only trailing white space is taken off a line before it is *)
(* compared with the markers, elsewhere leading white space too: there an  *)
(* indented marker is a marker, in an update it is a context line.         *)
(***************************************************************************)
IsMarker(l) == l.indented => mode # "UpdateFile"

IsWhiteSpace(l) == l.form = "empty" \/ (l.form = " " /\ l.arg = Blank)

Sign(l) == IF l.form \in {"+", "-"} THEN l.form ELSE " "

ContentText(l) ==
    IF l.form \in Signs THEN l.arg
    ELSE IF l.form = "empty" THEN Blank ELSE MarkerText

LastHunk == hunks[Len(hunks)]

Chunks == LastHunk.chunks

LastChunk == Chunks[Len(Chunks)]

(* Mutant of UpdateIsWhole: only the last section is looked at. *)
LastChunkIsWhole ==
    hunks # <<>> /\ LastHunk.verb = "update" /\ Chunks # <<>> => HasLines(LastChunk)

(* ensure_update_hunk_is_not_empty *)
UpdateIsWhole ==
    hunks # <<>> /\ LastHunk.verb = "update" =>
        /\ mode = "UpdateFile" => Chunks # <<>>
        /\ Chunks # <<>> => HasLines(LastChunk)

(* The last section is closed by the end-of-file marker. *)
AtEndOfFile == Chunks # <<>> /\ LastChunk.is_end_of_file

-----------------------------------------------------------------------------
(***************************************************************************)
(* When a line is accepted, and as what (process_line and                  *)
(* handle_hunk_headers_and_end_patch).                                     *)
(***************************************************************************)
InPatch == mode \in {"StartedPatch", "AddFile", "DeleteFile", "UpdateFile"}

BeginsPatch(l) == mode = "NotStarted" /\ l.form = "begin"

(* Mutant of SetsEnvironment: a second environment id replaces the first. *)
SetsEnvironmentAgain(l) ==
    mode = "StartedPatch" /\ l.form = "env" /\ l.arg # None

SetsEnvironment(l) ==
    /\ mode = "StartedPatch"
    /\ l.form = "env"
    /\ environment_id = None
    /\ l.arg # None

EndsPatch(l) == InPatch /\ l.form = "end" /\ IsMarker(l) /\ UpdateIsWhole

StartsHunk(l) ==
    InPatch /\ l.form \in {"add", "delete", "update"} /\ IsMarker(l) /\ UpdateIsWhole

IsAddedLine(l) == mode = "AddFile" /\ l.form = "+"

NamesDestination(l) ==
    /\ mode = "UpdateFile"
    /\ l.form = "move"
    /\ IsMarker(l)
    /\ Chunks = <<>>
    /\ LastHunk.move_path = None

StartsChunk(l) ==
    /\ mode = "UpdateFile"
    /\ l.form = "section"
    /\ IsMarker(l)
    /\ Chunks # <<>> => HasLines(LastChunk)

(* Before the first section the marker is accepted and has no effect. *)
EndsFile(l) ==
    /\ mode = "UpdateFile"
    /\ l.form = "eof"
    /\ IsMarker(l)
    /\ ~AtEndOfFile
    /\ Chunks # <<>> => HasLines(LastChunk)

(* Mutant of IsChunkLine: lines go on after the end-of-file marker. *)
IsChunkLineAfterEndOfFile(l) ==
    mode = "UpdateFile" /\ (l.form \in Signs \cup {"empty"} \/ ~IsMarker(l))

IsChunkLine(l) ==
    /\ mode = "UpdateFile"
    /\ ~AtEndOfFile
    /\ l.form \in Signs \cup {"empty"} \/ ~IsMarker(l)

IsIgnored(l) ==
    /\ IsWhiteSpace(l)
    /\ mode = "EndedPatch" \/ (mode = "UpdateFile" /\ AtEndOfFile)

IsAccepted(l) ==
    \/ BeginsPatch(l) \/ SetsEnvironment(l) \/ EndsPatch(l) \/ StartsHunk(l)
    \/ IsAddedLine(l) \/ NamesDestination(l) \/ StartsChunk(l) \/ EndsFile(l)
    \/ IsChunkLine(l) \/ IsIgnored(l)

-----------------------------------------------------------------------------
(***************************************************************************)
(* What an accepted line does to the parser.                               *)
(***************************************************************************)
NewHunk(l) ==
    CASE l.form = "add" -> [verb |-> "add", path |-> l.arg, contents |-> <<>>]
      [] l.form = "delete" -> [verb |-> "delete", path |-> l.arg]
      [] l.form = "update" ->
            [verb |-> "update", path |-> l.arg, move_path |-> None, chunks |-> <<>>]

(* Mutant of NewMode: the mode of a delete is that of an add. *)
NewModeMixedUp(l) == IF l.form = "update" THEN "UpdateFile" ELSE "AddFile"

NewMode(l) ==
    CASE l.form = "add" -> "AddFile"
      [] l.form = "delete" -> "DeleteFile"
      [] l.form = "update" -> "UpdateFile"

WithLastHunk(h) == [hunks EXCEPT ![Len(hunks)] = h]

WithLastChunk(chunk) ==
    WithLastHunk([LastHunk EXCEPT !.chunks[Len(Chunks)] = chunk])

WithNewChunk(chunk) ==
    WithLastHunk([LastHunk EXCEPT !.chunks = Append(@, chunk)])

PushLine(chunk, l) ==
    CASE Sign(l) = " " -> PushContextLine(chunk, ContentText(l))
      [] Sign(l) = "+" -> PushAddedLine(chunk, ContentText(l))
      [] Sign(l) = "-" -> PushRemovedLine(chunk, ContentText(l))

BeginPatch(l) ==
    /\ BeginsPatch(l)
    /\ mode' = "StartedPatch"
    /\ UNCHANGED <<hunks, environment_id, body>>

SetEnvironment(l) ==
    /\ SetsEnvironment(l)
    /\ environment_id' = l.arg
    /\ UNCHANGED <<mode, hunks, body>>

EndPatch(l) ==
    /\ EndsPatch(l)
    /\ mode' = "EndedPatch"
    /\ UNCHANGED <<hunks, environment_id, body>>

StartHunk(l) ==
    /\ StartsHunk(l)
    /\ hunks' = Append(hunks, NewHunk(l))
    /\ mode' = NewMode(l)
    /\ body' = <<>>
    /\ UNCHANGED environment_id

AddLine(l) ==
    /\ IsAddedLine(l)
    /\ hunks' = WithLastHunk([LastHunk EXCEPT !.contents = Append(@, l.arg)])
    /\ body' = Append(body, l)
    /\ UNCHANGED <<mode, environment_id>>

NameDestination(l) ==
    /\ NamesDestination(l)
    /\ hunks' = WithLastHunk([LastHunk EXCEPT !.move_path = l.arg])
    /\ UNCHANGED <<mode, environment_id, body>>

StartChunk(l) ==
    /\ StartsChunk(l)
    /\ hunks' = WithNewChunk(NewChunk(l.arg))
    /\ UNCHANGED <<mode, environment_id, body>>

EndFile(l) ==
    /\ EndsFile(l)
    /\ hunks' = IF Chunks = <<>>
                THEN hunks
                ELSE WithLastChunk([LastChunk EXCEPT !.is_end_of_file = TRUE])
    /\ UNCHANGED <<mode, environment_id, body>>

(* Mutant of ChunkLine: the line that opens the first section is consumed. *)
ChunkLineOpensSection(l) ==
    /\ IsChunkLine(l)
    /\ hunks' = IF Chunks = <<>>
                THEN WithNewChunk(NewChunk(None))
                ELSE WithLastChunk(PushLine(LastChunk, l))
    /\ body' = Append(body, l)
    /\ UNCHANGED <<mode, environment_id>>

(* The first section needs no header. *)
ChunkLine(l) ==
    /\ IsChunkLine(l)
    /\ hunks' = IF Chunks = <<>>
                THEN WithNewChunk(PushLine(NewChunk(None), l))
                ELSE WithLastChunk(PushLine(LastChunk, l))
    /\ body' = Append(body, l)
    /\ UNCHANGED <<mode, environment_id>>

Ignore(l) ==
    /\ IsIgnored(l)
    /\ UNCHANGED <<state, body>>

(* Mutant of Reject: an error takes the unfinished hunk back. *)
RejectTakesHunkBack(l) ==
    /\ ~IsAccepted(l)
    /\ hunks' = IF mode = "UpdateFile" THEN Front(hunks) ELSE hunks
    /\ mode' = IF mode = "UpdateFile" THEN "DeleteFile" ELSE mode
    /\ UNCHANGED <<environment_id, body>>

(* An error leaves the parser as it was. *)
Reject(l) ==
    /\ ~IsAccepted(l)
    /\ UNCHANGED <<state, body>>

Accept(l) ==
    \/ BeginPatch(l) \/ SetEnvironment(l) \/ EndPatch(l) \/ StartHunk(l)
    \/ AddLine(l) \/ NameDestination(l) \/ StartChunk(l) \/ EndFile(l)
    \/ ChunkLine(l) \/ Ignore(l)

-----------------------------------------------------------------------------
(* push_delta, for one line of the delta. *)
PushAccepted(l) ==
    /\ count < MaxLines
    /\ Accept(l)
    /\ count' = count + 1
    /\ answer' = "ok"

PushRejected(l) ==
    /\ Reject(l)
    /\ answer' = "error"
    /\ UNCHANGED count

Done == IF mode' = "EndedPatch" THEN "done" ELSE "incomplete"

FinishEmpty ==
    /\ UNCHANGED <<state, body, count>>
    /\ answer' = Done

(* finish takes an end marker, indented or not, in every mode. *)
FinishAtMarker(l) ==
    /\ l.form = "end"
    /\ IF UpdateIsWhole
       THEN mode' = "EndedPatch" /\ answer' = "done"
       ELSE UNCHANGED mode /\ answer' = "incomplete"
    /\ UNCHANGED <<hunks, environment_id, body, count>>

(* Any other line is processed first, and stays if the patch is then found   *)
(* not to be complete.                                                       *)
FinishAtLine(l) ==
    /\ l.form \notin {"end", "empty"}
    /\ \/ count < MaxLines /\ Accept(l) /\ count' = count + 1 /\ answer' = Done
       \/ Reject(l) /\ UNCHANGED count /\ answer' = "incomplete"

Next ==
    \/ \E l \in InputLines :
          PushAccepted(l) \/ PushRejected(l) \/ FinishAtMarker(l) \/ FinishAtLine(l)
    \/ FinishEmpty

Spec == Init /\ [][Next]_vars

-----------------------------------------------------------------------------
(* A hunk that push_delta has shown stays: what follows it, errors included, *)
(* never changes it, and only the last hunk still grows.  What finish has    *)
(* returned as the whole patch does not change any more.                     *)
ShownHunksStay ==
    [][/\ Len(hunks') \in {Len(hunks), Len(hunks) + 1}
       /\ answer = "done" => UNCHANGED hunks
       /\ \A k \in DOMAIN hunks :
             \/ hunks'[k] = hunks[k]
             \/ k = Len(hunks) /\ Len(hunks') = k /\ hunks'[k].path = hunks[k].path]_vars

EmptySections(h) == {k \in DOMAIN h.chunks : ~HasLines(h.chunks[k])}

(* An update in front of another hunk, or in a patch that has ended or that  *)
(* finish has returned, has a section, and each of its sections has lines.   *)
FinishedUpdatesAreWhole ==
    \A k \in DOMAIN hunks : hunks[k].verb = "update" =>
        IF k < Len(hunks) \/ mode = "EndedPatch" \/ answer = "done"
        THEN hunks[k].chunks # <<>> /\ EmptySections(hunks[k]) = {}
        ELSE EmptySections(hunks[k]) \subseteq {Len(hunks[k].chunks)}

(* However context, added and removed lines alternate, the context pairs of  *)
(* a section advance on both sides and name equal lines: what FileUpdate     *)
(* takes for granted.                                                        *)
SectionsAreAligned ==
    \A k \in DOMAIN hunks : hunks[k].verb = "update" =>
        \A m \in DOMAIN hunks[k].chunks : ContextPairsInOrder(hunks[k].chunks[m])

OldTexts == FlattenSeq([k \in DOMAIN Chunks |-> Chunks[k].old_lines])

NewTexts == FlattenSeq([k \in DOMAIN Chunks |-> Chunks[k].new_lines])

(* What a line adds to the side that takes lines of these signs. *)
Adding(l, signs) == IF Sign(l) \in signs THEN <<ContentText(l)>> ELSE <<>>

Texts(signs) == FlattenSeq([n \in DOMAIN body |-> Adding(body[n], signs)])

(* No content line of a hunk is lost, doubled or moved, over all sections    *)
(* and across errors.                                                        *)
EveryLineIsInItsHunk ==
    hunks # <<>> =>
        /\ LastHunk.verb = "add" => LastHunk.contents = Texts({"+"})
        /\ LastHunk.verb = "update" =>
              OldTexts = Texts({" ", "-"}) /\ NewTexts = Texts({" ", "+"})

(* The environment of a patch is fixed before its first hunk, once.          *)
EnvironmentIsFixed ==
    [][/\ environment_id # None \/ hunks # <<>> => UNCHANGED environment_id]_vars

(* Nothing follows the end-of-file marker in its section. *)
EndOfFileClosesSection ==
    [][\A k \in DOMAIN hunks : hunks[k].verb = "update" =>
          \A m \in DOMAIN hunks[k].chunks :
              hunks[k].chunks[m].is_end_of_file => hunks'[k].chunks[m] = hunks[k].chunks[m]]_vars
=============================================================================
