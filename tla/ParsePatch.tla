----------------------------- MODULE ParsePatch -----------------------------
(***************************************************************************)
(* parse_patch of parser.rs: from the text of a patch, which may have      *)
(* white space around it and may still be wrapped as a heredoc, to hunks.  *)
(*                                                                         *)
(* A text is a sequence of lines.  A line is a marker or a whole hunk: how *)
(* the lines of a hunk, blank ones included, become the hunk is the matter *)
(* of StreamingParser.  The line that begins the patch stands for an       *)
(* environment id behind it too.                                           *)
(*                                                                         *)
(* A line may end in any number of carriage returns.  Markers and paths    *)
(* are compared without the white space around them; the lines of a hunk   *)
(* that are added, removed or kept lose one carriage return at a time.     *)
(***************************************************************************)
EXTENDS Naturals, Sequences

CONSTANTS
    Hunks,         \* the hunks a text can hold
    Stripped,      \* of each hunk, the one whose lines have a carriage return
                   \* less at their end, where there is one
    None,
    Failed,        \* a ParseError
    BeginPatch,    \* *** Begin Patch, with or without white space around it
    EndPatch,      \* *** End Patch, likewise
    HeredocStart,  \* <<EOF, <<'EOF' or <<"EOF"
    HeredocEnd,    \* a line that ends with EOF
    BlankLine,     \* white space only
    OtherLines     \* lines that are none of these

Lines ==
    Hunks \cup OtherLines
    \cup {BeginPatch, EndPatch, HeredocStart, HeredocEnd, BlankLine}

(* patch.trim().lines(): from the first line that is not blank to the last.  *)
Trimmed(text) ==
    LET written == {k \in DOMAIN text : text[k] # BlankLine}
        ends == {e \in written \X written : written \subseteq e[1]..e[2]}
        end == CHOOSE e \in ends : TRUE
    IN  IF ends = {} THEN <<>> ELSE SubSeq(text, end[1], end[2])

(* One carriage return goes with the line feed behind it.  str::lines drops  *)
(* it, and push_delta drops one more.                                        *)
Chomped(lines) ==
    [k \in DOMAIN lines |-> IF lines[k] \in Hunks THEN Stripped[lines[k]] ELSE lines[k]]

(* check_start_and_end_lines_strict, on the first and the last line. *)
StrictBoundaries(lines) ==
    lines # <<>> /\ Head(lines) = BeginPatch /\ lines[Len(lines)] = EndPatch

WrappedAsHeredoc(lines) ==
    /\ Len(lines) >= 4
    /\ Head(lines) = HeredocStart
    /\ lines[Len(lines)] = HeredocEnd

(* What check_patch_boundaries_lenient leaves of the lines, or Failed. *)
PatchLines(lines) ==
    LET inner == SubSeq(lines, 2, Len(lines) - 1)
    IN  IF StrictBoundaries(lines)
        THEN lines
        ELSE IF WrappedAsHeredoc(lines) /\ StrictBoundaries(inner) THEN inner ELSE Failed

(***************************************************************************)
(* What the streaming parser accepts between the first line and the last:  *)
(* hunks, up to one of HunkEnds.  The last line reaches it without a line  *)
(* feed, in finish, which takes an end marker in every mode: also behind   *)
(* another one, with nothing but blank lines in between.                   *)
(***************************************************************************)
HunkEnds(lines) ==
    {n \in 1..(Len(lines) - 1) :
        /\ \A k \in 2..n : lines[k] \in Hunks
        /\ n < Len(lines) - 1 =>
              /\ lines[n + 1] = EndPatch
              /\ \A k \in (n + 2)..(Len(lines) - 1) : lines[k] = BlankLine}

Streams(lines) == HunkEnds(lines) # {}

HunksIn(lines) == SubSeq(lines, 2, CHOOSE n \in HunkEnds(lines) : TRUE)

(* What a text that is a patch is parsed to. *)
ApplyPatchArgs == [patch : Seq(Lines), hunks : Seq(Hunks), workdir : {None}]

(* Mutant of ParsePatch: the text is kept with the end of its wrapper. *)
ParsePatchKeepsWrapper(text) ==
    LET whole == Chomped(Trimmed(text))
        lines == PatchLines(whole)
    IN  IF lines # Failed /\ Streams(lines)
        THEN [patch |-> IF lines = whole THEN lines ELSE Tail(whole),
              hunks |-> HunksIn(Chomped(lines)), workdir |-> None]
        ELSE Failed

(* ApplyPatchArgs, or Failed.  The field patch is the text without wrapper,  *)
(* joined from what str::lines left of its lines.                            *)
ParsePatch(text) ==
    LET lines == PatchLines(Chomped(Trimmed(text)))
    IN  IF lines # Failed /\ Streams(lines)
        THEN [patch |-> lines, hunks |-> HunksIn(Chomped(lines)), workdir |-> None]
        ELSE Failed
=============================================================================
