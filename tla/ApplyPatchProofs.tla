-------------------------- MODULE ApplyPatchProofs --------------------------
(***************************************************************************)
(* Proofs about a call of apply_patch, for every command line, every tree, *)
(* every patch and whatever others write meanwhile:                        *)
(*                                                                         *)
(*   - interception and verification agree, and the engine gets the hunks  *)
(*     that were verified (CallInv).  Both need that what parse_patch keeps*)
(*     of a text parses to these hunks again, with a carriage return less  *)
(*     at the end of their lines (ParsesAgain);                            *)
(*   - within a call the engine runs as ApplyHunks specifies it            *)
(*     (EngineInv), so that what is proved of it holds here, and the exit  *)
(*     code of the executable tells how it ended (CallTyped);              *)
(*   - the changes a host is shown are those of the tree as it was,        *)
(*     wherever nobody else has written since (PreviewInv);                *)
(*   - hunks that keep out of each other's way each do to the tree before  *)
(*     the patch what they would do alone (EachOnItsOwn), so that these    *)
(*     changes are what happens, what the delta says, and can be made.     *)
(***************************************************************************)
EXTENDS ApplyPatch, ApplyHunksEffectProofs

LEMMA TrimmedType ==
    ASSUME NEW text \in Seq(Lines)
    PROVE  Trimmed(text) \in Seq(Lines)
<1> DEFINE written == {k \in DOMAIN text : text[k] # BlankLine}
           ends == {e \in written \X written : written \subseteq e[1]..e[2]}
           end == CHOOSE e \in ends : TRUE
<1>1. CASE ends = {}
  BY <1>1 DEF Trimmed
<1>2. CASE ends # {}
  <2>1. Trimmed(text) = SubSeq(text, end[1], end[2])
    BY <1>2 DEF Trimmed
  <2>2. end \in ends
    BY <1>2
  <2> HIDE DEF end
  <2>3. end[1] \in 1..Len(text) /\ end[2] \in 1..Len(text) /\ Len(text) \in Nat
    BY <2>2
  <2>4. SubSeq(text, end[1], end[2]) \in Seq(Lines)
    BY <2>3
  <2> QED BY <2>1, <2>4
<1> QED BY <1>1, <1>2

(* Nothing is trimmed of lines that begin and end with a marker. *)
LEMMA BoundedIsTrimmed ==
    ASSUME NEW lines \in Seq(Lines), StrictBoundaries(lines)
    PROVE  Trimmed(lines) = lines
<1> DEFINE written == {k \in DOMAIN lines : lines[k] # BlankLine}
           ends == {e \in written \X written : written \subseteq e[1]..e[2]}
           end == CHOOSE e \in ends : TRUE
<1>1. /\ Len(lines) \in Nat /\ DOMAIN lines = 1..Len(lines)
      /\ 1 <= Len(lines)
      /\ lines[1] = BeginPatch /\ lines[Len(lines)] = EndPatch
  BY DEF StrictBoundaries
<1>2. 1 \in written /\ Len(lines) \in written
  BY <1>1, CallAssumption
<1>3. written \subseteq 1..Len(lines)
  BY <1>1
<1>4. <<1, Len(lines)>> \in ends
  BY <1>2, <1>3
<1>5. end \in ends
  BY <1>4
<1> HIDE DEF end
<1>6. end[1] = 1 /\ end[2] = Len(lines)
  BY <1>1, <1>2, <1>3, <1>5
<1>7. SubSeq(lines, 1, Len(lines)) = lines
  OBVIOUS
<1> QED BY <1>4, <1>6, <1>7 DEF Trimmed, end

LEMMA PatchLinesFacts ==
    ASSUME NEW lines \in Seq(Lines), PatchLines(lines) # Failed
    PROVE  /\ PatchLines(lines) \in Seq(Lines)
           /\ StrictBoundaries(PatchLines(lines))
<1>1. CASE StrictBoundaries(lines)
  BY <1>1 DEF PatchLines
<1> DEFINE inner == SubSeq(lines, 2, Len(lines) - 1)
<1>2. CASE /\ ~StrictBoundaries(lines)
           /\ WrappedAsHeredoc(lines)
           /\ StrictBoundaries(inner)
  <2>1. PatchLines(lines) = inner
    BY <1>2 DEF PatchLines
  <2>2. Len(lines) \in Nat /\ Len(lines) >= 4
    BY <1>2 DEF WrappedAsHeredoc
  <2>3. inner \in Seq(Lines)
    BY <2>2
  <2> QED BY <1>2, <2>1, <2>3
<1>3. CASE ~StrictBoundaries(lines) /\ ~(WrappedAsHeredoc(lines) /\ StrictBoundaries(inner))
  BY <1>3 DEF PatchLines
<1> QED BY <1>1, <1>2, <1>3

(* A line stays what it is without its carriage return: a marker the same    *)
(* marker, a hunk a hunk.                                                    *)
LEMMA ChompedFacts ==
    ASSUME NEW lines \in Seq(Lines)
    PROVE  /\ Chomped(lines) \in Seq(Lines) /\ Len(Chomped(lines)) = Len(lines)
           /\ \A k \in 1..Len(lines) :
                 /\ lines[k] \in Hunks <=> Chomped(lines)[k] \in Hunks
                 /\ lines[k] \in Hunks => Chomped(lines)[k] = Stripped[lines[k]]
                 /\ lines[k] \notin Hunks => Chomped(lines)[k] = lines[k]
                 /\ \A marker \in {BeginPatch, EndPatch, BlankLine} :
                       Chomped(lines)[k] = marker <=> lines[k] = marker
           /\ StrictBoundaries(lines) => StrictBoundaries(Chomped(lines))
           /\ HunkEnds(Chomped(lines)) = HunkEnds(lines)
<1> DEFINE chomped == Chomped(lines)
<1>1. DOMAIN lines = 1..Len(lines) /\ Len(lines) \in Nat
  OBVIOUS
<1>2. chomped = [k \in 1..Len(lines) |->
                    IF lines[k] \in Hunks THEN Stripped[lines[k]] ELSE lines[k]]
  BY <1>1 DEF Chomped
<1>3. \A k \in 1..Len(lines) :
         /\ lines[k] \in Lines
         /\ chomped[k] = IF lines[k] \in Hunks THEN Stripped[lines[k]] ELSE lines[k]
  BY <1>1, <1>2
<1>4. \A h \in Hunks : Stripped[h] \in Hunks
  BY CallAssumption
<1>5. \A k \in 1..Len(lines) : chomped[k] \in Lines
  BY <1>3, <1>4 DEF Lines
<1>6. chomped \in Seq(Lines) /\ Len(chomped) = Len(lines)
  BY <1>1, <1>2, <1>5
<1>7. {BeginPatch, EndPatch, BlankLine} \cap Hunks = {}
  BY CallAssumption
<1>8. \A k \in 1..Len(lines) :
         /\ lines[k] \in Hunks <=> chomped[k] \in Hunks
         /\ lines[k] \in Hunks => chomped[k] = Stripped[lines[k]]
         /\ lines[k] \notin Hunks => chomped[k] = lines[k]
         /\ \A marker \in {BeginPatch, EndPatch, BlankLine} : chomped[k] = marker <=> lines[k] = marker
  BY <1>3, <1>4, <1>7
<1> HIDE DEF chomped
<1>9. StrictBoundaries(lines) => StrictBoundaries(chomped)
  <2> SUFFICES ASSUME StrictBoundaries(lines) PROVE StrictBoundaries(chomped)
    OBVIOUS
  <2>1. 1 <= Len(lines) /\ lines[1] = BeginPatch /\ lines[Len(lines)] = EndPatch
    BY <1>1 DEF StrictBoundaries
  <2>2. chomped[1] = BeginPatch /\ chomped[Len(chomped)] = EndPatch
    BY <1>1, <1>6, <1>8, <2>1
  <2> QED BY <1>6, <2>1, <2>2 DEF StrictBoundaries
<1>10. HunkEnds(chomped) = HunkEnds(lines)
  <2> SUFFICES ASSUME NEW n \in 1..(Len(lines) - 1)
               PROVE  n \in HunkEnds(chomped) <=> n \in HunkEnds(lines)
    BY <1>6 DEF HunkEnds
  <2>1. /\ 2..n \subseteq 1..Len(lines) /\ (n + 2)..(Len(lines) - 1) \subseteq 1..Len(lines)
        /\ n < Len(lines) - 1 => n + 1 \in 1..Len(lines)
    BY <1>1
  <2>2. (\A k \in 2..n : lines[k] \in Hunks) <=> \A k \in 2..n : chomped[k] \in Hunks
    BY <1>8, <2>1
  <2>3. (\A k \in (n + 2)..(Len(lines) - 1) : lines[k] = BlankLine)
          <=> \A k \in (n + 2)..(Len(lines) - 1) : chomped[k] = BlankLine
    BY <1>8, <2>1
  <2>4. n < Len(lines) - 1 => (lines[n + 1] = EndPatch <=> chomped[n + 1] = EndPatch)
    BY <1>8, <2>1
  <2> QED BY <1>6, <2>2, <2>3, <2>4 DEF HunkEnds
<1> QED BY <1>6, <1>8, <1>9, <1>10 DEF chomped

LEMMA HunksInFacts ==
    ASSUME NEW lines \in Seq(Lines), Streams(lines)
    PROVE  /\ HunksIn(lines) \in Seq(Hunks)
           /\ Streams(Chomped(lines))
           /\ HunksIn(Chomped(lines))
                 = [k \in DOMAIN HunksIn(lines) |-> Stripped[HunksIn(lines)[k]]]
<1> DEFINE n == CHOOSE n \in HunkEnds(lines) : TRUE
           chomped == Chomped(lines)
<1>1. n \in HunkEnds(lines)
  BY DEF Streams
<1>2. /\ chomped \in Seq(Lines) /\ Len(chomped) = Len(lines)
      /\ \A k \in 1..Len(lines) : lines[k] \in Hunks => chomped[k] = Stripped[lines[k]]
      /\ HunkEnds(chomped) = HunkEnds(lines)
  BY ChompedFacts
<1>3. HunksIn(lines) = SubSeq(lines, 2, n) /\ HunksIn(chomped) = SubSeq(chomped, 2, n)
  BY <1>2 DEF HunksIn
<1>4. Streams(chomped)
  BY <1>2 DEF Streams
<1> HIDE DEF n, chomped
<1>5. Len(lines) \in Nat /\ n \in 1..(Len(lines) - 1) /\ \A k \in 2..n : lines[k] \in Hunks
  BY <1>1 DEF HunkEnds
<1>6. /\ SubSeq(lines, 2, n) = [k \in 1..(n - 1) |-> lines[k + 1]]
      /\ SubSeq(chomped, 2, n) = [k \in 1..(n - 1) |-> chomped[k + 1]]
  BY <1>2, <1>5
<1>7. \A k \in 1..(n - 1) : k + 1 \in 1..Len(lines) /\ lines[k + 1] \in Hunks
  BY <1>5
<1>8. SubSeq(lines, 2, n) \in Seq(Hunks) /\ DOMAIN SubSeq(lines, 2, n) = 1..(n - 1)
  BY <1>5, <1>6, <1>7
<1>9. SubSeq(chomped, 2, n) = [k \in 1..(n - 1) |-> Stripped[SubSeq(lines, 2, n)[k]]]
  <2>1. \A k \in 1..(n - 1) : chomped[k + 1] = Stripped[lines[k + 1]]
    BY <1>2, <1>7
  <2>2. \A k \in 1..(n - 1) : SubSeq(lines, 2, n)[k] = lines[k + 1]
    BY <1>6
  <2>3. \A k \in 1..(n - 1) : chomped[k + 1] = Stripped[SubSeq(lines, 2, n)[k]]
    BY <2>1, <2>2
  <2>4. SubSeq(chomped, 2, n) = [k \in 1..(n - 1) |-> chomped[k + 1]]
    BY <1>6
  <2> DEFINE lefts == SubSeq(lines, 2, n)
  <2>5. \A k \in 1..(n - 1) : chomped[k + 1] = Stripped[lefts[k]]
    BY <2>3
  <2> HIDE DEF lefts
  <2>6. SubSeq(chomped, 2, n) = [k \in 1..(n - 1) |-> Stripped[lefts[k]]]
    BY <2>4, <2>5, Zenon
  <2> QED BY <2>6 DEF lefts
<1> QED BY <1>3, <1>4, <1>8, <1>9 DEF chomped

(* The text that parse_patch keeps has no wrapper and no white space around  *)
(* it any more; parsed again it gives the same hunks but for a carriage      *)
(* return at the end of their lines.                                         *)
LEMMA ParsesAgain ==
    ASSUME NEW text \in Seq(Lines), ParsePatch(text) # Failed
    PROVE  LET once == ParsePatch(text)
               again == ParsePatch(once.patch)
           IN  /\ again # Failed
               /\ again.hunks = [k \in DOMAIN once.hunks |-> Stripped[once.hunks[k]]]
               /\ once.hunks \in Seq(Hunks)
               /\ once.patch \in Seq(Lines)
<1> DEFINE lines == PatchLines(Chomped(Trimmed(text)))
<1>1. lines # Failed /\ Streams(lines)
  BY DEF ParsePatch
<1>2. ParsePatch(text) = [patch |-> lines, hunks |-> HunksIn(Chomped(lines)), workdir |-> None]
  BY <1>1 DEF ParsePatch
<1>3. lines \in Seq(Lines) /\ StrictBoundaries(lines)
  <2>1. Chomped(Trimmed(text)) \in Seq(Lines)
    BY TrimmedType, ChompedFacts
  <2> QED BY <1>1, <2>1, PatchLinesFacts
<1> HIDE DEF lines
<1> DEFINE chomped == Chomped(lines)
<1>4. chomped \in Seq(Lines) /\ StrictBoundaries(chomped) /\ Streams(chomped)
  BY <1>1, <1>3, ChompedFacts, HunksInFacts
<1>5. HunksIn(chomped) \in Seq(Hunks)
      /\ HunksIn(Chomped(chomped)) = [k \in DOMAIN HunksIn(chomped) |-> Stripped[HunksIn(chomped)[k]]]
  <2> HIDE DEF chomped
  <2> QED BY <1>4, HunksInFacts
<1>6. Trimmed(lines) = lines
  BY <1>3, BoundedIsTrimmed
<1> HIDE DEF chomped
<1>7. PatchLines(chomped) = chomped /\ Chomped(Trimmed(lines)) = chomped
  BY <1>4, <1>6 DEF PatchLines, chomped
<1>8. chomped # Failed /\ ParsePatch(lines) # Failed
      /\ ParsePatch(lines).hunks = HunksIn(Chomped(chomped))
  <2> DEFINE stripped == [k \in DOMAIN HunksIn(chomped) |-> Stripped[HunksIn(chomped)[k]]]
             again == [patch |-> chomped, hunks |-> stripped, workdir |-> None]
  <2>1. chomped # Failed
    BY <1>4, CallAssumption
  <2>2. stripped \in Seq(Hunks)
    <3>1. \A h \in Hunks : Stripped[h] \in Hunks
      BY CallAssumption
    <3>2. \A k \in 1..Len(HunksIn(chomped)) : Stripped[HunksIn(chomped)[k]] \in Hunks
      BY <1>5, <3>1
    <3> QED BY <1>5, <3>2
  <2>3. again \in ApplyPatchArgs
    BY <1>4, <2>2 DEF ApplyPatchArgs
  <2>4. again # Failed
    BY <2>3, CallAssumption
  <2>5. ParsePatch(lines)
           = [patch |-> chomped, hunks |-> HunksIn(Chomped(chomped)), workdir |-> None]
    BY <1>4, <1>7, <2>1 DEF ParsePatch
  <2>6. ParsePatch(lines) = again
    <3>1. HunksIn(Chomped(chomped)) = stripped
      BY <1>5
    <3> HIDE DEF stripped
    <3> QED BY <2>5, <3>1
  <2>7. ParsePatch(lines).hunks = HunksIn(Chomped(chomped))
    BY <2>5
  <2> HIDE DEF again
  <2> QED BY <2>1, <2>4, <2>6, <2>7
<1> QED BY <1>2, <1>3, <1>5, <1>8 DEF chomped

-----------------------------------------------------------------------------
VerifiedPaths == {Rooted(args.hunks[k], args.workdir).path : k \in 1..verified}

(* The command was a patch, and the paths verified so far were all different. *)
Verifying ==
    /\ caller.kind = "host"
    /\ InterceptsCommand(caller.argv, caller.convention)
    /\ args.patch \in Seq(Lines)
    /\ ParsePatch(args.patch) # Failed
    /\ ParsePatch(args.patch).hunks = [k \in DOMAIN args.hunks |-> Stripped[args.hunks[k]]]
    /\ args.hunks \in Seq(Hunks)
    /\ args.workdir \in DOMAIN Under
    /\ verified \in 0..Len(args.hunks)
    /\ DOMAIN predicted = VerifiedPaths
    /\ IsFiniteSet(VerifiedPaths)
    /\ Cardinality(VerifiedPaths) = verified

HandedOver ==
    /\ verified = Len(args.hunks)
    /\ hunks = [k \in DOMAIN args.hunks |-> Rooted(Stripped[args.hunks[k]], args.workdir)]

CallInv ==
    /\ caller \in Callers
    /\ phase = "asked" => answer = None /\ verified = 0 /\ DOMAIN predicted = {}
    /\ phase \in {"verifying", "verified"} => Verifying
    /\ phase = "verifying" => answer = None
    /\ phase = "verified" => verified = Len(args.hunks)
    /\ FromHost => Verifying /\ HandedOver
    /\ InterceptionAgrees

(* The text of a command, wherever it comes from, is a sequence of lines. *)
LEMMA CommandText ==
    ASSUME NEW c \in Callers, c.kind = "host",
           MaybeParseApplyPatch(c.argv, c.convention).tag = "Body"
    PROVE  \E text \in Seq(Lines) : \E workdir :
              /\ ParsePatch(text) # Failed
              /\ MaybeParseApplyPatch(c.argv, c.convention).args
                    = [ParsePatch(text) EXCEPT !.workdir = workdir]
<1> DEFINE argv == c.argv
           shell_script == ShellScript(argv, c.convention)
           script == shell_script.script
           command == MaybeParseApplyPatch(argv, c.convention)
<1>1. \A k \in 1..Len(argv) :
         /\ argv[k].lines \in Seq(Lines)
         /\ argv[k].script # Failed =>
               \A j \in 1..Len(argv[k].script) :
                   argv[k].script[j].heredoc \in Seq(Lines) \cup {None}
  BY CallAssumption
<1>2. ASSUME NEW text \in Seq(Lines), NEW workdir, command = Parsed(text, workdir)
      PROVE  /\ ParsePatch(text) # Failed
             /\ command.args = [ParsePatch(text) EXCEPT !.workdir = workdir]
  BY <1>2 DEF Parsed
<1>3. CASE Len(argv) = 2 /\ argv[1].word \in ApplyPatchCommands
  <2>1. command = Parsed(argv[2].lines, None)
    <3>1. Len(argv) # 3 /\ Len(argv) # 4
      BY <1>3
    <3>2. shell_script = None
      BY <3>1 DEF ShellScript
    <3> QED BY <1>3, <3>2 DEF MaybeParseApplyPatch
  <2>2. argv[2].lines \in Seq(Lines)
    BY <1>1, <1>3
  <2> QED BY <1>2, <2>1, <2>2
<1>4. CASE /\ ~(Len(argv) = 2 /\ argv[1].word \in ApplyPatchCommands)
           /\ shell_script # None /\ script # Failed /\ IsHeredocCall(script)
  <2>1. command = Parsed(script[1].heredoc, Workdir(script[1]))
    BY <1>4 DEF MaybeParseApplyPatch
  <2>2. \E k \in 1..Len(argv) : shell_script = argv[k]
    BY <1>4 DEF ShellScript
  <2>3. script[1].heredoc \in Seq(Lines)
    BY <1>1, <1>4, <2>2 DEF IsHeredocCall
  <2> QED BY <1>2, <2>1, <2>3
<1>5. CASE /\ ~(Len(argv) = 2 /\ argv[1].word \in ApplyPatchCommands)
           /\ ~(shell_script # None /\ script # Failed /\ IsHeredocCall(script))
  BY <1>5 DEF MaybeParseApplyPatch
<1> QED BY <1>3, <1>4, <1>5

LEMMA HunksStay == ASSUME Step PROVE UNCHANGED hunks
BY DEF Step, RejectEmptyPatch, RejectPath, StartAdd, StartDelete, StartUpdate,
       ReadDestination, RejectDestination, Write, WriteMissesParent, CreateParent,
       WriteError, CheckNotDirectory, RemoveSource, RemoveError, ConfirmSource,
       PrintSummary, patch

-----------------------------------------------------------------------------
LEMMA CallInitial == CallInit => CallInv
BY DEF CallInit, CallInv, FromHost, InterceptionAgrees

LEMMA CommandParsed == ASSUME CallInv, ParseCommand PROVE CallInv'
<1> USE DEF ParseCommand, Answer
<1>1. /\ caller \in Callers /\ caller.kind = "host" /\ UNCHANGED caller
      /\ verified = 0 /\ DOMAIN predicted = {} /\ UNCHANGED <<verified, predicted>>
      /\ answer = None
  BY DEF CallInv
<1>2. CASE RefuseCommand
  <2>1. phase' = "refused" /\ answer' = "CorrectnessError"
    BY <1>2 DEF RefuseCommand
  <2>2. InterceptsCommand(caller.argv, caller.convention)
    BY <1>2 DEF RefuseCommand, InterceptsCommand, IsImplicit, ParsedCommand
  <2> QED BY <1>1, <2>1, <2>2 DEF CallInv, FromHost, InterceptionAgrees
<1>3. CASE PassCommandOn
  <2>1. phase' = "refused" /\ answer' \in {"ShellParseError", "NotApplyPatch"}
    BY <1>3 DEF PassCommandOn
  <2>2. ~InterceptsCommand(caller.argv, caller.convention)
    BY <1>3 DEF PassCommandOn, InterceptsCommand, IsImplicit, ParsedCommand
  <2> QED BY <1>1, <2>1, <2>2 DEF CallInv, FromHost, InterceptionAgrees
<1>4. CASE AcceptCommand
  <2>1. phase' = "verifying" /\ answer' = None
    BY <1>1, <1>4 DEF AcceptCommand
  <2>2. InterceptsCommand(caller.argv, caller.convention)
    BY <1>4 DEF AcceptCommand, InterceptsCommand, ParsedCommand
  <2>3. PICK text \in Seq(Lines) :
           \E workdir : /\ ParsePatch(text) # Failed
                        /\ args' = [ParsePatch(text) EXCEPT !.workdir = workdir]
    BY <1>1, <1>4, CommandText DEF AcceptCommand, ParsedCommand
  <2>4. /\ args'.patch = ParsePatch(text).patch /\ args'.hunks = ParsePatch(text).hunks
        /\ args'.workdir \in DOMAIN Under
    BY <1>4, <2>3 DEF ParsePatch, AcceptCommand
  <2>5. /\ ParsePatch(args'.patch) # Failed
        /\ ParsePatch(args'.patch).hunks
              = [k \in DOMAIN args'.hunks |-> Stripped[args'.hunks[k]]]
        /\ args'.hunks \in Seq(Hunks) /\ args'.patch \in Seq(Lines)
    BY <2>3, <2>4, ParsesAgain
  <2>6. /\ VerifiedPaths' = {} /\ verified' \in 0..Len(args'.hunks)
        /\ IsFiniteSet({}) /\ Cardinality({}) = 0
    BY <1>1, <2>5, FS_EmptySet DEF VerifiedPaths
  <2>7. Verifying'
    BY <1>1, <2>2, <2>4, <2>5, <2>6 DEF Verifying
  <2> QED BY <1>1, <2>1, <2>7 DEF CallInv, FromHost, InterceptionAgrees
<1> QED BY <1>2, <1>3, <1>4

(* A hunk that is verified adds one path: AlreadyTargeted let it pass. *)
LEMMA HunkVerified == ASSUME CallInv, VerifyHunk PROVE CallInv'
<1> DEFINE p == NextHunk.path
<1>1. /\ phase = "verifying" /\ Verifying /\ caller \in Callers /\ answer = None
      /\ verified < Len(args.hunks) /\ UNCHANGED <<caller, args, hunks>>
  BY DEF CallInv, VerifyHunk, vars, patch
<1>2. CASE Answer("CorrectnessError") /\ UNCHANGED <<verified, predicted>>
  BY <1>1, <1>2 DEF CallInv, Answer, FromHost, InterceptionAgrees, Verifying
<1>3. CASE /\ ~AlreadyTargeted(p)
           /\ verified' = verified + 1
           /\ DOMAIN predicted' = DOMAIN predicted \cup {p}
           /\ UNCHANGED <<phase, answer>>
  <2>1. verified \in Nat /\ verified' \in 0..Len(args.hunks)
    BY <1>1, <1>3 DEF Verifying
  <2>2. VerifiedPaths' = VerifiedPaths \cup {p}
    <3>1. 1..verified' = 1..verified \cup {verified + 1}
      BY <1>3, <2>1
    <3> QED BY <1>1, <1>3, <3>1 DEF VerifiedPaths, NextHunk
  <2>3. p \notin VerifiedPaths
    BY <1>1, <1>3 DEF Verifying, AlreadyTargeted
  <2>4. IsFiniteSet(VerifiedPaths') /\ Cardinality(VerifiedPaths') = verified'
    BY <1>1, <1>3, <2>2, <2>3, FS_AddElement DEF Verifying
  <2>5. Verifying'
    BY <1>1, <1>3, <2>1, <2>2, <2>4 DEF Verifying
  <2> QED BY <1>1, <1>3, <2>5 DEF CallInv, FromHost, InterceptionAgrees
<1> QED BY <1>1, <1>2, <1>3 DEF VerifyHunk

LEMMA VerificationFinished == ASSUME CallInv, FinishVerification PROVE CallInv'
BY DEF CallInv, FinishVerification, Answer, Verifying, VerifiedPaths, FromHost,
       InterceptionAgrees

LEMMA OthersInterfere == ASSUME CallInv, Interfere PROVE CallInv'
BY DEF CallInv, Interfere, verification, patch, Verifying, VerifiedPaths, FromHost,
       HandedOver, InterceptionAgrees

LEMMA VerifiedHandedOver == ASSUME CallInv, ApplyVerified PROVE CallInv'
<1>1. /\ phase = "verified" /\ Verifying /\ verified = Len(args.hunks)
      /\ UNCHANGED <<caller, answer, args, verified, predicted>>
      /\ phase' = "applying"
  BY DEF CallInv, ApplyVerified, verification, ApplyText
<1>2. hunks' = [k \in DOMAIN args.hunks |-> Rooted(Stripped[args.hunks[k]], args.workdir)]
  BY <1>1 DEF ApplyVerified, ApplyText, Verifying
<1>3. Verifying' /\ HandedOver'
  BY <1>1, <1>2 DEF Verifying, VerifiedPaths, HandedOver
<1> QED BY <1>1, <1>3 DEF CallInv, FromHost, InterceptionAgrees

(* A step of the engine, and a step that changes nothing.                    *)
LEMMA EngineRuns ==
    ASSUME CallInv, UNCHANGED call, UNCHANGED hunks
    PROVE  CallInv'
BY DEF CallInv, call, verification, Verifying, VerifiedPaths, FromHost, HandedOver,
       InterceptionAgrees

(* The executable claims nothing about a verification.                       *)
LEMMA ExecutableRuns ==
    ASSUME CallInv, GiveUp \/ Launch \/ Exit
    PROVE  CallInv'
BY DEF CallInv, GiveUp, Launch, ApplyText, Exit, verification, FromHost, InterceptionAgrees

LEMMA CallStep == ASSUME CallInv, [CallNext]_all PROVE CallInv'
<1>1. CASE ApplyHunksStep
  BY <1>1, EngineRuns, HunksStay DEF ApplyHunksStep
<1>2. CASE UNCHANGED all
  BY <1>2, EngineRuns DEF all, vars, patch
<1>3. CASE CallOver
  BY <1>3, EngineRuns DEF CallOver, all, vars, patch
<1> QED BY <1>1, <1>2, <1>3, CommandParsed, HunkVerified, VerificationFinished,
           OthersInterfere, VerifiedHandedOver, ExecutableRuns DEF CallNext

(* The invariant of a call holds in every state. *)
THEOREM CallInvariance == CallSpec => []CallInv
BY CallInitial, CallStep, PTL DEF CallSpec

-----------------------------------------------------------------------------
(* What intercepts_command claims without reading a file is what the         *)
(* verification answers, for every command line.                             *)
THEOREM Interception == CallSpec => []InterceptionAgrees
<1>1. CallInv => InterceptionAgrees
  BY DEF CallInv
<1> QED BY <1>1, CallInvariance, PTL

-----------------------------------------------------------------------------
VerifiedHunk(k) == Rooted(args.hunks[k], args.workdir)

(* What the engine gets for hunk k. *)
HandedAs(k) ==
    LET h == VerifiedHunk(k)
    IN  /\ hunks[k].verb = h.verb
        /\ hunks[k].path = h.path
        /\ HunkPath(hunks[k]) = HunkPath(h)
        /\ ReadsAlike(k) => hunks[k] = h

(* A carriage return less changes neither what a hunk does nor where. *)
LEMMA StrippedIsAlike ==
    ASSUME NEW h \in Hunks, NEW dir \in DOMAIN Under
    PROVE  LET g == Rooted(Stripped[h], dir)
           IN  /\ g.verb = Rooted(h, dir).verb
               /\ g.path = Rooted(h, dir).path
               /\ HunkPath(g) = HunkPath(Rooted(h, dir))
<1> DEFINE s == Stripped[h]
<1>1. /\ s \in Hunks /\ s.verb = h.verb /\ s.path = h.path
      /\ h.verb = "update" => s.move_path = h.move_path
  BY CallAssumption
<1>2. IsMove(s) <=> IsMove(h)
  BY <1>1 DEF IsMove
<1> HIDE DEF s
<1>3. \A g \in {h, s} :
         /\ Rooted(g, dir).verb = g.verb
         /\ Rooted(g, dir).path = Under[dir][g.path]
         /\ HunkPath(Rooted(g, dir)) = IF IsMove(h) THEN Under[dir][h.move_path]
                                       ELSE Under[dir][h.path]
  <2> SUFFICES ASSUME NEW g \in {h, s}
               PROVE  /\ Rooted(g, dir).verb = g.verb
                      /\ Rooted(g, dir).path = Under[dir][g.path]
                      /\ HunkPath(Rooted(g, dir)) = IF IsMove(h) THEN Under[dir][h.move_path]
                                                    ELSE Under[dir][h.path]
    OBVIOUS
  <2>1. /\ g \in AllHunks /\ g.path = h.path /\ (IsMove(g) <=> IsMove(h))
        /\ IsMove(h) => g.move_path = h.move_path
    BY <1>1, <1>2, PatchAssumption DEF IsMove
  <2>2. CASE IsMove(g)
    <3>1. g \in [verb : {"update"}, path : Paths, move_path : Option(Paths), chunks : Edits]
      BY <2>1, <2>2 DEF AllHunks, IsMove
    <3>2. g.move_path \in Paths
      BY <2>2, <3>1 DEF IsMove, Option
    <3>3. Under[dir][g.move_path] \in Paths
      BY <3>2, CallAssumption
    <3>4. Rooted(g, dir) = [verb |-> g.verb, path |-> Under[dir][g.path],
                            move_path |-> Under[dir][g.move_path], chunks |-> g.chunks]
      BY <2>2, <3>1 DEF Rooted
    <3>5. Under[dir][g.move_path] # None
      BY <3>3, StorageAssumption
    <3> QED BY <2>1, <2>2, <3>4, <3>5 DEF HunkPath, IsMove
  <2>3. CASE ~IsMove(g)
    <3>1. Rooted(g, dir) = [g EXCEPT !.path = Under[dir][@]]
      BY <2>3 DEF Rooted
    <3>2. CASE g \in [verb : {"add"}, path : Paths, contents : Texts]
      <4>1. Rooted(g, dir)
              = [verb |-> "add", path |-> Under[dir][g.path], contents |-> g.contents]
        BY <3>1, <3>2
      <4> QED BY <2>1, <2>3, <3>2, <4>1 DEF HunkPath, IsMove
    <3>3. CASE g \in [verb : {"delete"}, path : Paths]
      <4>1. Rooted(g, dir) = [verb |-> "delete", path |-> Under[dir][g.path]]
        BY <3>1, <3>3
      <4> QED BY <2>1, <2>3, <3>3, <4>1 DEF HunkPath, IsMove
    <3>4. CASE g \in [verb : {"update"}, path : Paths, move_path : Option(Paths), chunks : Edits]
      <4>1. Rooted(g, dir) = [verb |-> "update", path |-> Under[dir][g.path],
                              move_path |-> g.move_path, chunks |-> g.chunks]
        BY <3>1, <3>4
      <4>2. g.move_path = None
        BY <2>3, <3>4 DEF IsMove
      <4> QED BY <2>1, <2>3, <3>4, <4>1, <4>2 DEF HunkPath, IsMove
    <3> QED BY <2>1, <3>2, <3>3, <3>4 DEF AllHunks
  <2> QED BY <2>2, <2>3
<1> QED BY <1>1, <1>3 DEF s

LEMMA HunksHanded ==
    ASSUME Verifying, HandedOver
    PROVE  /\ DOMAIN hunks = 1..verified /\ Len(hunks) = verified /\ verified = Len(args.hunks)
           /\ \A k \in DOMAIN hunks : HandedAs(k)
<1>1. /\ DOMAIN args.hunks = 1..Len(args.hunks) /\ Len(args.hunks) \in Nat
      /\ verified = Len(args.hunks)
  BY DEF Verifying, HandedOver
<1>2. DOMAIN hunks = 1..verified /\ Len(hunks) = verified
  BY <1>1 DEF HandedOver
<1>3. ASSUME NEW k \in DOMAIN hunks PROVE HandedAs(k)
  <2>1. hunks[k] = Rooted(Stripped[args.hunks[k]], args.workdir)
    BY <1>1, <1>2 DEF HandedOver
  <2>2. args.hunks[k] \in Hunks /\ args.workdir \in DOMAIN Under
    BY <1>1, <1>2 DEF Verifying
  <2> QED BY <2>1, <2>2, StrippedIsAlike DEF HandedAs, VerifiedHunk, ReadsAlike
<1> QED BY <1>1, <1>2, <1>3

(* The engine gets the hunks that were verified, in number and order, each   *)
(* with its verb, source and destination: apply_patch_with_options parses    *)
(* the text of the action to them.  Contents and chunks are the verified     *)
(* ones too, of every hunk none of whose lines ended in a carriage return.   *)
THEOREM HandOver == CallSpec => []AppliedIsVerified
<1>1. CallInv => AppliedIsVerified
  <2> SUFFICES ASSUME CallInv, FromHost PROVE AppliedIsVerified
    BY DEF AppliedIsVerified
  <2>1. Verifying /\ HandedOver
    BY DEF CallInv
  <2>2. /\ DOMAIN hunks = 1..verified /\ Len(hunks) = verified /\ verified = Len(args.hunks)
        /\ \A k \in DOMAIN hunks : HandedAs(k)
    BY <2>1, HunksHanded
  <2>3. {hunks[k].path : k \in DOMAIN hunks} = VerifiedPaths
    BY <2>2 DEF HandedAs, VerifiedPaths, VerifiedHunk
  <2>4. ASSUME NEW k \in DOMAIN hunks
        PROVE  LET h == Rooted(args.hunks[k], args.workdir)
               IN  /\ hunks[k].verb = h.verb /\ hunks[k].path = h.path
                   /\ HunkPath(hunks[k]) = HunkPath(h)
                   /\ ReadsAlike(k) => hunks[k] = h
    BY <2>2 DEF HandedAs, VerifiedHunk
  <2> QED BY <2>1, <2>2, <2>3, <2>4 DEF Verifying, AppliedIsVerified
<1> QED BY <1>1, CallInvariance, PTL

-----------------------------------------------------------------------------
(***************************************************************************)
(* The engine in a call.  It is idle until a patch is handed to it, while  *)
(* others may change the tree; from then on it is the engine ApplyHunks    *)
(* specifies, and what is proved of its steps holds of the call.           *)
(***************************************************************************)
Idle ==
    /\ i = 1 /\ pc = "hunk" /\ hunks = <<>>
    /\ changes = <<>> /\ exact = TRUE
    /\ affected = [verb \in {"add", "update", "delete"} |-> <<>>]

(* A patch has been handed over and no step taken, or the text did not parse. *)
Fresh ==
    /\ i = 1 /\ pc \in {"hunk", "failed"}
    /\ pc = "failed" => hunks = <<>>
    /\ fs = fs0
    /\ changes = <<>> /\ exact = TRUE
    /\ affected = [verb \in {"add", "update", "delete"} |-> <<>>]

Applying == Meaning /\ Logged /\ Listed /\ ExactUnlessOpaque

EngineInv ==
    /\ IInv
    /\ phase \in {"applying", "exited"} => Applying
    /\ phase \notin {"applying", "exited"} => Idle
    /\ phase = "asked" => fs = fs0

LEMMA FreshApplies == IInv /\ Fresh => Applying
<1> SUFFICES ASSUME IInv, Fresh PROVE Applying
  OBVIOUS
<1>1. i = 1 /\ i - 1 = 0 /\ 0..0 = {0} /\ 1..0 = {} /\ fs0 \in [Files -> Nodes]
  BY DEF Fresh, IInv, TypeOK
<1>2. Base = fs0 /\ fs = Base
  BY <1>1, TreesUnrolled DEF Base, Fresh
<1>3. AppliedSoFar
  BY <1>1, TreesUnrolled DEF AppliedSoFar
<1>4. HunksTakeEffectInOrder
  BY <1>2 DEF HunksTakeEffectInOrder, Base
<1>5. pc = "failed" => i \notin DOMAIN hunks
  BY DEF Fresh
<1>6. Meaning
  BY <1>2, <1>3, <1>4, <1>5 DEF Fresh, Meaning, Writing, StoppedWhereItMust
<1>7. Logged
  BY <1>1 DEF Fresh, Logged, HalfMoved, Removing
<1>8. Listed
  <2> SUFFICES ASSUME NEW verb \in {"add", "update", "delete"}
               PROVE  Enumerates(<<>>, <<>>, verb, 0)
    BY <1>1 DEF Listed, Fresh
  <2>1. DOMAIN <<>> = {} /\ <<>> \in [{} -> {}]
    OBVIOUS
  <2> QED BY <1>1, <2>1 DEF Enumerates
<1> QED BY <1>6, <1>7, <1>8 DEF Applying, ExactUnlessOpaque, Fresh

LEMMA RootedHunks ==
    ASSUME NEW relative \in Seq(Hunks), NEW dir \in DOMAIN Under
    PROVE  [k \in DOMAIN relative |-> Rooted(relative[k], dir)] \in Seq(Hunks)
<1>1. \A k \in DOMAIN relative : Rooted(relative[k], dir) \in Hunks
  BY CallAssumption
<1>2. DOMAIN relative = 1..Len(relative) /\ Len(relative) \in Nat
  OBVIOUS
<1> QED BY <1>1, <1>2

LEMMA EngineInitial == CallInit => EngineInv
<1> SUFFICES ASSUME CallInit PROVE EngineInv
  OBVIOUS
<1>1. fs \in [Files -> Nodes] /\ dirs \subseteq Dirs /\ fs0 = fs
  BY PatchAssumption DEF CallInit, WellFormedTree
<1>2. TypeOK
  BY <1>1 DEF CallInit, TypeOK, StorageTypeOK, Running, Option
<1>3. Shape /\ Tracked
  BY DEF CallInit, Shape, Tracked, AtHunk, Writing, Removing
<1> QED BY <1>1, <1>2, <1>3 DEF CallInit, EngineInv, IInv, Idle

(* The hand-over: the hunks of the text, joined to the directory. *)
LEMMA EngineStarts ==
    ASSUME EngineInv, phase \notin {"applying", "exited"},
           NEW text \in Seq(Lines), NEW dir \in DOMAIN Under, NEW follow \in BOOLEAN,
           ApplyText(text, dir, follow)
    PROVE  EngineInv'
<1>1. /\ phase' = "applying" /\ follow_symlinks' = follow /\ fs0' = fs /\ fs' = fs
      /\ UNCHANGED <<dirs, i, original_contents, overwritten_content, new_contents,
                     changes, exact, affected>>
  BY DEF ApplyText, storage, locals
<1>2. Idle /\ IInv /\ TypeOK
  BY DEF EngineInv, IInv
<1>3. /\ pc' \in {"hunk", "failed"}
      /\ pc' = "failed" => hunks' = <<>>
      /\ hunks' \in Seq(Hunks)
  <2>1. CASE ParsePatch(text) = Failed
    BY <1>2, <2>1 DEF ApplyText, Idle
  <2>2. CASE ParsePatch(text) # Failed
    <3>1. ParsePatch(text).hunks \in Seq(Hunks)
      BY <2>2, ParsesAgain
    <3>2. /\ pc' = pc
          /\ hunks' = [k \in DOMAIN ParsePatch(text).hunks |->
                          Rooted(ParsePatch(text).hunks[k], dir)]
      BY <2>2 DEF ApplyText
    <3> QED BY <1>2, <3>1, <3>2, RootedHunks DEF Idle
  <2> QED BY <2>1, <2>2
<1>4. TypeOK'
  <2>1. /\ i' = 1 /\ i' \in 1..(Len(hunks') + 1) /\ changes' = <<>> /\ exact' = TRUE
        /\ affected' = affected
    BY <1>1, <1>2, <1>3 DEF Idle
  <2>2. StorageTypeOK' /\ fs0' \in [Files -> Nodes]
    BY <1>1, <1>2 DEF TypeOK, StorageTypeOK
  <2>3. /\ pc' \in Running \cup {"succeeded", "failed"}
        /\ pc' \notin Running \ {"hunk", "report"}
    BY <1>3 DEF Running
  <2>4. /\ original_contents' \in Option(Texts) /\ overwritten_content' \in Option(Texts)
        /\ new_contents' \in Option(Texts)
        /\ affected' \in [{"add", "update", "delete"} -> Seq(Paths)]
        /\ changes' \in Seq(Changes) /\ exact' \in BOOLEAN
    BY <1>1, <1>2 DEF TypeOK
  <2>5. follow_symlinks' \in BOOLEAN
    BY <1>1
  <2> QED BY <1>3, <2>1, <2>2, <2>3, <2>4, <2>5 DEF TypeOK
<1>5. Shape' /\ Tracked'
  <2>1. pc' \notin {"dest", "write", "mkdir", "retry", "check_dir", "remove", "confirm"}
    BY <1>3
  <2>2. AtHunk' => i' \in DOMAIN hunks'
    BY <1>1, <1>2, <1>3 DEF AtHunk, Idle
  <2> QED BY <2>1, <2>2 DEF Shape, Tracked, Writing, Removing
<1>6. IInv' /\ Fresh'
  <2>1. Fresh'
    BY <1>1, <1>2, <1>3 DEF Fresh, Idle
  <2> QED BY <2>1, <1>4, <1>5 DEF IInv
<1>7. Applying'
  BY <1>6, FreshApplies, PTL
<1> QED BY <1>1, <1>6, <1>7 DEF EngineInv

LEMMA EngineLaunched == ASSUME EngineInv, CallInv, Launch PROVE EngineInv'
<1>1. caller \in Callers /\ caller.kind = "main" /\ Main!EarlyExit(caller) = None /\ phase = "asked"
  BY DEF CallInv, Launch
<1>2. Main!PatchArg(caller) \in Seq(Lines) \cup {Failed}
  <2>1. caller.args \in Seq(Seq(Lines) \cup {Failed}) /\ caller.stdin \in Seq(Lines) \cup {Failed}
    BY <1>1, CallAssumption
  <2> QED BY <2>1 DEF Main!PatchArg
<1>3. Main!PatchArg(caller) # Failed
  BY <1>1, CallAssumption DEF Main!EarlyExit
<1> QED BY <1>1, <1>2, <1>3, EngineStarts, CallAssumption DEF Launch

LEMMA EngineHandedOver == ASSUME EngineInv, CallInv, ApplyVerified PROVE EngineInv'
<1>1. phase = "verified" /\ Verifying
  BY DEF CallInv, ApplyVerified
<1>2. args.patch \in Seq(Lines)
  BY <1>1 DEF Verifying
<1>3. PICK follow \in FollowSymlinks : ApplyText(args.patch, args.workdir, follow)
  BY DEF ApplyVerified
<1>4. follow \in BOOLEAN /\ args.workdir \in DOMAIN Under
  BY <1>1, PatchAssumption DEF Verifying
<1> QED BY <1>1, <1>2, <1>3, <1>4, EngineStarts

(* Others change the tree before the engine has started. *)
LEMMA EngineWaits == ASSUME EngineInv, Interfere PROVE EngineInv'
<1>1. /\ phase \in {"verifying", "verified"} /\ Idle /\ TypeOK
      /\ UNCHANGED <<phase, dirs, fs0, hunks, follow_symlinks, i, pc, changes, exact, affected,
                     original_contents, overwritten_content, new_contents>>
  BY DEF EngineInv, Interfere, IInv, patch, engine, locals
<1>2. fs' \in [Files -> Nodes]
  <2>1. PICK d \in Disturbances : fs' = [fs EXCEPT ![d.place] = d.node]
    BY DEF Interfere
  <2>2. d.node \in Nodes
    BY CallAssumption DEF Nodes
  <2> QED BY <1>1, <2>1, <2>2 DEF TypeOK, StorageTypeOK
<1>3. TypeOK'
  BY <1>1, <1>2 DEF TypeOK, StorageTypeOK
<1>4. Idle' /\ Shape' /\ Tracked'
  BY <1>1 DEF Idle, Shape, Tracked, AtHunk, Writing, Removing
<1> QED BY <1>1, <1>3, <1>4 DEF EngineInv, IInv

LEMMA StepApplies == IInv /\ Applying /\ [Next]_vars => IInv' /\ Applying'
<1> SUFFICES ASSUME IInv, Applying, [Next]_vars PROVE IInv' /\ Applying'
  OBVIOUS
<1>1. IInv'
  BY StepInvariant
<1>2. Meaning' /\ Logged' /\ Listed' /\ ExactUnlessOpaque'
  BY <1>1, StepMeaning, StepLogged, StepListed, StepExact DEF Applying
<1> QED BY <1>1, <1>2 DEF Applying

LEMMA EngineStays ==
    ASSUME EngineInv, UNCHANGED vars,
           \/ phase' = phase
           \/ {phase, phase'} \subseteq {"applying", "exited"}
           \/ phase \notin {"applying", "exited"} /\ phase' \in {"verifying", "verified", "refused"}
    PROVE  EngineInv'
<1>1. IInv /\ IInv'
  BY StepInvariant DEF EngineInv
<1>2. Applying => Applying'
  BY <1>1, StepApplies
<1>3. Idle => Idle' /\ UNCHANGED <<fs, fs0>>
  BY DEF Idle, vars, patch, locals, storage
<1> QED BY <1>1, <1>2, <1>3 DEF EngineInv

LEMMA EngineGivesUp == ASSUME EngineInv, GiveUp PROVE EngineInv'
<1>1. phase = "asked" /\ phase' = "exited" /\ UNCHANGED vars
  BY DEF GiveUp
<1>2. IInv /\ Fresh
  BY <1>1 DEF EngineInv, Idle, Fresh
<1>3. IInv' /\ Applying'
  BY <1>1, <1>2, FreshApplies, StepApplies
<1> QED BY <1>1, <1>3 DEF EngineInv

LEMMA EngineStep == EngineInv /\ CallInv /\ [CallNext]_all => EngineInv'
<1> SUFFICES ASSUME EngineInv, CallInv, [CallNext]_all PROVE EngineInv'
  OBVIOUS
<1>1. CASE ParseCommand
  BY <1>1, EngineStays DEF ParseCommand, RefuseCommand, PassCommandOn, AcceptCommand, Answer
<1>2. CASE VerifyHunk
  <2>1. phase = "verifying" /\ phase' \in {"verifying", "refused"} /\ UNCHANGED vars
    BY <1>2 DEF VerifyHunk, Answer
  <2> QED BY <2>1, EngineStays
<1>3. CASE FinishVerification
  BY <1>3, EngineStays DEF FinishVerification, Answer
<1>4. CASE ApplyHunksStep
  <2>1. phase = "applying" /\ UNCHANGED phase /\ [Next]_vars
    BY <1>4 DEF ApplyHunksStep, call, Next
  <2>2. IInv' /\ Applying'
    BY <2>1, StepApplies DEF EngineInv
  <2> QED BY <2>1, <2>2 DEF EngineInv
<1>5. CASE Exit
  BY <1>5, EngineStays DEF Exit
<1>6. CASE CallOver \/ UNCHANGED all
  BY <1>6, EngineStays DEF CallOver, all, call
<1> QED BY <1>1, <1>2, <1>3, <1>4, <1>5, <1>6, EngineWaits, EngineHandedOver, EngineGivesUp,
           EngineLaunched DEF CallNext

(* Within a call the engine runs as ApplyHunks specifies it. *)
THEOREM EngineInvariance == CallSpec => []EngineInv
BY CallInvariance, EngineInitial, EngineStep, PTL DEF CallSpec

-----------------------------------------------------------------------------
(***************************************************************************)
(* The types of a call, and the exit code of the executable.               *)
(***************************************************************************)
Outcome ==
    /\ exit_code = 0 => pc = "succeeded"
    /\ exit_code = 2 => pc = "hunk" /\ fs = fs0

CallTyped == CallTypeOK /\ Outcome

LEMMA NextHunkType ==
    ASSUME Verifying, verified < Len(args.hunks)
    PROVE  NextHunk \in AllHunks
<1>1. args.hunks[verified + 1] \in Hunks
  BY DEF Verifying
<1> QED BY <1>1, CallAssumption, PatchAssumption DEF Verifying, NextHunk

LEMMA PredictionTypes ==
    ASSUME StorageTypeOK, NEW h \in AllHunks, NEW change \in Predictions(h), change # Failed
    PROVE  h.path \in Paths /\ change \in PredictedChanges
<1>1. CASE h \in [verb : {"add"}, path : Paths, contents : Texts]
  <2>1. h.verb = "add" /\ h.path \in Paths /\ h.contents \in Texts
    BY <1>1
  <2>2. change = [verb |-> "add", content |-> h.contents]
    BY <2>1 DEF Predictions
  <2> QED BY <2>1, <2>2 DEF PredictedChanges
<1>2. CASE h \in [verb : {"delete"}, path : Paths]
  <2>1. h.verb = "delete" /\ h.path \in Paths
    BY <1>2
  <2>2. PICK read \in Texts : change = [verb |-> "delete", content |-> read]
    BY <2>1 DEF Predictions
  <2> QED BY <2>1, <2>2 DEF PredictedChanges
<1>3. CASE h \in [verb : {"update"}, path : Paths, move_path : Option(Paths), chunks : Edits]
  <2>1. h.verb = "update" /\ h.move_path \in Option(Paths) /\ h.chunks \in Edits
    BY <1>3
  <2>2. PICK update \in Updates(h.path, h.chunks) :
           /\ update # Failed
           /\ change = [verb |-> "update", unified_diff |-> update.unified_diff,
                        move_path |-> h.move_path, new_content |-> update.content]
    BY <2>1 DEF Predictions
  <2>3. PICK read \in DOMAIN h.chunks :
           update = [unified_diff |-> <<read, h.chunks[read]>>, content |-> h.chunks[read]]
    BY <2>2 DEF Updates
  <2>4. read \in Texts /\ h.chunks[read] \in Texts
    BY <2>1, <2>3, PatchAssumption
  <2> QED BY <1>3, <2>1, <2>2, <2>3, <2>4 DEF PredictedChanges
<1> QED BY <1>1, <1>2, <1>3 DEF AllHunks

LEMMA InitTyped == CallInit => CallTyped
<1> SUFFICES ASSUME CallInit PROVE CallTyped
  OBVIOUS
<1>1. StorageTypeOK
  BY PatchAssumption DEF CallInit, WellFormedTree, StorageTypeOK
<1>2. DOMAIN predicted = {}
  BY DEF CallInit
<1> QED BY <1>1, <1>2, CallAssumption DEF CallInit, CallTyped, CallTypeOK, Outcome

LEMMA VerifyTyped == ASSUME CallTyped, CallInv, VerifyHunk PROVE CallTyped'
<1> DEFINE p == NextHunk.path
<1>1. /\ phase = "verifying" /\ Verifying /\ verified < Len(args.hunks)
      /\ UNCHANGED <<caller, args, exit_code, fs, dirs, fs0, pc>>
  BY DEF CallInv, VerifyHunk, vars, storage, patch
<1>2. CASE Answer("CorrectnessError") /\ UNCHANGED <<verified, predicted>>
  BY <1>1, <1>2 DEF CallTyped, CallTypeOK, Outcome, Answer, StorageTypeOK
<1>3. ASSUME NEW change \in Predictions(NextHunk), change # Failed,
             verified' = verified + 1,
             predicted' = [q \in DOMAIN predicted \cup {p} |->
                              IF q = p THEN change ELSE predicted[q]],
             UNCHANGED <<phase, answer>>
      PROVE  CallTyped'
  <2>1. p \in Paths /\ change \in PredictedChanges
    BY <1>1, <1>3, NextHunkType, PredictionTypes DEF CallTyped, CallTypeOK
  <2>2. /\ DOMAIN predicted' \subseteq Paths
        /\ \A q \in DOMAIN predicted' : predicted'[q] \in PredictedChanges
    BY <1>3, <2>1 DEF CallTyped, CallTypeOK
  <2>3. verified' \in 0..Len(args'.hunks)
    BY <1>1, <1>3 DEF Verifying
  <2> QED BY <1>1, <1>3, <2>2, <2>3 DEF CallTyped, CallTypeOK, Outcome, StorageTypeOK
<1>4. \/ Answer("CorrectnessError") /\ UNCHANGED <<verified, predicted>>
      \/ \E change \in Predictions(NextHunk) :
            /\ change # Failed
            /\ verified' = verified + 1
            /\ predicted' = [q \in DOMAIN predicted \cup {p} |->
                                IF q = p THEN change ELSE predicted[q]]
            /\ UNCHANGED <<phase, answer>>
  BY DEF VerifyHunk
<1> QED BY <1>2, <1>3, <1>4

LEMMA StepTyped ==
    CallTyped /\ CallInv /\ CallInv' /\ EngineInv /\ EngineInv' /\ [CallNext]_all => CallTyped'
<1> SUFFICES ASSUME CallTyped, CallInv, CallInv', EngineInv, EngineInv', [CallNext]_all
             PROVE  CallTyped'
  OBVIOUS
<1> USE DEF CallTyped, CallTypeOK, Outcome
<1>1. StorageTypeOK'
  BY DEF EngineInv, IInv, TypeOK
<1>2. CASE ParseCommand
  <2>1. /\ caller.kind = "host" /\ phase = "asked"
        /\ UNCHANGED <<predicted, exit_code, verified, fs, fs0, pc>>
    BY <1>2 DEF ParseCommand, vars, storage, patch
  <2>2. /\ phase' \in {"verifying", "verified", "refused"}
        /\ answer' \in {None, "Body", "CorrectnessError", "ShellParseError", "NotApplyPatch"}
    BY <1>2 DEF ParseCommand, RefuseCommand, PassCommandOn, AcceptCommand, Answer
  <2>3. phase' = "verifying" => verified' \in 0..Len(args'.hunks)
    BY DEF CallInv, Verifying
  <2> QED BY <1>1, <2>1, <2>2, <2>3
<1>3. CASE FinishVerification
  BY <1>1, <1>3 DEF FinishVerification, Answer, vars, storage, patch
<1>4. CASE Interfere
  <2>1. /\ phase \in {"verifying", "verified"}
        /\ UNCHANGED <<phase, answer, args, verified, predicted, exit_code>>
    BY <1>4 DEF Interfere, verification
  <2> QED BY <1>1, <2>1, CallAssumption
<1>5. CASE ApplyVerified \/ Launch
  <2>1. /\ phase' = "applying" /\ phase # "exited"
        /\ UNCHANGED <<answer, args, verified, predicted, exit_code>>
    BY <1>5 DEF ApplyVerified, Launch, ApplyText, verification
  <2> QED BY <1>1, <2>1, CallAssumption
<1>6. CASE GiveUp
  <2>1. /\ phase = "asked" /\ phase' = "exited" /\ exit_code' = Main!EarlyExit(caller)
        /\ exit_code' # None
        /\ UNCHANGED <<answer, args, verified, predicted, fs, fs0, pc>>
    BY <1>6 DEF GiveUp, verification, vars, storage, patch
  <2>2. exit_code' \in {0, 1, 2} /\ exit_code' # 0
    BY <2>1 DEF Main!EarlyExit
  <2>3. pc = "hunk" /\ fs = fs0
    BY <2>1 DEF EngineInv, Idle
  <2> QED BY <1>1, <2>1, <2>2, <2>3
<1>7. CASE Exit
  <2>1. /\ phase = "applying" /\ phase' = "exited" /\ exit_code' \in {0, 1}
        /\ exit_code' = 0 => pc' = "succeeded"
        /\ UNCHANGED <<answer, args, verified, predicted>>
    BY <1>7 DEF Exit, verification, vars, Main!ExitCode
  <2> QED BY <1>1, <2>1, CallAssumption
<1>8. CASE ApplyHunksStep
  <2>1. phase = "applying" /\ UNCHANGED <<phase, answer, args, verified, predicted, exit_code>>
    BY <1>8 DEF ApplyHunksStep, call, verification
  <2> QED BY <1>1, <2>1, CallAssumption
<1>9. CASE CallOver \/ UNCHANGED all
  BY <1>1, <1>9 DEF CallOver, all, call, verification, vars, storage, patch
<1> QED BY <1>2, <1>3, <1>4, <1>5, <1>6, <1>7, <1>8, <1>9, VerifyTyped DEF CallNext

(* The types of a call, and what its exit code goes with. *)
THEOREM CallTypes == CallSpec => []CallTyped
BY CallInvariance, EngineInvariance, InitTyped, StepTyped, PTL DEF CallSpec

(* Every variable of a call has its type in every state. *)
THEOREM CallTypeCorrect == CallSpec => []CallTypeOK
BY CallTypes, PTL DEF CallTyped

(* The executable exits with 0 only if every hunk has taken effect, in       *)
(* order, and with 2 only if nothing was touched.                            *)
THEOREM ExitCodes == CallSpec => []ExitCodeTellsOutcome
<1>1. CallTyped /\ EngineInv => ExitCodeTellsOutcome
  <2> SUFFICES ASSUME CallTyped, EngineInv PROVE ExitCodeTellsOutcome
    OBVIOUS
  <2>1. ASSUME exit_code = 0
        PROVE  /\ hunks # <<>>
               /\ \A k \in DOMAIN hunks : Applicable(hunks[k], TreeAfter[k - 1])
               /\ \A p \in Files : fs[p] = TreeAfter[Len(hunks)][p]
    <3>1. pc = "succeeded" /\ phase = "exited"
      BY <2>1, CallAssumption DEF CallTyped, CallTypeOK, Outcome
    <3>2. IInv /\ Meaning
      BY <3>1 DEF EngineInv, Applying
    <3>3. fs = Base /\ i = Len(hunks) + 1 /\ Len(hunks) \in Nat
      BY <3>1, <3>2 DEF Meaning, IInv, TypeOK
    <3> QED BY <3>1, <3>2, <3>3, MeaningGivesStops DEF StopsOnlyWhereItMust, Base
  <2>2. exit_code = 2 => fs = fs0 /\ pc = "hunk"
    BY DEF CallTyped, Outcome
  <2> QED BY <2>1, <2>2 DEF ExitCodeTellsOutcome
<1> QED BY <1>1, CallTypes, EngineInvariance, PTL

LEMMA EngineInCall == EngineInv => StopsOnlyWhereItMust /\ ExactUnlessOpaque
<1> SUFFICES ASSUME EngineInv PROVE StopsOnlyWhereItMust /\ ExactUnlessOpaque
  OBVIOUS
<1>1. CASE phase \in {"applying", "exited"}
  BY <1>1, MeaningGivesStops DEF EngineInv, Applying
<1>2. CASE phase \notin {"applying", "exited"}
  BY <1>2 DEF EngineInv, Idle, StopsOnlyWhereItMust, ExactUnlessOpaque
<1> QED BY <1>1, <1>2

(* The engine a call starts, on the tree others have left it, succeeds only  *)
(* if every hunk could be applied and stops only at one that could not.      *)
THEOREM CallStopsRightly == CallSpec => []StopsOnlyWhereItMust
BY EngineInvariance, EngineInCall, PTL

(* And it gives up exactness only for a cause in the tree it found.          *)
THEOREM CallExactWithoutCause == CallSpec => []ExactUnlessOpaque
BY EngineInvariance, EngineInCall, PTL

-----------------------------------------------------------------------------
(***************************************************************************)
(* The changes a host is shown, against the tree they were computed from:  *)
(* the tree as it is while hunks are verified, and the one the engine      *)
(* finds when the patch is handed to it.                                   *)
(***************************************************************************)
Seen == IF phase = "applying" THEN fs0 ELSE fs

TextSeen(h) == Seen[At(Seen, h.path)]

Previewable(h) ==
    /\ h.verb = "delete" => TextSeen(h) \in Texts
    /\ h.verb = "update" => TextSeen(h) \in DOMAIN h.chunks

Preview(h) ==
    CASE h.verb = "add" -> [verb |-> "add", content |-> h.contents]
      [] h.verb = "delete" -> [verb |-> "delete", content |-> TextSeen(h)]
      [] h.verb = "update" ->
            [verb |-> "update", unified_diff |-> <<TextSeen(h), h.chunks[TextSeen(h)]>>,
             move_path |-> h.move_path, new_content |-> h.chunks[TextSeen(h)]]

(* The prediction at the path of a hunk is of that hunk, and is still what   *)
(* would be computed now unless others changed what was read.                *)
PredictedAs(h) ==
    /\ h.path \notin Unresolvable
    /\ h.verb = "update" => h.move_path \notin Unresolvable
    /\ predicted[h.path].verb = h.verb
    /\ h.verb = "update" => predicted[h.path].move_path = h.move_path
    /\ {h.path, At(Seen, h.path)} \cap disturbed = {} =>
          Previewable(h) /\ predicted[h.path] = Preview(h)

PreviewInv ==
    phase \in {"verifying", "verified"} \/ FromHost =>
        /\ \A j, k \in 1..verified : VerifiedHunk(j).path = VerifiedHunk(k).path => j = k
        /\ \A k \in 1..verified : PredictedAs(VerifiedHunk(k))

LEMMA ReadSeen ==
    ASSUME NEW p, NEW read \in ReadFileText(p, TRUE), read \in Texts
    PROVE  read = fs[At(fs, p)]
BY StorageAssumption DEF ReadFileText, Faults, Resolve, At

(* What is predicted for a hunk is its preview. *)
LEMMA PredictionFacts ==
    ASSUME phase = "verifying", NEW h \in AllHunks, NEW change \in Predictions(h), change # Failed
    PROVE  /\ change.verb = h.verb
           /\ h.verb = "update" => h.move_path \notin Unresolvable /\ change.move_path = h.move_path
           /\ Previewable(h) /\ change = Preview(h)
<1>1. TextSeen(h) = fs[At(fs, h.path)]
  BY DEF TextSeen, Seen
<1>2. CASE h \in [verb : {"add"}, path : Paths, contents : Texts]
  <2>1. h.verb = "add"
    BY <1>2
  <2> QED BY <2>1 DEF Predictions, Preview, Previewable
<1>3. CASE h \in [verb : {"delete"}, path : Paths]
  <2>1. h.verb = "delete"
    BY <1>3
  <2>2. PICK read \in ReadFileText(h.path, TRUE) :
           read \in Texts /\ change = [verb |-> "delete", content |-> read]
    BY <2>1 DEF Predictions
  <2>3. read = TextSeen(h)
    BY <1>1, <2>2, ReadSeen
  <2> QED BY <2>1, <2>2, <2>3 DEF Preview, Previewable
<1>4. CASE h \in [verb : {"update"}, path : Paths, move_path : Option(Paths), chunks : Edits]
  <2>1. h.verb = "update" /\ h.chunks \in Edits
    BY <1>4
  <2>2. PICK update \in Updates(h.path, h.chunks) :
           /\ update # Failed
           /\ h.move_path \notin Unresolvable
           /\ change = [verb |-> "update", unified_diff |-> update.unified_diff,
                        move_path |-> h.move_path, new_content |-> update.content]
    BY <2>1 DEF Predictions
  <2>3. PICK read \in ReadFileText(h.path, TRUE) :
           /\ read \in DOMAIN h.chunks
           /\ update = [unified_diff |-> <<read, h.chunks[read]>>, content |-> h.chunks[read]]
    BY <2>2 DEF Updates
  <2>4. read \in Texts
    BY <2>1, <2>3, PatchAssumption
  <2>5. read = TextSeen(h)
    BY <1>1, <2>4, ReadSeen
  <2> QED BY <2>1, <2>2, <2>3, <2>5 DEF Preview, Previewable
<1> QED BY <1>2, <1>3, <1>4 DEF AllHunks

LEMMA VerifiedHunkType ==
    ASSUME Verifying, NEW k \in 1..Len(args.hunks)
    PROVE  VerifiedHunk(k) \in Hunks /\ VerifiedHunk(k) \in AllHunks
<1>1. args.hunks[k] \in Hunks
  BY DEF Verifying
<1> QED BY <1>1, CallAssumption, PatchAssumption DEF Verifying, VerifiedHunk

LEMMA PathTypes ==
    ASSUME NEW h \in AllHunks
    PROVE  /\ h.path \in Paths /\ HunkPath(h) \in Paths
           /\ h.verb \in {"add", "update", "delete"}
           /\ IsMove(h) => h.move_path \in Paths /\ HunkPath(h) = h.move_path
           /\ ~IsMove(h) => HunkPath(h) = h.path
           /\ h.verb = "add" => h.contents \in Texts
           /\ h.verb = "update" =>
                 /\ DOMAIN h.chunks \subseteq Texts
                 /\ \A text \in DOMAIN h.chunks : h.chunks[text] \in Texts
                 /\ h.move_path \in Option(Paths)
<1>1. CASE h \in [verb : {"add"}, path : Paths, contents : Texts]
  BY <1>1 DEF IsMove, HunkPath
<1>2. CASE h \in [verb : {"delete"}, path : Paths]
  BY <1>2 DEF IsMove, HunkPath
<1>3. CASE h \in [verb : {"update"}, path : Paths, move_path : Option(Paths), chunks : Edits]
  BY <1>3, PatchAssumption DEF IsMove, HunkPath, Option
<1> QED BY <1>1, <1>2, <1>3 DEF AllHunks

-----------------------------------------------------------------------------
(* The hunk that is verified gets its preview; those before keep theirs. *)
LEMMA PreviewVerified == ASSUME PreviewInv, CallInv, VerifyHunk PROVE PreviewInv'
<1> DEFINE p == NextHunk.path
<1>1. /\ phase = "verifying" /\ Verifying /\ verified < Len(args.hunks)
      /\ UNCHANGED <<caller, args, disturbed, fs, fs0>>
  BY DEF CallInv, VerifyHunk, vars, storage, patch
<1>n. PICK n \in Nat : n = verified + 1
  BY <1>1 DEF Verifying
<1>2. CASE Answer("CorrectnessError") /\ UNCHANGED <<verified, predicted>>
  BY <1>2 DEF PreviewInv, Answer, FromHost
<1>3. ASSUME p \notin Unresolvable, p \notin DOMAIN predicted,
             NEW change \in Predictions(NextHunk), change # Failed,
             verified' = n,
             predicted' = [q \in DOMAIN predicted \cup {p} |->
                              IF q = p THEN change ELSE predicted[q]],
             UNCHANGED <<phase, answer>>
      PROVE  PreviewInv'
  <2>1. /\ verified \in Nat /\ n \in 1..Len(args.hunks)
        /\ 1..n = 1..verified \cup {n} /\ n \notin 1..verified
    BY <1>1, <1>n DEF Verifying
  <2>2. NextHunk = VerifiedHunk(n) /\ NextHunk \in AllHunks
    BY <1>1, <1>n, <2>1, VerifiedHunkType DEF NextHunk, VerifiedHunk
  <2>3. \A k \in 1..n : VerifiedHunk(k)' = VerifiedHunk(k)
    BY <1>1 DEF VerifiedHunk
  <2>4. \A k \in 1..verified : VerifiedHunk(k).path \in DOMAIN predicted /\ VerifiedHunk(k).path # p
    BY <1>1, <1>3 DEF Verifying, VerifiedPaths, VerifiedHunk
  <2>5. \A j, k \in 1..n : VerifiedHunk(j).path = VerifiedHunk(k).path => j = k
    BY <1>1, <2>1, <2>2, <2>4 DEF PreviewInv
  <2>6. Seen' = Seen
    BY <1>1, <1>3 DEF Seen
  <2>7. ASSUME NEW k \in 1..verified PROVE (PredictedAs(VerifiedHunk(k)))'
    <3> DEFINE h == VerifiedHunk(k)
    <3>1. PredictedAs(h) /\ h' = h
      BY <1>1, <2>1, <2>3 DEF PreviewInv
    <3>2. predicted'[h.path] = predicted[h.path]
      BY <1>3, <2>4
    <3> HIDE DEF h
    <3> QED BY <1>1, <2>6, <3>1, <3>2 DEF PredictedAs, Previewable, Preview, TextSeen, h
  <2>8. (PredictedAs(VerifiedHunk(n)))'
    <3> DEFINE h == NextHunk
    <3>1. VerifiedHunk(n)' = h
      BY <2>1, <2>2, <2>3
    <3>2. predicted'[h.path] = change
      BY <1>3
    <3>3. /\ change.verb = h.verb
          /\ h.verb = "update" => h.move_path \notin Unresolvable /\ change.move_path = h.move_path
          /\ Previewable(h) /\ change = Preview(h)
      BY <1>1, <1>3, <2>2, PredictionFacts
    <3> HIDE DEF h
    <3> QED BY <1>1, <1>3, <2>6, <3>1, <3>2, <3>3
            DEF PredictedAs, Previewable, Preview, TextSeen, h
  <2> QED BY <1>3, <2>1, <2>3, <2>5, <2>7, <2>8 DEF PreviewInv
<1>4. \/ Answer("CorrectnessError") /\ UNCHANGED <<verified, predicted>>
      \/ /\ p \notin Unresolvable /\ p \notin DOMAIN predicted
         /\ \E change \in Predictions(NextHunk) :
               /\ change # Failed
               /\ verified' = n
               /\ predicted' = [q \in DOMAIN predicted \cup {p} |->
                                   IF q = p THEN change ELSE predicted[q]]
               /\ UNCHANGED <<phase, answer>>
  BY <1>n DEF VerifyHunk, AlreadyTargeted
<1> QED BY <1>2, <1>3, <1>4

(* What others write is no longer vouched for. *)
LEMMA PreviewDisturbed == ASSUME PreviewInv, CallInv, EngineInv, Interfere PROVE PreviewInv'
<1>1. /\ phase \in {"verifying", "verified"} /\ Verifying
      /\ UNCHANGED <<phase, caller, args, verified, predicted>>
  BY DEF CallInv, Interfere, verification
<1>2. PICK place \in Files : \E node :
         /\ fs' = [fs EXCEPT ![place] = node]
         /\ disturbed' = disturbed \cup {place}
  BY CallAssumption DEF Interfere
<1>3. Seen = fs /\ Seen' = fs' /\ DOMAIN fs = Files
  BY <1>1 DEF Seen, EngineInv, IInv, TypeOK, StorageTypeOK
<1>4. ASSUME NEW k \in 1..verified PROVE (PredictedAs(VerifiedHunk(k)))'
  <2> DEFINE h == VerifiedHunk(k)
  <2>1. PredictedAs(h) /\ h' = h
    BY <1>1 DEF PreviewInv, VerifiedHunk
  <2>2. h.path \in Files /\ Outside \in Files
    <3>1. k \in 1..Len(args.hunks)
      BY <1>1 DEF Verifying
    <3> QED BY <1>1, <3>1, VerifiedHunkType, PathTypes DEF Files
  <2> HIDE DEF h
  <2>3. ASSUME {h.path, At(fs', h.path)} \cap disturbed' = {}
        PROVE  /\ {h.path, At(fs, h.path)} \cap disturbed = {}
               /\ fs'[At(fs', h.path)] = fs[At(fs, h.path)]
    <3>1. place # h.path /\ place # At(fs', h.path)
      BY <1>2, <2>3
    <3>2. fs'[h.path] = fs[h.path]
      BY <1>2, <1>3, <2>2, <3>1
    <3>3. At(fs', h.path) = At(fs, h.path) /\ At(fs, h.path) \in Files
      BY <2>2, <3>2 DEF At
    <3> QED BY <1>2, <1>3, <2>3, <3>1, <3>3
  <2> QED BY <1>1, <1>3, <2>1, <2>3 DEF PredictedAs, Previewable, Preview, TextSeen, h
<1>5. \A k \in 1..verified : VerifiedHunk(k)' = VerifiedHunk(k)
  BY <1>1 DEF VerifiedHunk
<1> QED BY <1>1, <1>4, <1>5 DEF PreviewInv

(* Nothing that counts changes: the tree that was seen is the tree found.    *)
LEMMA PreviewKept ==
    ASSUME PreviewInv, phase \in {"verifying", "verified"} \/ FromHost,
           UNCHANGED <<args, verified, predicted, disturbed, Seen>>
    PROVE  PreviewInv'
<1>1. \A k \in 1..verified : VerifiedHunk(k)' = VerifiedHunk(k)
  BY DEF VerifiedHunk
<1>2. \A k \in 1..verified : (PredictedAs(VerifiedHunk(k)))'
  BY <1>1 DEF PreviewInv, PredictedAs, Previewable, Preview, TextSeen
<1> QED BY <1>1, <1>2 DEF PreviewInv

LEMMA PreviewStep == PreviewInv /\ CallInv /\ EngineInv /\ [CallNext]_all => PreviewInv'
<1> SUFFICES ASSUME PreviewInv, CallInv, EngineInv, [CallNext]_all PROVE PreviewInv'
  OBVIOUS
<1>1. CASE ParseCommand
  <2>1. verified' = 0 /\ UNCHANGED caller
    BY <1>1 DEF ParseCommand, CallInv
  <2> QED BY <2>1 DEF PreviewInv
<1>2. CASE FinishVerification
  <2>1. /\ phase = "verifying" /\ phase' = "verified"
        /\ UNCHANGED <<args, verified, predicted, disturbed, Seen>>
    BY <1>2 DEF FinishVerification, Answer, vars, storage, patch, Seen
  <2> QED BY <2>1, PreviewKept
<1>3. CASE ApplyVerified
  <2>1. phase = "verified" /\ UNCHANGED <<args, verified, predicted, disturbed, Seen>>
    BY <1>3 DEF ApplyVerified, ApplyText, verification, Seen
  <2> QED BY <2>1, PreviewKept
<1>4. CASE GiveUp \/ Launch \/ Exit
  BY <1>4 DEF GiveUp, Launch, ApplyText, Exit, verification, FromHost, PreviewInv
<1>5. ASSUME UNCHANGED <<call, fs0>>, UNCHANGED fs \/ phase = "applying" PROVE PreviewInv'
  <2>1. UNCHANGED <<phase, caller, args, verified, predicted, disturbed, Seen>>
    BY <1>5 DEF call, verification, Seen
  <2>2. CASE phase \in {"verifying", "verified"} \/ FromHost
    BY <2>1, <2>2, PreviewKept
  <2>3. CASE ~(phase \in {"verifying", "verified"} \/ FromHost)
    BY <2>1, <2>3 DEF PreviewInv, FromHost
  <2> QED BY <2>2, <2>3
<1>6. CASE ApplyHunksStep
  <2>1. phase = "applying" /\ UNCHANGED call /\ Step
    BY <1>6 DEF ApplyHunksStep
  <2>2. IInv /\ [Next]_vars
    BY <2>1 DEF EngineInv, Next
  <2>3. UNCHANGED fs0
    BY <2>2, TreeEffects
  <2> QED BY <1>5, <2>1, <2>3
<1>7. CASE CallOver \/ UNCHANGED all
  <2>1. UNCHANGED <<call, fs0, fs>>
    BY <1>7 DEF CallOver, all, vars, storage, patch
  <2> QED BY <1>5, <2>1
<1> QED BY <1>1, <1>2, <1>3, <1>4, <1>6, <1>7, PreviewVerified, PreviewDisturbed DEF CallNext

(* Every change a host is shown is that of its hunk, on the tree as it was   *)
(* where nobody else has changed it since.                                   *)
THEOREM PreviewInvariance == CallSpec => []PreviewInv
<1>1. CallInit => PreviewInv
  BY DEF CallInit, PreviewInv, FromHost
<1> QED BY <1>1, CallInvariance, EngineInvariance, PreviewStep, PTL DEF CallSpec

-----------------------------------------------------------------------------
(***************************************************************************)
(* Hunks that keep out of each other's way.  Each names places no other    *)
(* one names or reaches through a link, so each finds these places as they *)
(* were before the patch, and leaves them as they are after it.            *)
(***************************************************************************)
Places(h, tree) == {h.path, HunkPath(h), At(tree, h.path), At(tree, HunkPath(h))}

LEMMA PlacesAreFiles ==
    ASSUME NEW h \in AllHunks, NEW tree
    PROVE  Places(h, tree) \subseteq Files
BY PathTypes DEF Places, At, Files

LEMMA EffectFrame ==
    ASSUME NEW h \in AllHunks, NEW tree \in [Files -> Nodes],
           NEW q \in Files, q \notin Places(h, tree)
    PROVE  Effect(h, tree)[q] = tree[q]
<1>1. q # h.path /\ q # At(tree, h.path) /\ q # At(tree, HunkPath(h))
  BY DEF Places
<1>2. CASE h.verb = "add"
  BY <1>1, <1>2 DEF Effect, IsMove, IsPlainUpdate
<1>3. CASE h.verb = "delete"
  BY <1>1, <1>3 DEF Effect, IsMove, IsPlainUpdate
<1>4. CASE IsPlainUpdate(h)
  <2>1. h.verb = "update" /\ ~IsMove(h)
    BY <1>4 DEF IsPlainUpdate, IsMove
  <2>2. Effect(h, tree) = [tree EXCEPT ![At(tree, h.path)] = Updated(h, tree)]
    BY <1>4, <2>1 DEF Effect
  <2> QED BY <1>1, <2>2
<1>5. CASE IsMove(h)
  <2>1. h.verb = "update" /\ ~IsPlainUpdate(h) /\ HunkPath(h) = h.move_path
    BY <1>5 DEF IsPlainUpdate, IsMove, HunkPath
  <2>2. Effect(h, tree)
             = [tree EXCEPT ![At(tree, h.move_path)] = Updated(h, tree), ![h.path] = None]
    BY <1>5, <2>1 DEF Effect
  <2> QED BY <1>1, <2>1, <2>2
<1> QED BY <1>2, <1>3, <1>4, <1>5, PathTypes DEF IsMove, IsPlainUpdate

(* What a hunk does at its places depends on nothing else. *)
LEMMA EffectLocal ==
    ASSUME NEW h \in AllHunks, NEW tree \in [Files -> Nodes], NEW seen \in [Files -> Nodes],
           \A q \in Places(h, seen) : tree[q] = seen[q]
    PROVE  /\ Places(h, tree) = Places(h, seen)
           /\ \A q \in Places(h, seen) : Effect(h, tree)[q] = Effect(h, seen)[q]
           /\ Applicable(h, tree) <=> Applicable(h, seen)
           /\ ChangeOf(h, tree) = ChangeOf(h, seen)
<1>1. /\ tree[h.path] = seen[h.path] /\ tree[HunkPath(h)] = seen[HunkPath(h)]
      /\ tree[At(seen, h.path)] = seen[At(seen, h.path)]
      /\ tree[At(seen, HunkPath(h))] = seen[At(seen, HunkPath(h))]
  BY DEF Places
<1>2. At(tree, h.path) = At(seen, h.path) /\ At(tree, HunkPath(h)) = At(seen, HunkPath(h))
  BY <1>1 DEF At
<1>3. Places(h, tree) = Places(h, seen)
  BY <1>2 DEF Places
<1>4. Updated(h, tree) = Updated(h, seen)
  BY <1>1, <1>2 DEF Updated
<1>5. IsMove(h) => HunkPath(h) = h.move_path
  BY PathTypes
<1>6. Applicable(h, tree) <=> Applicable(h, seen)
  BY <1>1, <1>2, <1>5 DEF Applicable, Reachable
<1>7. ChangeOf(h, tree) = ChangeOf(h, seen)
  BY <1>1, <1>4, <1>5 DEF ChangeOf, IsMove, IsPlainUpdate
<1>8. ASSUME NEW q \in Places(h, seen) PROVE Effect(h, tree)[q] = Effect(h, seen)[q]
  <2>1. q \in Files /\ tree[q] = seen[q]
    BY <1>8, PlacesAreFiles
  <2>2. CASE h.verb = "add"
    BY <1>2, <2>1, <2>2 DEF Effect, IsMove, IsPlainUpdate
  <2>3. CASE h.verb = "delete"
    BY <2>1, <2>3 DEF Effect, IsMove, IsPlainUpdate
  <2>4. CASE IsPlainUpdate(h)
    <3>1. h.verb = "update" /\ ~IsMove(h)
      BY <2>4 DEF IsPlainUpdate, IsMove
    <3>2. /\ Effect(h, tree) = [tree EXCEPT ![At(tree, h.path)] = Updated(h, tree)]
          /\ Effect(h, seen) = [seen EXCEPT ![At(seen, h.path)] = Updated(h, seen)]
      BY <2>4, <3>1 DEF Effect
    <3> QED BY <1>2, <1>4, <2>1, <3>2
  <2>5. CASE IsMove(h)
    <3>1. h.verb = "update" /\ ~IsPlainUpdate(h)
      BY <2>5 DEF IsPlainUpdate, IsMove
    <3>2. /\ Effect(h, tree)
               = [tree EXCEPT ![At(tree, h.move_path)] = Updated(h, tree), ![h.path] = None]
          /\ Effect(h, seen)
               = [seen EXCEPT ![At(seen, h.move_path)] = Updated(h, seen), ![h.path] = None]
      BY <2>5, <3>1 DEF Effect
    <3> QED BY <1>2, <1>4, <1>5, <2>1, <2>5, <3>2
  <2> QED BY <2>2, <2>3, <2>4, <2>5, PathTypes DEF IsMove, IsPlainUpdate
<1> QED BY <1>3, <1>6, <1>7, <1>8

SourcesDiffer == \A j, k \in DOMAIN hunks : hunks[j].path = hunks[k].path => j = k

LEMMA PlacesApart ==
    ASSUME IInv, SourcesDiffer, HunksApart, NEW j \in DOMAIN hunks, NEW k \in DOMAIN hunks, j # k
    PROVE  Places(hunks[j], fs0) \cap Places(hunks[k], fs0) = {}
<1> DEFINE Named == UNION {{hunks[m].path, HunkPath(hunks[m])} : m \in DOMAIN hunks}
           a == hunks[j]
           b == hunks[k]
<1>1. a \in AllHunks /\ b \in AllHunks
  BY PatchAssumption DEF IInv, TypeOK
<1>2. a.path \in Named /\ HunkPath(a) \in Named /\ b.path \in Named /\ HunkPath(b) \in Named
  OBVIOUS
<1>3. a.path # b.path
  BY DEF SourcesDiffer
<1>4. /\ IsMove(a) => a.move_path # b.path /\ a.move_path # HunkPath(b)
      /\ IsMove(b) => b.move_path # a.path /\ b.move_path # HunkPath(a)
  BY DEF HunksApart
<1>5. {a.path, HunkPath(a)} \cap {b.path, HunkPath(b)} = {}
  BY <1>3, <1>4 DEF HunkPath
<1>6. \A p, q \in Named : p # q => fs0[p] # Link \/ fs0[q] # Link
  BY DEF HunksApart
<1>7. {a.path, HunkPath(a), b.path, HunkPath(b)} \subseteq Paths /\ Outside \notin Paths
  BY <1>1, PathTypes, StorageAssumption
<1> HIDE DEF Named, a, b
<1>8. \A p \in {a.path, HunkPath(a)} : \A q \in {b.path, HunkPath(b)} :
         {p, At(fs0, p)} \cap {q, At(fs0, q)} = {}
  BY <1>2, <1>5, <1>6, <1>7 DEF At
<1> QED BY <1>8 DEF Places, a, b

(* After n hunks, each of them has done what it does to the tree before the  *)
(* patch, and the others find what was there.                                *)
AsPlanned(n) ==
    \A k \in DOMAIN hunks : \A q \in Places(hunks[k], fs0) :
        TreeAfter[n][q] = IF k <= n THEN Effect(hunks[k], fs0)[q] ELSE fs0[q]

LEMMA HunksAreTyped ==
    ASSUME IInv, NEW k \in DOMAIN hunks
    PROVE  hunks[k] \in AllHunks /\ k \in Nat \ {0} /\ k <= Len(hunks)
BY PatchAssumption DEF IInv, TypeOK

LEMMA EachOnItsOwn ==
    ASSUME IInv, AppliedSoFar, SourcesDiffer, HunksApart
    PROVE  \A n \in 0..(i - 1) : AsPlanned(n)
<1> DEFINE S == {n \in Nat : n <= i - 1 => AsPlanned(n)}
<1>1. i \in Nat \ {0} /\ i <= Len(hunks) + 1 /\ Len(hunks) \in Nat /\ DOMAIN hunks = 1..Len(hunks)
  BY DEF IInv, TypeOK
<1>2. 0 \in S
  <2>1. AsPlanned(0)
    BY <1>1, TreesUnrolled DEF AsPlanned
  <2> QED BY <2>1
<1>3. ASSUME NEW n \in S PROVE n + 1 \in S
  <2> SUFFICES ASSUME n + 1 <= i - 1 PROVE AsPlanned(n + 1)
    OBVIOUS
  <2>1. n \in Nat /\ n + 1 \in DOMAIN hunks /\ n \in 0..(i - 1) /\ AsPlanned(n)
    BY <1>1
  <2> DEFINE h == hunks[n + 1]
             tree == TreeAfter[n]
  <2>2. h \in AllHunks /\ tree \in [Files -> Nodes] /\ fs0 \in [Files -> Nodes]
    BY <2>1, HunksAreTyped DEF AppliedSoFar, IInv, TypeOK
  <2>3. TreeAfter[n + 1] = Effect(h, tree)
    BY <2>1, TreesUnrolled
  <2>4. \A q \in Places(h, fs0) : tree[q] = fs0[q]
    BY <2>1 DEF AsPlanned
  <2> HIDE DEF S, h, tree
  <2>5. /\ Places(h, tree) = Places(h, fs0)
        /\ \A q \in Places(h, fs0) : Effect(h, tree)[q] = Effect(h, fs0)[q]
    BY <2>2, <2>4, EffectLocal
  <2>6. ASSUME NEW k \in DOMAIN hunks, NEW q \in Places(hunks[k], fs0)
        PROVE  TreeAfter[n + 1][q] = IF k <= n + 1 THEN Effect(hunks[k], fs0)[q] ELSE fs0[q]
    <3>1. CASE k = n + 1
      BY <2>1, <2>3, <2>5, <2>6, <3>1 DEF h
    <3>2. CASE k # n + 1
      <4>1. q \notin Places(h, tree)
        BY <2>1, <2>5, <2>6, <3>2, PlacesApart DEF h
      <4>2. q \in Files
        BY <2>6, HunksAreTyped, PlacesAreFiles
      <4>3. TreeAfter[n + 1][q] = tree[q]
        BY <2>2, <2>3, <4>1, <4>2, EffectFrame
      <4>4. k <= n + 1 <=> k <= n
        BY <1>1, <2>1, <3>2
      <4> QED BY <2>1, <2>6, <4>3, <4>4 DEF AsPlanned, tree
    <3> QED BY <3>1, <3>2
  <2> QED BY <2>6 DEF AsPlanned
<1>4. S = Nat
  <2>1. S \in SUBSET Nat
    OBVIOUS
  <2> HIDE DEF S
  <2> QED BY <1>2, <1>3, <2>1, SetInduction
<1> QED BY <1>1, <1>4

-----------------------------------------------------------------------------
HostInv == CallInv /\ EngineInv /\ PreviewInv

LEMMA HostFacts ==
    ASSUME HostInv, FromHost
    PROVE  /\ IInv /\ Meaning /\ Logged
           /\ Len(hunks) = Len(args.hunks)
           /\ DOMAIN predicted = {hunks[k].path : k \in DOMAIN hunks}
           /\ SourcesDiffer
           /\ \A k \in DOMAIN hunks : ReadsAlike(k) => PredictedAs(hunks[k])
           /\ Seen = fs0
<1>1. IInv /\ Meaning /\ Logged /\ Verifying /\ HandedOver /\ phase = "applying"
  BY DEF HostInv, CallInv, EngineInv, Applying, FromHost
<1>2. /\ DOMAIN hunks = 1..verified /\ Len(hunks) = verified /\ verified = Len(args.hunks)
      /\ \A k \in DOMAIN hunks : HandedAs(k)
  BY <1>1, HunksHanded
<1>3. DOMAIN predicted = {hunks[k].path : k \in DOMAIN hunks}
  <2>1. DOMAIN predicted = {Rooted(args.hunks[k], args.workdir).path : k \in 1..verified}
    BY <1>1 DEF Verifying, VerifiedPaths
  <2>2. \A k \in 1..verified : hunks[k].path = Rooted(args.hunks[k], args.workdir).path
    BY <1>2 DEF HandedAs, VerifiedHunk
  <2> QED BY <1>2, <2>1, <2>2
<1>4. SourcesDiffer /\ \A k \in DOMAIN hunks : ReadsAlike(k) => PredictedAs(hunks[k])
  BY <1>2 DEF HostInv, PreviewInv, SourcesDiffer, HandedAs
<1>5. Seen = fs0
  BY <1>1 DEF Seen
<1> QED BY <1>1, <1>2, <1>3, <1>4, <1>5

(* The hunk of a path that nobody has disturbed, before and after a success. *)
LEMMA HunkOfPath ==
    ASSUME HostInv, FromHost, pc = "succeeded", HunksApart,
           NEW p \in DOMAIN predicted, Undisturbed(p), PathReadsAlike(p)
    PROVE  \E k \in DOMAIN hunks :
              /\ hunks[k].path = p
              /\ hunks[k] \in AllHunks
              /\ Previewable(hunks[k]) /\ predicted[p] = Preview(hunks[k])
              /\ PredictedDestination(p) = IF IsMove(hunks[k]) THEN hunks[k].move_path ELSE None
              /\ Applicable(hunks[k], fs0)
              /\ \A q \in Places(hunks[k], fs0) : fs[q] = Effect(hunks[k], fs0)[q]
              /\ ChangeOf(hunks[k], TreeAfter[k - 1]) = ChangeOf(hunks[k], fs0)
<1>1. /\ IInv /\ Meaning /\ SourcesDiffer /\ Seen = fs0
      /\ DOMAIN predicted = {hunks[k].path : k \in DOMAIN hunks}
      /\ \A k \in DOMAIN hunks : ReadsAlike(k) => PredictedAs(hunks[k])
  BY HostFacts
<1>2. PICK k \in DOMAIN hunks : hunks[k].path = p
  BY <1>1
<1> DEFINE h == hunks[k]
<1>3. h \in AllHunks /\ p \in Paths /\ h.path = p /\ PredictedAs(h)
  BY <1>1, <1>2, HunksAreTyped, PathTypes DEF PathReadsAlike
<1>4. /\ i = Len(hunks) + 1 /\ Len(hunks) \in Nat /\ fs = TreeAfter[i - 1] /\ AppliedSoFar
      /\ DOMAIN hunks = 1..(i - 1) /\ k \in 1..(i - 1)
  BY <1>1 DEF Meaning, Base, IInv, TypeOK
<1>5. \A n \in 0..(i - 1) : AsPlanned(n)
  BY <1>1, <1>4, EachOnItsOwn
<1>6. \A q \in Places(h, fs0) : fs[q] = Effect(h, fs0)[q]
  BY <1>4, <1>5 DEF AsPlanned
<1>7. \A q \in Places(h, fs0) : TreeAfter[k - 1][q] = fs0[q]
  <2>1. k - 1 \in 0..(i - 1) /\ ~(k <= k - 1)
    BY <1>4
  <2> QED BY <1>5, <2>1 DEF AsPlanned
<1>8. TreeAfter[k - 1] \in [Files -> Nodes] /\ fs0 \in [Files -> Nodes]
  BY <1>1, <1>4 DEF AppliedSoFar, IInv, TypeOK
<1>9. Applicable(h, TreeAfter[k - 1])
  BY <1>4 DEF AppliedSoFar
<1> HIDE DEF h
<1>10. Applicable(h, fs0) /\ ChangeOf(h, TreeAfter[k - 1]) = ChangeOf(h, fs0)
  BY <1>3, <1>7, <1>8, <1>9, EffectLocal
<1>11. {p, At(Seen, p)} \cap disturbed = {}
  <2>1. p # None
    BY <1>3, StorageAssumption
  <2> QED BY <1>1, <2>1 DEF Undisturbed
<1>12. Previewable(h) /\ predicted[p] = Preview(h)
  BY <1>3, <1>11 DEF PredictedAs
<1>13. PredictedDestination(p) = IF IsMove(h) THEN h.move_path ELSE None
  BY <1>3 DEF PredictedAs, PredictedDestination, IsMove
<1> QED BY <1>2, <1>3, <1>6, <1>10, <1>12, <1>13 DEF h

LEMMA EffectHappens ==
    ASSUME IInv, NEW h \in AllHunks, h.path \in DOMAIN predicted,
           Seen = fs0, Previewable(h), predicted[h.path] = Preview(h),
           PredictedDestination(h.path) = IF IsMove(h) THEN h.move_path ELSE None,
           \A q \in Places(h, fs0) : fs[q] = Effect(h, fs0)[q],
           IsMove(h) => h.move_path # h.path
    PROVE  Happened(h.path)
<1>1. /\ fs0 \in [Files -> Nodes]
      /\ {h.path, At(fs0, h.path), HunkPath(h), At(fs0, HunkPath(h))} \subseteq Files
      /\ h.path \in Paths /\ HunkPath(h) \in Paths /\ Outside \notin Paths
      /\ IsMove(h) => HunkPath(h) = h.move_path
      /\ ~IsMove(h) => HunkPath(h) = h.path
  BY PlacesAreFiles, PathTypes, StorageAssumption DEF Places, IInv, TypeOK
<1>2. /\ fs[h.path] = Effect(h, fs0)[h.path]
      /\ fs[HunkPath(h)] = Effect(h, fs0)[HunkPath(h)]
      /\ fs[At(fs0, HunkPath(h))] = Effect(h, fs0)[At(fs0, HunkPath(h))]
  BY DEF Places
<1>3. Link \notin Texts /\ None # Link
  BY StorageAssumption
<1>4. CASE h.verb = "add"
  <2>1. /\ h.contents \in Texts /\ HunkPath(h) = h.path
        /\ Effect(h, fs0) = [fs0 EXCEPT ![At(fs0, h.path)] = h.contents]
    BY <1>1, <1>4, PathTypes DEF Effect, IsMove, IsPlainUpdate
  <2>2. fs[Resolve(h.path)] = h.contents
    BY <1>1, <1>2, <1>3, <2>1 DEF Resolve, At
  <2>3. predicted[h.path] = [verb |-> "add", content |-> h.contents]
    BY <1>4 DEF Preview
  <2> QED BY <2>2, <2>3 DEF Happened
<1>5. CASE h.verb = "delete"
  <2>1. Effect(h, fs0) = [fs0 EXCEPT ![h.path] = None]
    BY <1>5 DEF Effect, IsMove, IsPlainUpdate
  <2>2. fs[h.path] = None
    BY <1>1, <1>2, <2>1
  <2>3. predicted[h.path] = [verb |-> "delete", content |-> TextSeen(h)]
    BY <1>5 DEF Preview
  <2> QED BY <2>2, <2>3 DEF Happened
<1>6. CASE IsPlainUpdate(h)
  <2>1. h.verb = "update" /\ ~IsMove(h) /\ HunkPath(h) = h.path
    BY <1>1, <1>6 DEF IsPlainUpdate, IsMove
  <2>2. /\ Effect(h, fs0) = [fs0 EXCEPT ![At(fs0, h.path)] = Updated(h, fs0)]
        /\ Updated(h, fs0) = h.chunks[TextSeen(h)] /\ Updated(h, fs0) \in Texts
    BY <1>6, <2>1, PathTypes DEF Effect, Updated, TextSeen, Previewable
  <2>3. fs[Resolve(h.path)] = Updated(h, fs0)
    BY <1>1, <1>2, <1>3, <2>1, <2>2 DEF Resolve, At
  <2> QED BY <2>1, <2>2, <2>3 DEF Happened, Preview
<1>7. CASE IsMove(h)
  <2>1. h.verb = "update" /\ ~IsPlainUpdate(h) /\ HunkPath(h) = h.move_path
        /\ h.move_path # None /\ h.move_path # h.path
    BY <1>1, <1>7 DEF IsPlainUpdate, IsMove
  <2>2. /\ Effect(h, fs0)
              = [fs0 EXCEPT ![At(fs0, h.move_path)] = Updated(h, fs0), ![h.path] = None]
        /\ Updated(h, fs0) = h.chunks[TextSeen(h)] /\ Updated(h, fs0) \in Texts
    BY <1>7, <2>1, PathTypes DEF Effect, Updated, TextSeen, Previewable
  <2>3. At(fs0, h.move_path) # h.path
    BY <1>1, <2>1 DEF At
  <2>4. fs[h.path] = None /\ fs[At(fs0, h.move_path)] = Updated(h, fs0)
    BY <1>1, <1>2, <2>1, <2>2, <2>3
  <2>5. fs[Resolve(h.move_path)] = Updated(h, fs0)
    <3>1. CASE fs0[h.move_path] = Link
      <4>1. fs[h.move_path] = Link
        BY <1>1, <1>2, <2>1, <2>2, <3>1 DEF At
      <4> QED BY <2>4, <3>1, <4>1 DEF Resolve, At
    <3>2. CASE fs0[h.move_path] # Link
      BY <1>3, <2>2, <2>4, <3>2 DEF Resolve, At
    <3> QED BY <3>1, <3>2
  <2> QED BY <1>7, <2>1, <2>2, <2>4, <2>5 DEF Happened, Preview
<1> QED BY <1>4, <1>5, <1>6, <1>7, PathTypes DEF IsMove, IsPlainUpdate

LEMMA HostInvariance == CallSpec => []HostInv
BY CallInvariance, EngineInvariance, PreviewInvariance, PTL DEF HostInv

(* The changes a host was shown are what happens: once a verified patch has  *)
(* been applied by hunks that keep out of each other's way, every path that  *)
(* nobody else has changed since is as predicted, if its hunk has no lines   *)
(* that end in a carriage return.                                            *)
THEOREM Predicted == CallSpec => []PredictionIsWhatHappens
<1>1. HostInv => PredictionIsWhatHappens
  <2> SUFFICES ASSUME HostInv, FromHost, pc = "succeeded", HunksApart,
                      NEW p \in DOMAIN predicted, Undisturbed(p), PathReadsAlike(p)
               PROVE  Happened(p)
    BY DEF PredictionIsWhatHappens
  <2>1. PICK k \in DOMAIN hunks :
           /\ hunks[k].path = p
           /\ hunks[k] \in AllHunks
           /\ Previewable(hunks[k]) /\ predicted[p] = Preview(hunks[k])
           /\ PredictedDestination(p) = IF IsMove(hunks[k]) THEN hunks[k].move_path ELSE None
           /\ \A q \in Places(hunks[k], fs0) : fs[q] = Effect(hunks[k], fs0)[q]
    BY HunkOfPath
  <2>2. IsMove(hunks[k]) => hunks[k].move_path # hunks[k].path
    BY DEF HunksApart
  <2> QED BY <2>1, <2>2, HostFacts, EffectHappens
<1> QED BY <1>1, HostInvariance, PTL

(* The delta of the application says of such a path what the diff shown      *)
(* before said: the same old text and the same new one.                      *)
THEOREM PreviewAndDelta == CallSpec => []PreviewMatchesDelta
<1>1. HostInv => PreviewMatchesDelta
  <2> SUFFICES ASSUME HostInv, FromHost, pc = "succeeded", exact, HunksApart,
                      NEW p \in DOMAIN predicted, Undisturbed(p), PathReadsAlike(p)
               PROVE  \E k \in DOMAIN changes : RecordedAsPredicted(p, changes[k])
    BY DEF PreviewMatchesDelta
  <2>1. IInv /\ Meaning /\ Logged /\ Seen = fs0
    BY HostFacts
  <2>2. PICK k \in DOMAIN hunks :
           /\ hunks[k].path = p
           /\ hunks[k] \in AllHunks
           /\ Previewable(hunks[k]) /\ predicted[p] = Preview(hunks[k])
           /\ ChangeOf(hunks[k], TreeAfter[k - 1]) = ChangeOf(hunks[k], fs0)
    BY HunkOfPath
  <2> DEFINE h == hunks[k]
             c == changes[k]
  <2>3. /\ i = Len(hunks) + 1 /\ Len(changes) = i - 1 /\ k \in 1..(i - 1) /\ k \in DOMAIN changes
        /\ c = ChangeOf(h, fs0) /\ c \in Changes
    <3>1. i = Len(hunks) + 1 /\ Len(hunks) \in Nat /\ k \in 1..(i - 1) /\ ~HalfMoved
      BY <2>1 DEF Meaning, IInv, TypeOK, HalfMoved, Removing
    <3>2. /\ Len(changes) = i - 1 /\ changes \in Seq(Changes)
          /\ changes[k] = ChangeOf(hunks[k], TreeAfter[k - 1])
      BY <2>1, <3>1 DEF Logged, IInv, TypeOK
    <3> QED BY <2>2, <3>1, <3>2
  <2> HIDE DEF h, c
  <2>4. h.path = p /\ h \in AllHunks /\ Previewable(h) /\ predicted[p] = Preview(h)
    BY <2>2 DEF h
  <2>5. RecordedAsPredicted(p, c)
    <3>1. Link \notin Texts
      BY StorageAssumption
    <3>2. CASE h.verb = "add"
      <4>1. /\ c = Add(p, h.contents, fs0[p])
            /\ predicted[p] = [verb |-> "add", content |-> h.contents]
        BY <2>3, <2>4, <3>2 DEF ChangeOf, IsMove, IsPlainUpdate, Preview
      <4> QED BY <4>1 DEF RecordedAsPredicted, Add
    <3>3. CASE h.verb = "delete"
      <4>1. /\ c = Delete(p, fs0[p])
            /\ predicted[p] = [verb |-> "delete", content |-> TextSeen(h)]
        BY <2>3, <2>4, <3>3 DEF ChangeOf, IsMove, IsPlainUpdate, Preview
      <4>2. fs0[p] \in Texts
        BY <2>3, <4>1 DEF Changes, Delete
      <4>3. TextSeen(h) = fs0[p]
        BY <2>1, <2>4, <3>1, <4>2 DEF TextSeen, At
      <4> QED BY <4>1, <4>3 DEF RecordedAsPredicted, Delete
    <3>4. CASE h.verb = "update"
      <4>1. PICK overwritten :
               c = Update(p, h.move_path, fs0[p], overwritten, Updated(h, fs0))
        BY <2>3, <2>4, <3>4 DEF ChangeOf, IsMove, IsPlainUpdate
      <4>2. predicted[p] = [verb |-> "update",
                            unified_diff |-> <<TextSeen(h), h.chunks[TextSeen(h)]>>,
                            move_path |-> h.move_path, new_content |-> h.chunks[TextSeen(h)]]
        BY <2>4, <3>4 DEF Preview
      <4>3. fs0[p] \in Texts
        BY <2>3, <4>1 DEF Changes, Update
      <4>4. TextSeen(h) = fs0[p] /\ Updated(h, fs0) = h.chunks[fs0[p]]
        BY <2>1, <2>4, <3>1, <4>3 DEF TextSeen, At, Updated
      <4> QED BY <4>1, <4>2, <4>4 DEF RecordedAsPredicted, Update
    <3> QED BY <2>4, <3>2, <3>3, <3>4, PathTypes
  <2> QED BY <2>3, <2>5 DEF c
<1> QED BY <1>1, HostInvariance, PTL

(* A patch that verifies can be applied: on a tree that has not changed and  *)
(* a storage that does not fail, following links as the verification did,    *)
(* only a directory at a path that is written can stop it, or a hunk whose   *)
(* lines end in a carriage return.                                           *)
THEOREM VerifiedApplies == CallSpec => []VerifiedPatchesApply
<1>1. HostInv => VerifiedPatchesApply
  <2> SUFFICES ASSUME HostInv, FromHost, pc = "failed", disturbed = {}, follow_symlinks,
                      HunksApart, ~StorageMayFail, ~(i > Len(hunks)),
                      fs[HunkPath(Hunk)] # Directory, ReadsAlike(i)
               PROVE  FALSE
    BY DEF VerifiedPatchesApply
  <2>1. /\ IInv /\ Meaning /\ SourcesDiffer /\ Seen = fs0
        /\ \A k \in DOMAIN hunks : ReadsAlike(k) => PredictedAs(hunks[k])
    BY HostFacts
  <2>2. /\ i \in DOMAIN hunks /\ i \in Nat \ {0}
        /\ i - 1 \in 0..(i - 1) /\ ~(i <= i - 1)
    BY <2>1 DEF IInv, TypeOK
  <2>3. ~Applicable(Hunk, Base) /\ fs = Base /\ AppliedSoFar
    BY <2>1, <2>2 DEF Meaning, StoppedWhereItMust
  <2>4. /\ Hunk \in AllHunks /\ PredictedAs(Hunk)
        /\ Base \in [Files -> Nodes] /\ fs0 \in [Files -> Nodes]
    BY <2>1, <2>2, <2>3, HunksAreTyped DEF Hunk, AppliedSoFar, Base, IInv, TypeOK
  <2>5. \A q \in Places(Hunk, fs0) : Base[q] = fs0[q]
    <3>1. AsPlanned(i - 1)
      BY <2>1, <2>2, <2>3, EachOnItsOwn
    <3> QED BY <2>2, <3>1 DEF AsPlanned, Base, Hunk
  <2>6. ~Applicable(Hunk, fs0)
    BY <2>3, <2>4, <2>5, EffectLocal
  <2>7. fs0[HunkPath(Hunk)] # Directory
    BY <2>3, <2>5 DEF Places
  <2>8. /\ Hunk.path \notin Unresolvable
        /\ Hunk.verb = "update" => Hunk.move_path \notin Unresolvable
        /\ Previewable(Hunk)
    BY <2>4 DEF PredictedAs
  <2> DEFINE h == Hunk
  <2>9. /\ h.verb = "delete" => fs0[h.path] \notin {None, Directory}
        /\ h.verb = "update" => fs0[At(fs0, h.path)] \in DOMAIN h.chunks
    BY <2>1, <2>8, StorageAssumption DEF Previewable, TextSeen, At
  <2>10. /\ IsMove(h) => h.verb = "update" /\ HunkPath(h) = h.move_path
         /\ h.verb = "add" => HunkPath(h) = h.path
    BY DEF IsMove, HunkPath
  <2>11. Applicable(h, fs0)
    BY <2>7, <2>8, <2>9, <2>10 DEF Applicable, Reachable
  <2> QED BY <2>6, <2>11
<1> QED BY <1>1, HostInvariance, PTL
=============================================================================
