---------------------------- MODULE MCApplyPatch ----------------------------
(***************************************************************************)
(* Instances of ApplyPatch for TLC: the trees and hunks of MCApplyHunks,   *)
(* given to the engine through a host or by the executable.                *)
(***************************************************************************)
EXTENDS ApplyPatch, MCApplyHunks

CONSTANTS
    junk,      \* a line that is no part of a patch
    sub, gone, \* a directory whose paths are others, one that cannot be joined
    r1, r2, r3 \* t1 with one to three carriage returns at the end of its lines

MCUnder ==
    None :> [p \in MCPaths |-> p]
    @@ sub :> (near :> far @@ far :> near @@ other :> other @@ bad :> bad)

(* An edit that applies to every text and leaves another one. *)
Flip == t1 :> t2 @@ t2 :> t1

(* Edits that leave t1 with carriage returns. *)
Returns == t1 :> t1 @@ r1 :> t1 @@ r2 :> r1 @@ r3 :> r2 @@ t2 :> t2

Returning == {t1 :> text : text \in {t1, r1, r2, r3}}

MCCallTexts == DOMAIN Returns

MCCallEdits == MCEdits \cup {Flip} \cup Returning

FlipHunks == {UpdateFile(p, None, Flip) : p \in {near, other}}

(* Hunks of which none is a move onto its own source. *)
NotSelfMove(h) == h.verb = "update" => h.move_path # h.path

PreviewHunks == {h \in ChainHunks : NotSelfMove(h)} \cup {UpdateFile(other, near, AnyEdit)}

(* Hunks whose lines lose their last carriage return in the verification,    *)
(* and hunks that have one left for the application.                         *)
ReturnHunks ==
    {AddFile(far, r2), AddFile(far, r3), UpdateFile(near, None, t1 :> r2),
     UpdateFile(near, None, t1 :> r3), UpdateFile(near, other, t1 :> r3)}

ReturnPatches == PatchesUpTo(2, ReturnHunks)

PatchHunks ==
    AllMCHunks \cup ChainHunks \cup FlipHunks \cup PreviewHunks
    \cup {AddFile(far, text) : text \in MCCallTexts}
    \cup {UpdateFile(near, dest, edit) : dest \in {None, other}, edit \in Returning}

MCCallHunks == {Rooted(h, dir) : h \in PatchHunks, dir \in DOMAIN MCUnder}

MCStripped ==
    [h \in MCCallHunks |->
        CASE h.verb = "add" -> [h EXCEPT !.contents = Returns[@]]
          [] h.verb = "delete" -> h
          [] h.verb = "update" ->
                [h EXCEPT !.chunks = [text \in DOMAIN @ |-> Returns[@[text]]]]]

AllPatches ==
    PairAndChainPatches \cup ReturnPatches
    \cup PatchesUpTo(2, FlipHunks \cup {DeleteFile(near)})

FewPatches == PatchesUpTo(1, {AddFile(far, t2), DeleteFile(near), UpdateFile(near, far, OneEdit)})

MCDisturbances ==
    [place : {near}, node : {None, t2}] \cup [place : {other, Outside}, node : {t2}]

-----------------------------------------------------------------------------
(* Texts. *)
Written(ph) == <<BeginPatch>> \o ph \o <<EndPatch>>

Padded(text) == <<BlankLine>> \o text \o <<BlankLine, BlankLine>>

Wrapped(text) == <<HeredocStart>> \o text \o <<HeredocEnd>>

Endings(ph) == {<<BeginPatch>> \o ph \o <<EndPatch>> \o rest \o <<EndPatch>> :
                    rest \in {<<>>, <<BlankLine>>, <<junk>>}}

TextsOf(ph) ==
    {Padded(Written(ph)), Padded(Wrapped(Written(ph))), Wrapped(Padded(Written(ph))),
     <<HeredocStart>> \o Written(ph), Tail(Written(ph)), <<BeginPatch>> \o ph,
     <<BeginPatch, junk>> \o ph \o <<EndPatch>>}
    \cup Endings(ph)

-----------------------------------------------------------------------------
(* Arguments. *)
Plainly(word) == [convention \in {"posix", "windows"} |-> [name |-> word, stem |-> None]]

Basenames(word) ==
    CASE word = "C:/tools\\PWSH.exe" ->
            [convention \in {"posix", "windows"} |->
                IF convention = "posix"
                THEN [name |-> "tools\\PWSH.exe", stem |-> "tools\\PWSH"]
                ELSE [name |-> "PWSH.exe", stem |-> "PWSH"]]
      [] word = "/bin/" -> [convention \in {"posix", "windows"} |-> None]
      [] word = ".bash" ->
            [convention \in {"posix", "windows"} |-> [name |-> word, stem |-> ""]]
      [] OTHER -> Plainly(word)

MCLower == [word \in {"apply_patch", "other", ".bash", "tools\\PWSH", "zsh", "cmd", "Bash",
                      "PWSH", "-c", "-LC", "-Command", "/C", "-NoProfile"} |->
    CASE word = "Bash" -> "bash" [] word = "PWSH" -> "pwsh"
      [] word = "-LC" -> "-lc" [] word = "-Command" -> "-command"
      [] word = "/C" -> "/c" [] word = "-NoProfile" -> "-noprofile"
      [] OTHER -> word]

Word(word) == [word |-> word, basename |-> Basenames(word), lines |-> <<junk>>, script |-> <<>>]

Text(lines) == [word |-> "other", basename |-> Plainly("other"), lines |-> lines, script |-> <<>>]

Command(name, arguments) == [name |-> name, args |-> arguments]

Script(commands, connectors, heredoc) ==
    <<[commands |-> commands, connectors |-> connectors, heredoc |-> heredoc]>>

AsScript(script) == [Text(<<junk>>) EXCEPT !.script = script]

Patching == Command("apply_patch", <<>>)

ScriptsOf(ph) ==
    LET heredoc == Written(ph) IN
    {Text(heredoc), AsScript(Failed), AsScript(<<>>),
     AsScript(Script(<<Patching>>, <<>>, heredoc)),
     AsScript(Script(<<Patching>>, <<>>, None)),
     AsScript(Script(<<Patching>>, <<>>, <<junk>> \o heredoc)),
     AsScript(Script(<<Command("apply_patch", <<junk>>)>>, <<>>, heredoc)),
     AsScript(Script(<<Command("other", <<>>)>>, <<>>, heredoc)),
     AsScript(Script(<<Patching>>, <<>>, heredoc) \o Script(<<Patching>>, <<>>, heredoc)),
     AsScript(Script(<<Command("cd", <<sub, sub>>), Patching>>, <<"&&">>, heredoc)),
     AsScript(Script(<<Command("cd", <<sub>>), Patching, Patching>>, <<"&&", "&&">>, heredoc))}
    \cup {AsScript(Script(<<Command("cd", <<dir>>), Patching>>, <<connector>>, heredoc)) :
            dir \in {sub, gone}, connector \in {"&&", "||"}}

-----------------------------------------------------------------------------
Host(argv, convention) == [kind |-> "host", argv |-> argv, convention |-> convention]

Shells(script) ==
    {<<Word("zsh"), Word("-c"), script>>, <<Word("Bash"), Word("-LC"), script>>,
     <<Word("C:/tools\\PWSH.exe"), Word("-Command"), script>>,
     <<Word("C:/tools\\PWSH.exe"), Word("-NoProfile"), Word("-Command"), script>>,
     <<Word("zsh"), Word("-NoProfile"), Word("-c"), script>>,
     <<Word("cmd"), Word("/C"), script>>, <<Word("/bin/"), Word("-c"), script>>,
     <<Word(".bash"), Word("-c"), script>>}

MCHosts ==
    {Host(<<Word("apply_patch"), Text(Written(ph))>>, "posix") : ph \in AllPatches}
    \cup UNION {{Host(<<Word("apply_patch"), Text(text)>>, "posix") : text \in TextsOf(ph)} :
                    ph \in FewPatches}
    \cup UNION {{Host(<<Word("zsh"), Word("-c"), script>>, "posix") : script \in ScriptsOf(ph)} :
                    ph \in FewPatches}
    \cup {Host(argv, convention) :
            argv \in Shells(AsScript(Script(<<Patching>>, <<>>, Written(<<DeleteFile(near)>>))))
                     \cup {<<Text(Written(<<>>))>>, <<Word("other")>>, <<>>,
                           <<Word("other"), Text(Written(<<>>))>>},
            convention \in {"posix", "windows", None}}

Launched(arguments, stdin, starts) ==
    [kind |-> "main", args |-> arguments, stdin |-> stdin, starts |-> starts]

MCLaunches ==
    {Launched(<<Written(ph)>>, Failed, TRUE) : ph \in AllPatches}
    \cup {Launched(<<>>, text, TRUE) : text \in UNION {TextsOf(ph) : ph \in FewPatches}}
    \cup {Launched(arguments, stdin, starts) :
            arguments \in {<<>>, <<Failed>>, <<Failed, <<junk>>>>,
                           <<Written(<<DeleteFile(near)>>), <<junk>>>>},
            stdin \in {Failed, <<>>, Written(<<DeleteFile(near)>>)}, starts \in BOOLEAN}

MCCallers == MCHosts \cup MCLaunches

(* Hosts only. *)
PreviewCallers ==
    {Host(<<Word("apply_patch"), Text(Written(ph))>>, "posix") :
        ph \in PatchesUpTo(2, PreviewHunks)}

ReturnCallers ==
    {Host(<<Word("apply_patch"), Text(Written(ph))>>, "posix") : ph \in ReturnPatches}
=============================================================================
