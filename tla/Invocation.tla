----------------------------- MODULE Invocation -----------------------------
(***************************************************************************)
(* Which command lines are calls of apply_patch: the functions of          *)
(* invocation.rs that look at argv and read no file.                       *)
(*                                                                         *)
(* An argument is a record: word, the argument compared as a whole;        *)
(* basename, its last path segment under each path convention, as a name   *)
(* and what stands before the last dot of it (None without a dot); lines,  *)
(* the argument as the text of a patch; script, its top-level statements   *)
(* if it is read as a shell script, or Failed.  A statement is a list of   *)
(* commands with connectors between them and the lines of the heredoc at   *)
(* its end, None if it has another end.  Splitting paths and parsing       *)
(* scripts is the work of other crates.                                    *)
(***************************************************************************)
EXTENDS ParsePatch

CONSTANTS
    Lower   \* lower case of every word, flag and file stem

ApplyPatchCommands == {"apply_patch", "applypatch"}

(* classify_shell_name: without its extension, unless that is all there is. *)
ShellName(shell, convention) ==
    LET basename == shell.basename[convention]
    IN  CASE basename = None -> None
          [] basename # None /\ basename.stem \in {None, ""} -> Lower[basename.name]
          [] OTHER -> Lower[basename.stem]

(* classify_shell: the flags of Unix shells are compared with their case. *)
RunsScript(shell, flag, convention) ==
    LET name == ShellName(shell, convention)
    IN  \/ name \in {"bash", "zsh", "sh"} /\ flag.word \in {"-lc", "-c"}
        \/ name \in {"pwsh", "powershell"} /\ Lower[flag.word] = "-command"
        \/ name = "cmd" /\ Lower[flag.word] = "/c"

CanSkipFlag(shell, flag, convention) ==
    /\ ShellName(shell, convention) \in {"pwsh", "powershell"}
    /\ Lower[flag.word] = "-noprofile"

(* parse_shell_script: the argument that is a script, or None.  Without a    *)
(* path convention (infer_path_convention) no shell is recognised.           *)
ShellScript(argv, convention) ==
    CASE /\ convention # None
         /\ Len(argv) = 3
         /\ RunsScript(argv[1], argv[2], convention) -> argv[3]
      [] /\ convention # None
         /\ Len(argv) = 4
         /\ CanSkipFlag(argv[1], argv[2], convention)
         /\ RunsScript(argv[1], argv[3], convention) -> argv[4]
      [] OTHER -> None

-----------------------------------------------------------------------------
(***************************************************************************)
(* extract_apply_patch_from_bash.  The script is one statement that ends   *)
(* in a heredoc: apply_patch without arguments, or cd with one argument,   *)
(* && and apply_patch, with or without arguments.                          *)
(***************************************************************************)
IsDirectCall(statement) ==
    /\ Len(statement.commands) = 1
    /\ statement.commands[1].name \in ApplyPatchCommands
    /\ statement.commands[1].args = <<>>

IsCallBehindCd(statement) ==
    /\ Len(statement.commands) = 2
    /\ statement.commands[1].name = "cd"
    /\ Len(statement.commands[1].args) = 1
    /\ statement.connectors = <<"&&">>
    /\ statement.commands[2].name \in ApplyPatchCommands

IsHeredocCall(script) ==
    /\ Len(script) = 1
    /\ script[1].heredoc # None
    /\ IsDirectCall(script[1]) \/ IsCallBehindCd(script[1])

Workdir(statement) ==
    IF IsCallBehindCd(statement) THEN statement.commands[1].args[1] ELSE None

-----------------------------------------------------------------------------
(* is_implicit_patch: a patch, or a script that is one, without a command. *)
IsImplicitPatch(argv, convention) ==
    LET body == IF Len(argv) = 1 THEN argv[1] ELSE ShellScript(argv, convention)
    IN  body # None /\ ParsePatch(body.lines) # Failed

Parsed(text, workdir) ==
    LET args == ParsePatch(text)
    IN  IF args = Failed
        THEN [tag |-> "PatchParseError"]
        ELSE [tag |-> "Body", args |-> [args EXCEPT !.workdir = workdir]]

(* maybe_parse_apply_patch *)
MaybeParseApplyPatch(argv, convention) ==
    LET shell_script == ShellScript(argv, convention)
        script == shell_script.script
    IN  CASE Len(argv) = 2 /\ argv[1].word \in ApplyPatchCommands ->
                Parsed(argv[2].lines, None)
          [] shell_script # None /\ script = Failed ->
                [tag |-> "ShellParseError"]
          [] shell_script # None /\ script # Failed /\ IsHeredocCall(script) ->
                Parsed(script[1].heredoc, Workdir(script[1]))
          [] OTHER -> [tag |-> "NotApplyPatch"]

(* Mutant of InterceptsCommand: a raw patch is left to the shell. *)
InterceptsNamedCommand(argv, convention) ==
    MaybeParseApplyPatch(argv, convention).tag \in {"Body", "PatchParseError"}

(* intercepts_command *)
InterceptsCommand(argv, convention) ==
    \/ IsImplicitPatch(argv, convention)
    \/ MaybeParseApplyPatch(argv, convention).tag \in {"Body", "PatchParseError"}
=============================================================================
