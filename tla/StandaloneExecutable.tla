------------------------ MODULE StandaloneExecutable ------------------------
(***************************************************************************)
(* run_main of standalone_executable.rs: where the executable takes the    *)
(* patch from, when it gives up before it applies it, and the exit code.   *)
(*                                                                         *)
(* A launch is a record: args, the arguments behind the program's name, as *)
(* texts, Failed if not UTF-8; stdin, the text there, Failed if it cannot  *)
(* be read; starts, whether the working directory is known and the runtime *)
(* can be built.                                                           *)
(***************************************************************************)
EXTENDS Naturals, Sequences

CONSTANTS None, Failed

PatchArg(launch) == IF launch.args = <<>> THEN launch.stdin ELSE Head(launch.args)

(* The exit code of a launch that never gets to apply_patch, or None. *)
EarlyExit(launch) ==
    CASE PatchArg(launch) = Failed -> 1
      [] launch.args = <<>> /\ launch.stdin = <<>> -> 2
      [] Len(launch.args) > 1 /\ PatchArg(launch) # Failed -> 2
      [] OTHER -> IF launch.starts THEN None ELSE 1

ExitCode(outcome) == IF outcome = "succeeded" THEN 0 ELSE 1
=============================================================================
