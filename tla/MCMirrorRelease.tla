-------------------------- MODULE MCMirrorRelease --------------------------
(* Instances of MirrorRelease for TLC. *)
EXTENDS MirrorRelease

CONSTANTS linux, windows

MCArchives == {linux, windows}
=============================================================================
