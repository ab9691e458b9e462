--------------------------- MODULE MCDeltaJournal ---------------------------
(***************************************************************************)
(* An instance of DeltaJournal for TLC: logs of up to MaxLog + 1 changes   *)
(* to two places.  A journal that has lost track promises nothing more     *)
(* and is not followed further.                                            *)
(***************************************************************************)
EXTENDS DeltaJournal

CONSTANTS MaxLog, opaque

MCNodes == Texts \cup {None, opaque}

Bounded == exact /\ Len(log) <= MaxLog
=============================================================================
