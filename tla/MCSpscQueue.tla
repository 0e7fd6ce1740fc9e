---------------------------- MODULE MCSpscQueue ----------------------------
(***************************************************************************)
(* Instances of SpscQueue for TLC.  The constants come from the .cfg files *)
(* of the runs; three slots are enough for a full buffer, a buffer that    *)
(* wraps in the middle of a slice and two laps.                            *)
(***************************************************************************)
EXTENDS SpscQueue
=============================================================================
