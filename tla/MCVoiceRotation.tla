---------------------------- MODULE MCVoiceRotation ----------------------------
(***************************************************************************)
(* VoiceRotation on a small instance.  Two sessions with the same hash are *)
(* alike, so they may be exchanged; the node's order of its voices, which  *)
(* is free, decides which voice that hash gives.                           *)
(***************************************************************************)
EXTENDS VoiceRotation, TLC

MCHash == [s \in Sessions |-> 5]

MCSymmetry == Permutations(Calls) \cup Permutations(Sessions)

=============================================================================
