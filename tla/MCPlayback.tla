----------------------------- MODULE MCPlayback -----------------------------
(* Playback with one track and two plays: it can vanish between two rows, so   *)
(* that a batch mixes a deliverable listen with an orphan.                     *)
EXTENDS Playback

CONSTANT t1
=============================================================================
