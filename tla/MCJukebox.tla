----------------------------- MODULE MCJukebox -----------------------------
(* Jukebox with three tracks, two of them of the station's genre, one more    *)
(* than the history window holds, and two goroutines.                         *)
EXTENDS Jukebox, TLC

CONSTANTS t1, t2, t3, p1, p2

Symmetry == Permutations({p1, p2}) \cup Permutations({t1, t2})
=============================================================================
