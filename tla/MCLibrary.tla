----------------------------- MODULE MCLibrary -----------------------------
(* Two folders with a file each, the first of them named on the command    *)
(* line, the file of the second not there at first, and two administrators. *)
EXTENDS Library, TLC

CONSTANTS first, second, f1, f2

AdminSymmetry == Permutations(Admins)

MCInitially == {{f1}}
MCUnder == [r \in {first, second} |-> IF r = first THEN {f1} ELSE {f2}]
============================================================================
