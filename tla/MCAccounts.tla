---------------------------- MODULE MCAccounts ----------------------------
(* Two requests at a time, over three addresses and one outside identity.    *)
EXTENDS Accounts, TLC

CONSTANTS r1, r2, e1, e2, e3, s1, n0

Symmetry == Permutations({r1, r2}) \cup Permutations({e1, e2, e3})
==========================================================================
