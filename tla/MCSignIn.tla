----------------------------- MODULE MCSignIn -----------------------------
(* Two requests at a time, with two sign-ins waiting for their codes.      *)
EXTENDS SignIn, TLC

CONSTANTS r1, r2, t1, t2, n0

Symmetry == Permutations({r1, r2}) \cup Permutations({t1, t2})
==========================================================================
