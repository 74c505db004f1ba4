---------------------------- MODULE MCSessions ----------------------------
(* Two direct peers, one of which is also a member of a hub.               *)
EXTENDS Sessions

CONSTANTS a, b, h, c1, c2, n0
==========================================================================
