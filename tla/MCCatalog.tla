----------------------------- MODULE MCCatalog -----------------------------
(* A hub and two members: a shares two tracks, one in each of its          *)
(* libraries, and b pulls them from the hub, over a session that may be    *)
(* replaced while it is in use, and from a itself.                         *)
EXTENDS Catalog

CONSTANTS h, a, b, t1, t2, g0, n0

MCOwner == [t \in {t1, t2} |-> a]
MCLibrary == [t \in {t1, t2} |-> t]
MCLoops == {[at |-> a, from |-> h], [at |-> b, from |-> h], [at |-> b, from |-> a]}
MCAccepted == [n \in {h, a, b} |-> CASE n = h -> {a, b} [] n = a -> {b} [] OTHER -> {}]
============================================================================
