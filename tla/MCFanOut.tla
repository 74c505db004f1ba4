------------------------------ MODULE MCFanOut ------------------------------
(* FanOut with three clients, enough for a close to find one registered     *)
(* client, one inside its cancel func and one that arrives late.            *)
EXTENDS FanOut

CONSTANTS c1, c2, c3
=============================================================================
