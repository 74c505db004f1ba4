---------------------------- MODULE MCPeerAudio ----------------------------
(* Requests for tracks of one peer, with as many negotiations as offers.   *)
EXTENDS PeerAudio, TLC

CONSTANTS r1, r2, n1, n2, no
==========================================================================
