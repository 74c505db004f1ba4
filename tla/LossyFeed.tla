----------------------------- MODULE LossyFeed -----------------------------
(***************************************************************************)
(* What a fan-out (broadcast.Hub for MP3 chunks, events.Bus for SSE        *)
(* events) promises the clients attached to it, with no channels, buffers  *)
(* or locks: items are numbered as they are published, a client that is in *)
(* receives items newer than the last one it holds, in order, possibly     *)
(* with gaps, never one published before it joined; and once the feed is   *)
(* shut every client is let go.                                            *)
(***************************************************************************)
EXTENDS Naturals

CONSTANT Clients

VARIABLES
  sent,    \* number of items published
  pos,     \* pos[c]: the last item client c holds, or the feed's head when it joined
  status,  \* "out" (not yet in), "in", or "ended"
  shut     \* TRUE once the feed is closed

vars == <<sent, pos, status, shut>>

Init ==
  /\ sent = 0
  /\ pos = [c \in Clients |-> 0]
  /\ status = [c \in Clients |-> "out"]
  /\ shut = FALSE

Publish ==
  /\ sent' = sent + 1
  /\ UNCHANGED <<pos, status, shut>>

Join(c) ==
  /\ status[c] = "out"
  /\ status' = [status EXCEPT ![c] = "in"]
  /\ pos' = [pos EXCEPT ![c] = sent]
  /\ UNCHANGED <<sent, shut>>

Deliver(c) ==
  /\ status[c] = "in"
  /\ \E n \in pos[c] + 1 .. sent : pos' = [pos EXCEPT ![c] = n]
  /\ UNCHANGED <<sent, status, shut>>

End(c) ==
  /\ status[c] = "in"
  /\ status' = [status EXCEPT ![c] = "ended"]
  /\ UNCHANGED <<sent, pos, shut>>

Shut ==
  /\ shut' = TRUE
  /\ UNCHANGED <<sent, pos, status>>

Next == Publish \/ Shut \/ \E c \in Clients : Join(c) \/ Deliver(c) \/ End(c)

Spec == Init /\ [][Next]_vars /\ \A c \in Clients : WF_vars(shut /\ End(c))
=============================================================================
