------------------------------ MODULE Sessions ------------------------------
(***************************************************************************)
(* Federation sessions (fed/manager.go, fed/session.go): members keep a    *)
(* connection to a hub, direct peers dial each other every so often, and   *)
(* each instance keeps a registry of the sessions it serves.  A connection *)
(* has two ends, each with its goroutine; an end that is closed, cut or    *)
(* left by a restart is noticed at the other end some time later.          *)
(***************************************************************************)
EXTENDS Approval, Naturals

CONSTANTS
  Hub,        \* the instance of role hub
  Members,    \* the instances that have its address (role member, or peer)
  Learning,   \* the peers that may start with an empty table, and to which announcements
              \* and administrators come; the others know everyone: a bound
  MaxEvents   \* bound on announcements, deeds of administrators, cut connections and
              \* restarts, together

Nodes == Peers \cup Members \cup {Hub}
Sides == {"dial", "accept"}

ASSUME SessionsAssumption ==
  /\ Hub \notin Peers \cup Members
  /\ None \notin Nodes \X Nodes
  /\ Learning \subseteq Peers
  /\ MaxEvents \in Nat

VARIABLES
  link,    \* link[c]: <<dialling node, accepting node>>, or None
  at,      \* at[c][side]: where the end's goroutine is
  acked,   \* connections whose acceptor has sent its ack
  up,      \* up[c]: the ends that are open, as far as their nodes know
  reg,     \* reg[n][m]: the connection n has registered for m, or None
  events

vars == <<table, link, at, acked, up, reg, events>>

\* "ack": waits for it; "put", "try": about to register; "check": acceptsPeer is to
\* come, then the UPDATE at "mark" or the two statements at "look" and "save"; "serve":
\* serves the session; "remove": the session is over.
Writing == {"check", "mark", "look", "save"}
Places == {"ack", "put", "line", "try"} \cup Writing \cup {"serve", "remove", "done"}

TypeOK ==
  /\ ApprovalTypes
  /\ link \in [Conns -> (Nodes \X Nodes) \cup {None}]
  /\ at \in [Conns -> [Sides -> Places]]
  /\ acked \in SUBSET Conns /\ up \in [Conns -> SUBSET Sides]
  /\ reg \in [Nodes -> [Nodes -> Conns \cup {None}]]
  /\ events \in Nat
  /\ \A c \in Conns : /\ link[c] = None <=> \A s \in Sides : at[c][s] = "done"
                      /\ \A s \in up[c] : at[c][s] # "done"

Init ==
  /\ rows \in [Peers -> [Peers -> {[a \in Addresses |-> NoRow],
                [a \in Addresses |-> IF a = "listen" THEN [status |-> "accepted", auth |-> TRUE]
                                                     ELSE NoRow]}]]
  /\ \A n, m \in Peers : CASE n = m -> rows[n][m]["listen"] = NoRow
                           [] n # m /\ n \notin Learning -> Dialable(n, m)
                           [] OTHER -> TRUE
  /\ save = [n \in Peers |-> [w \in Writers |-> None]]
  /\ unsure = [n \in Peers |-> [m \in Peers |-> {}]]
  /\ vouched = [n \in Peers |-> {m \in Peers : Dialable(n, m)}]
  /\ link = [c \in Conns |-> None]
  /\ at = [c \in Conns |-> [s \in Sides |-> "done"]]
  /\ acked = {} /\ up = [c \in Conns |-> {}]
  /\ reg = [n \in Nodes |-> [m \in Nodes |-> None]]
  /\ events = 0

Other(s) == IF s = "dial" THEN "accept" ELSE "dial"
NodeOf(c, s) == IF s = "dial" THEN link[c][1] ELSE link[c][2]
PeerOf(c, s) == NodeOf(c, Other(s))
SideOf(c, n) == IF link[c][1] = n THEN "dial" ELSE "accept"

\* The registered session is not closed.
Live(n, m) == reg[n][m] # None /\ SideOf(reg[n][m], n) \in up[reg[n][m]]

\* The goroutine moves on.
Move(c, s, place) == at' = [at EXCEPT ![c][s] = place] /\ UNCHANGED link

\* Mutant of Finish: the end stays open.
FinishStaysOpen(c, s) ==
  /\ at' = [at EXCEPT ![c][s] = "done"]
  /\ UNCHANGED up
  /\ link' = [link EXCEPT ![c] = IF at[c][Other(s)] = "done" THEN None ELSE @]
  /\ acked' = IF at[c][Other(s)] = "done" THEN acked \ {c} ELSE acked

\* The end is closed and its goroutine returns.
Finish(c, s) ==
  /\ at' = [at EXCEPT ![c][s] = "done"]
  /\ up' = [up EXCEPT ![c] = @ \ {s}]
  /\ link' = [link EXCEPT ![c] = IF at[c][Other(s)] = "done" THEN None ELSE @]
  /\ acked' = IF at[c][Other(s)] = "done" THEN acked \ {c} ELSE acked

-----------------------------------------------------------------------------
(* The dialling side.                                                       *)

Connect(c, n, m) ==
  /\ link[c] = None
  /\ link' = [link EXCEPT ![c] = <<n, m>>]
  /\ at' = [at EXCEPT ![c] = [s \in Sides |-> IF s = "dial" THEN "ack" ELSE "line"]]
  /\ up' = [up EXCEPT ![c] = Sides]
  /\ UNCHANGED <<table, acked, reg, events>>

\* runPeerDialerOnce: a dial to each accepted peer that has no session; earlier dials
\* to the same peer may still be under way.
DialPeer(n, m) ==
  /\ n # m /\ Dialable(n, m) /\ reg[n][m] = None
  /\ \E c \in Conns : Connect(c, n, m)

\* runMember: one connection after the other.
DialHub(m) ==
  /\ \A c \in Conns : link[c] = <<m, Hub>> => at[c]["dial"] = "done"
  /\ \E c \in Conns : Connect(c, m, Hub)

\* dialHandshake returns.
ReadAck(c) ==
  /\ at[c]["dial"] = "ack" /\ c \in acked /\ "dial" \in up[c]
  /\ Move(c, "dial", "put")
  /\ UNCHANGED <<table, acked, up, reg, events>>

\* Mutant of DialFails: the handshake goes on waiting when the connection closes.
DialFailsWaits(c) ==
  /\ at[c]["dial"] = "ack" /\ c \in acked /\ "dial" \notin up[c]
  /\ Finish(c, "dial")
  /\ UNCHANGED <<table, reg, events>>

\* Or fails: the connection closed without an ack.
DialFails(c) ==
  /\ at[c]["dial"] = "ack" /\ "dial" \notin up[c]
  /\ Finish(c, "dial")
  /\ UNCHANGED <<table, reg, events>>

\* Mutant of Put: the session it displaces is left open.
PutKeepsOld(c) ==
  /\ at[c]["dial"] = "put"
  /\ reg' = [reg EXCEPT ![link[c][1]][link[c][2]] = c]
  /\ Move(c, "dial", "serve")
  /\ UNCHANGED <<table, acked, up, events>>

\* Registry.put: whatever was registered is closed.
Put(c) ==
  /\ at[c]["dial"] = "put"
  /\ LET n == link[c][1]
         m == link[c][2]
         old == reg[n][m]
     IN /\ up' = IF old = None THEN up ELSE [up EXCEPT ![old] = @ \ {SideOf(old, n)}]
        /\ reg' = [reg EXCEPT ![n][m] = c]
  /\ Move(c, "dial", "serve")
  /\ UNCHANGED <<table, acked, events>>

-----------------------------------------------------------------------------
(* The accepting side.                                                      *)

\* acceptAndRegister, up to the ack: a live session under the id is a refusal.
Handshake(c) ==
  /\ at[c]["accept"] = "line"
  /\ IF "accept" \in up[c] /\ ~Live(link[c][2], link[c][1])
     THEN /\ acked' = acked \cup {c}
          /\ Move(c, "accept", "try")
          /\ UNCHANGED up
     ELSE Finish(c, "accept")
  /\ UNCHANGED <<table, reg, events>>

\* Mutant of Register: the look before the ack is enough.
RegisterUnchecked(c) ==
  /\ at[c]["accept"] = "try"
  /\ reg' = [reg EXCEPT ![link[c][2]][link[c][1]] = c]
  /\ Move(c, "accept", IF link[c][2] = Hub THEN "serve" ELSE "check")
  /\ UNCHANGED <<up, acked, table, events>>

\* Registry.putIfFree
Register(c) ==
  /\ at[c]["accept"] = "try"
  /\ IF Live(link[c][2], link[c][1])
     THEN Finish(c, "accept") /\ UNCHANGED reg
     ELSE /\ reg' = [reg EXCEPT ![link[c][2]][link[c][1]] = c]
          /\ Move(c, "accept", IF link[c][2] = Hub THEN "serve" ELSE "check")
          /\ UNCHANGED <<up, acked>>
  /\ UNCHANGED <<table, events>>

\* servePeerConn: acceptsPeer, of a peer that has presented the token.
CheckPeer(c) ==
  /\ at[c]["accept"] = "check"
  /\ Move(c, "accept", IF Accepts(link[c][2], link[c][1]) THEN "mark" ELSE "look")
  /\ vouched' = [vouched EXCEPT ![link[c][2]] = @ \cup {link[c][1]}]
  /\ UNCHANGED <<rows, save, unsure, acked, up, reg, events>>

\* The one that was accepted is served.
MarkPeer(c) ==
  /\ at[c]["accept"] = "mark"
  /\ rows' = [rows EXCEPT ![link[c][2]][link[c][1]] = Marked(@)]
  /\ Move(c, "accept", "serve")
  /\ UNCHANGED <<save, unsure, vouched, acked, up, reg, events>>

\* The one that was not is written down ...
LookPeer(c) ==
  /\ at[c]["accept"] = "look"
  /\ LET m == link[c][1]
         n == link[c][2]
     IN IF rows[n][m][c] = NoRow THEN WriteDown(n, m, c) ELSE UNCHANGED table
  /\ Move(c, "accept", "save")
  /\ UNCHANGED <<acked, up, reg, events>>

\* ... and let go.
SavePeer(c) ==
  /\ at[c]["accept"] = "save"
  /\ IF save[link[c][2]][c] # None THEN Upsert(link[c][2], c) ELSE UNCHANGED table
  /\ Move(c, "accept", "remove")
  /\ up' = [up EXCEPT ![c] = @ \ {"accept"}]
  /\ UNCHANGED <<acked, reg, events>>

-----------------------------------------------------------------------------
\* http.Serve, or the wait, returns when the session is closed.
Leave(c, s) ==
  /\ at[c][s] = "serve" /\ s \notin up[c]
  /\ Move(c, s, "remove")
  /\ UNCHANGED <<table, acked, up, reg, events>>

\* Mutant of Remove: whatever is registered under the id goes.
RemoveAny(c, s) ==
  /\ at[c][s] = "remove"
  /\ reg' = [reg EXCEPT ![NodeOf(c, s)][PeerOf(c, s)] = None]
  /\ Finish(c, s)
  /\ UNCHANGED <<table, events>>

\* Registry.remove, by identity.
Remove(c, s) ==
  /\ at[c][s] = "remove"
  /\ reg' = [reg EXCEPT ![NodeOf(c, s)][PeerOf(c, s)] = IF @ = c THEN None ELSE @]
  /\ Finish(c, s)
  /\ UNCHANGED <<table, events>>

\* An end learns that the other one is closed, or gone.
Notice(c, s) ==
  /\ s \in up[c] /\ Other(s) \notin up[c]
  /\ up' = [up EXCEPT ![c] = @ \ {s}]
  /\ UNCHANGED <<table, link, at, acked, reg, events>>

-----------------------------------------------------------------------------
Event == events < MaxEvents /\ events' = events + 1

\* A connection is cut; one end finds out first.
Cut(c) ==
  /\ Event
  /\ up[c] = Sides
  /\ \E s \in Sides : up' = [up EXCEPT ![c] = @ \ {s}]
  /\ UNCHANGED <<table, link, at, acked, reg>>

Ends(n) == {c \in Conns : link[c] # None /\ n \in {link[c][1], link[c][2]}}

\* The process of n stops and starts again.
Restart(n) ==
  /\ Event
  /\ reg' = [reg EXCEPT ![n] = [m \in Nodes |-> None]]
  /\ at' = [c \in Conns |-> IF c \in Ends(n) THEN [at[c] EXCEPT ![SideOf(c, n)] = "done"] ELSE at[c]]
  /\ up' = [c \in Conns |-> IF c \in Ends(n) THEN up[c] \ {SideOf(c, n)} ELSE up[c]]
  /\ link' = [c \in Conns |-> IF \A s \in Sides : at'[c][s] = "done" THEN None ELSE link[c]]
  /\ acked' = {c \in acked : link'[c] # None}
  /\ save' = [p \in Peers |-> IF p = n THEN [w \in Writers |-> None] ELSE save[p]]
  /\ UNCHANGED <<rows, unsure, vouched>>

\* An announcement arrives, or an administrator is at work.
Edit ==
  /\ Event
  /\ \E n \in Learning : \E m \in Peers \ {n} :
       Announce(n, m) \/ AddPeer(n, m) \/ ApprovePeer(n, m)
  /\ UNCHANGED <<link, at, acked, up, reg>>

\* The upsert of an announcement or of an administrator.
EditSaved(n, w) ==
  /\ Upsert(n, w)
  /\ UNCHANGED <<link, at, acked, up, reg, events>>

EndStep(c) ==
  \/ ReadAck(c) \/ DialFails(c) \/ Put(c)
  \/ Handshake(c) \/ Register(c) \/ CheckPeer(c) \/ MarkPeer(c) \/ LookPeer(c) \/ SavePeer(c)
  \/ \E s \in Sides : Leave(c, s) \/ Remove(c, s) \/ Notice(c, s)

Next ==
  \/ \E n, m \in Peers : DialPeer(n, m)
  \/ \E m \in Members : DialHub(m)
  \/ \E c \in Conns : EndStep(c) \/ Cut(c)
  \/ \E n \in Nodes : Restart(n)
  \/ Edit
  \/ \E n \in Peers, w \in {"lan", "admin"} : EditSaved(n, w)

\* Goroutines run, a dead connection is noticed (yamux and TCP keep-alives), and the
\* member's loop dials again; a free slot of Conns is not denied it for ever, as the
\* code has no such bound.
Fairness ==
  /\ \A c \in Conns : WF_vars(EndStep(c))
  /\ \A m \in Members : SF_vars(DialHub(m))

Spec == Init /\ [][Next]_vars /\ Fairness

-----------------------------------------------------------------------------
\* No stranded session and no ghost entry: an end that serves an open session is the
\* one registered, however dials, accepts and removals of one id interleave; and what
\* is registered is open, or its goroutine is still there to remove it (session.go:28-30).
RegistryExact ==
  /\ \A c \in Conns : \A s \in up[c] :
       at[c][s] \in Writing \cup {"serve"} => reg[NodeOf(c, s)][PeerOf(c, s)] = c
  /\ \A n, m \in Nodes : reg[n][m] # None =>
       /\ link[reg[n][m]] \in {<<n, m>>, <<m, n>>}
       /\ at[reg[n][m]][SideOf(reg[n][m], n)] \in Writing \cup {"serve", "remove"}

\* An instance's live session gives way only to a dial of its own: whoever connects
\* under an id in use, however many at once, does not displace it (session.go:56-70).
IncumbentStays ==
  [][\A n, m \in Nodes : Live(n, m) /\ reg'[n][m] \notin {reg[n][m], None}
       => at[reg'[n][m]]["dial"] = "put" /\ link[reg'[n][m]] = <<n, m>>]_vars

\* When nothing is under way between two instances, their registries agree: both
\* name the same connection, or neither has one.
Settled(n, m) ==
  \A c \in Conns : link[c] \in {<<n, m>>, <<m, n>>} =>
    up[c] = Sides /\ \A s \in Sides : at[c][s] = "serve"

QuietAgree == \A n, m \in Nodes : Settled(n, m) => reg[n][m] = reg[m][n]

\* A member is never locked out by the session it lost: it gets a session with its
\* hub, known to both, and keeps it once cuts and restarts are over
\* (session.go:59-62, manager.go:22).
HubHeals ==
  \A m \in Members :
    <>[](reg[m][Hub] # None /\ reg[m][Hub] = reg[Hub][m] /\ up[reg[m][Hub]] = Sides)

-----------------------------------------------------------------------------
(* The inductive invariant of SessionsProofs.                               *)

\* Who connects to whom, and which goroutine is at which end.
Shape ==
  \A c \in Conns :
    /\ link[c] # None => /\ link[c] \in (Peers \X Peers) \cup (Members \X {Hub})
                         /\ link[c][1] # link[c][2]
    /\ at[c]["dial"] \in {"ack", "put", "serve", "remove", "done"}
    /\ at[c]["accept"] \in {"line", "try", "serve", "remove", "done"} \cup Writing
    /\ at[c]["accept"] \in Writing => link[c][2] # Hub

\* The peer at the other end of a connection that is past acceptsPeer presented the token.
Presented ==
  \A c \in Conns :
    at[c]["accept"] \in Writing \ {"check"} => link[c][1] \in vouched[link[c][2]]

IInv ==
  TypeOK /\ Shape /\ RegistryExact /\ Earned /\ SureOnes /\ OneIdentity /\ Presented
=============================================================================
