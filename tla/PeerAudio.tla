----------------------------- MODULE PeerAudio -----------------------------
(***************************************************************************)
(* Audio over WebRTC (fed/webrtc.go, fed/webrtc_audio.go): an instance     *)
(* fetches tracks of one peer over a data channel that its requests        *)
(* negotiate, cache and share.  The offering side dials (Dial), the        *)
(* answering side has one negotiation per offer (handleOffer); offers and  *)
(* answers are independent requests over federation sessions.  What ICE    *)
(* does is left open: a negotiation may or may not come to a channel.      *)
(***************************************************************************)
EXTENDS Naturals, Sequences, FiniteSets

CONSTANTS
  Requests,  \* requests for a track of the peer; one that dials names its negotiation
  Negs,      \* negotiations of the answering side
  None,
  MaxDups,   \* bound on offers delivered twice
  MaxCuts    \* bound on connections lost

ASSUME PeerAudioAssumption ==
  /\ None \notin Requests \cup Negs
  /\ MaxDups \in Nat /\ MaxCuts \in Nat

VARIABLES
  at,       \* at[r]: where the request is
  conn,     \* conn[r]: the connection it uses, named by the request that dialled it
  pc,       \* pc[r]: the PeerConnection of r's dial
  opening,  \* opening[r]: where the callback of an opened channel is
  dial,     \* the requests whose SID is claimed on the offering side
  cache,    \* the connection cached for the peer, or None
  mail,     \* offers and answers on their way
  remote,   \* remote[r]: the negotiation whose answer was applied
  sid,      \* sid[n]: the request whose offer n answers
  slot,     \* slot[r]: the negotiation that holds r's SID on the answering side
  neg,      \* neg[n]: the answering side's PeerConnection and what becomes of it
  failing,  \* negotiations whose answer will be reported as not delivered
  cut,      \* the connections whose path is broken
  toPeer,   \* toPeer[c]: the requests written on c
  fromPeer, \* fromPeer[c]: the frames and bodies the peer has written on c
  copied,   \* copied[r]: whose answer the client of r has been given
  shared,   \* connections used by two requests at once, or left in mid-answer
  dups

offering == <<at, conn, pc, opening, dial, cache>>
answering == <<sid, slot, neg, failing>>
data == <<toPeer, fromPeer, copied, shared>>
vars == <<offering, answering, mail, remote, cut, data, dups>>

Messages == [type : {"offer"}, of : Requests] \cup [type : {"answer"}, of : Negs]
Frames == {"head", "body"} \X Requests

TypeOK ==
  /\ at \in [Requests -> {"new", "offer", "wait", "write", "head", "body", "end", "nexttier"}]
  /\ conn \in [Requests -> Requests \cup {None}]
  /\ pc \in [Requests -> {"none", "open", "closed"}]
  /\ opening \in [Requests -> {"no", "put", "store", "done"}]
  /\ dial \subseteq Requests /\ cache \in Requests \cup {None}
  /\ mail \subseteq Messages
  /\ remote \in [Requests -> Negs \cup {None}]
  /\ sid \in [Negs -> Requests \cup {None}]
  /\ slot \in [Requests -> Negs \cup {None}]
  /\ neg \in [Negs -> {"none", "setup", "answered", "serving", "closed"}]
  /\ failing \subseteq Negs /\ cut \subseteq Requests
  /\ toPeer \in [Requests -> Seq(Requests)] /\ fromPeer \in [Requests -> Seq(Frames)]
  /\ copied \in [Requests -> SUBSET Requests] /\ shared \subseteq Requests
  /\ dups \in Nat
  \* A SID is claimed while its dial runs; a request that reads has a connection.
  /\ \A r \in Requests : r \in dial <=> at[r] \in {"offer", "wait"}
  /\ \A r \in Requests : at[r] \in {"write", "head", "body"} => conn[r] # None

Init ==
  /\ at = [r \in Requests |-> "new"] /\ conn = [r \in Requests |-> None]
  /\ pc = [r \in Requests |-> "none"] /\ opening = [r \in Requests |-> "no"]
  /\ dial = {} /\ cache = None /\ mail = {}
  /\ remote = [r \in Requests |-> None]
  /\ sid = [n \in Negs |-> None] /\ slot = [r \in Requests |-> None]
  /\ neg = [n \in Negs |-> "none"] /\ failing = {} /\ cut = {}
  /\ toPeer = [r \in Requests |-> <<>>] /\ fromPeer = [r \in Requests |-> <<>>]
  /\ copied = [r \in Requests |-> {}] /\ shared = {} /\ dups = 0

\* The answering end of connection c, once its answer is applied.
Far(c) == remote[c]
FarOpen(c) == Far(c) # None /\ neg[Far(c)] \in {"answered", "serving"}
FarClosed(c) == Far(c) # None /\ neg[Far(c)] = "closed"

-----------------------------------------------------------------------------
(* The offering side.                                                       *)

Using(c) == {r \in Requests : conn[r] = c /\ at[r] \in {"write", "head", "body"}}

\* A request takes up connection c.
Use(r, c) ==
  /\ at' = [at EXCEPT ![r] = "write"]
  /\ conn' = [conn EXCEPT ![r] = c]
  /\ shared' = IF Using(c) = {} THEN shared ELSE shared \cup {c}

\* get, and Dial up to the offer.  A cached connection that is not open is dropped.
Dial(r) ==
  /\ at[r] = "new"
  /\ IF cache # None /\ pc[cache] = "open"
     THEN /\ Use(r, cache)
          /\ UNCHANGED <<pc, dial, cache>>
     ELSE /\ at' = [at EXCEPT ![r] = "offer"]
          /\ pc' = [pc EXCEPT ![r] = "open"]
          /\ dial' = dial \cup {r}
          /\ cache' = None
          /\ UNCHANGED <<conn, shared>>
  /\ UNCHANGED <<opening, answering, mail, remote, cut, toPeer, fromPeer, copied, dups>>

\* sendSignal: a signal reported as delivered is on its way; one reported as not
\* delivered may be.
Post(m, delivered) == mail' \in (IF delivered THEN {} ELSE {mail}) \cup {mail \cup {m}}

\* Mutant of Release: the entry of the peer is dropped, whosever it is.
ReleaseByPeer(r) ==
  /\ cache' = None
  /\ pc' = [pc EXCEPT ![r] = "closed"]

\* release: the connection leaves the cache, if it is the one in it and the callback
\* has come to store it for release to find, and the PeerConnection is closed.
Release(r) ==
  /\ cache' = IF opening[r] = "done" /\ cache = r THEN None ELSE cache
  /\ pc' = [pc EXCEPT ![r] = "closed"]

\* Mutant of Fail: what the dial had set up is left behind.
FailLeaves(r) ==
  /\ at' = [at EXCEPT ![r] = "nexttier"]
  /\ UNCHANGED <<conn, opening, pc, cache, dial>>

\* Dial returns an error, and serveWebRTC leaves the request to the next tier.
Fail(r) ==
  /\ at' = [at EXCEPT ![r] = "nexttier"]
  /\ dial' = dial \ {r}
  /\ IF pc[r] = "open" THEN Release(r) ELSE UNCHANGED <<pc, cache>>
  /\ UNCHANGED <<conn, opening>>

SendOffer(r) ==
  /\ at[r] = "offer"
  /\ \/ /\ Post([type |-> "offer", of |-> r], TRUE)
        /\ at' = [at EXCEPT ![r] = "wait"]
        /\ UNCHANGED <<conn, pc, opening, dial, cache>>
     \/ Post([type |-> "offer", of |-> r], FALSE) /\ Fail(r)
  /\ UNCHANGED <<answering, remote, cut, data, dups>>

\* The setup timeout, or a failure of ICE or of the channel.
GiveUp(r) ==
  /\ at[r] = "wait"
  /\ Fail(r)
  /\ UNCHANGED <<answering, mail, remote, cut, data, dups>>

\* The reader routes an answer to the dial that claimed its SID, and the pump applies
\* it; the first one counts.
RouteAnswer(n) ==
  LET r == sid[n]
  IN /\ [type |-> "answer", of |-> n] \in mail
     /\ mail' = mail \ {[type |-> "answer", of |-> n]}
     /\ remote' = IF r \in dial /\ pc[r] = "open" /\ remote[r] = None
                  THEN [remote EXCEPT ![r] = n] ELSE remote
     /\ UNCHANGED <<offering, answering, cut, data, dups>>

\* The channel opens; OnOpen is called.
Opened(r) ==
  /\ opening[r] = "no" /\ pc[r] = "open" /\ FarOpen(r) /\ r \notin cut
  /\ opening' = [opening EXCEPT ![r] = "put"]
  /\ UNCHANGED <<at, conn, pc, dial, cache, answering, mail, remote, cut, data, dups>>

Put(r) ==
  /\ opening[r] = "put"
  /\ opening' = [opening EXCEPT ![r] = "store"]
  /\ cache' = r
  /\ UNCHANGED <<at, conn, pc, dial, answering, mail, remote, cut, data, dups>>

Store(r) ==
  /\ opening[r] = "store"
  /\ opening' = [opening EXCEPT ![r] = "done"]
  /\ UNCHANGED <<at, conn, pc, dial, cache, answering, mail, remote, cut, data, dups>>

\* Dial returns the connection it negotiated.
Return(r) ==
  /\ at[r] = "wait" /\ opening[r] = "done"
  /\ Use(r, r)
  /\ dial' = dial \ {r}
  /\ UNCHANGED <<pc, opening, cache, answering, mail, remote, cut, toPeer, fromPeer, copied, dups>>

\* OnConnectionStateChange: the far end closed the connection, or it failed.
Lost(r) ==
  /\ pc[r] = "open"
  /\ r \in cut \/ FarClosed(r)
  /\ Release(r)
  /\ UNCHANGED <<at, conn, opening, dial, answering, mail, remote, cut, data, dups>>

-----------------------------------------------------------------------------
(* The answering side.                                                      *)

\* Mutant of Claim: a repeated SID takes over the slot.
ClaimAnyway(n, r) ==
  /\ slot' = [slot EXCEPT ![r] = n]
  /\ sid' = [sid EXCEPT ![n] = r]
  /\ neg' = [neg EXCEPT ![n] = "setup"]
  /\ UNCHANGED failing

\* registerDial for an offer: a SID that is taken starts nothing.
Claim(n, r) ==
  IF slot[r] = None
  THEN /\ slot' = [slot EXCEPT ![r] = n]
       /\ sid' = [sid EXCEPT ![n] = r]
       /\ neg' = [neg EXCEPT ![n] = "setup"]
       /\ UNCHANGED failing
  ELSE UNCHANGED answering

Fresh == {n \in Negs : neg[n] = "none"}

\* The reader takes an offer, which may come a second time.
ReadOffer(r) ==
  LET m == [type |-> "offer", of |-> r]
  IN /\ m \in mail
     /\ \/ mail' = mail \ {m} /\ UNCHANGED dups
        \/ dups < MaxDups /\ dups' = dups + 1 /\ UNCHANGED mail
     /\ Fresh # {} /\ Claim(CHOOSE n \in Fresh : TRUE, r)
     /\ UNCHANGED <<offering, remote, cut, data>>

\* teardown: the SID is free again, if it is still this negotiation that holds it.
Teardown(n) ==
  /\ neg' = [neg EXCEPT ![n] = "closed"]
  /\ slot' = IF slot[sid[n]] = n THEN [slot EXCEPT ![sid[n]] = None] ELSE slot
  /\ UNCHANGED <<sid, failing>>

\* handleOffer sends the answer.  What sendSignal will return is settled here, and
\* when it does return the offering side may have gone on with the answer.
Answer(n) ==
  /\ neg[n] = "setup"
  /\ \E delivered \in BOOLEAN :
       /\ Post([type |-> "answer", of |-> n], delivered)
       /\ failing' = IF delivered THEN failing ELSE failing \cup {n}
  /\ neg' = [neg EXCEPT ![n] = "answered"]
  /\ UNCHANGED <<offering, sid, slot, remote, cut, data, dups>>

AnswerFails(n) ==
  /\ n \in failing /\ neg[n] \in {"answered", "serving"}
  /\ Teardown(n)
  /\ UNCHANGED <<offering, mail, remote, cut, data, dups>>

\* The watchdog, which is stopped when a channel opens.
Watchdog(n) ==
  /\ neg[n] \in {"setup", "answered"}
  /\ Teardown(n)
  /\ UNCHANGED <<offering, mail, remote, cut, data, dups>>

\* A channel opens on the answering side, and is served.
Accept(n) ==
  /\ neg[n] = "answered" /\ remote[sid[n]] = n
  /\ pc[sid[n]] = "open" /\ sid[n] \notin cut
  /\ neg' = [neg EXCEPT ![n] = "serving"]
  /\ UNCHANGED <<offering, sid, slot, failing, mail, remote, cut, data, dups>>

\* ServeAudioOverConn reads the end of the channel, or a state change tells of it.
PeerLost(n) ==
  /\ neg[n] = "serving"
  /\ sid[n] \in cut \/ pc[sid[n]] = "closed"
  /\ Teardown(n)
  /\ UNCHANGED <<offering, mail, remote, cut, data, dups>>

\* ServeAudioOverConn: one request after the other.
Serve(n) ==
  LET c == sid[n]
  IN /\ neg[n] = "serving" /\ c \notin cut /\ toPeer[c] # <<>>
     /\ toPeer' = [toPeer EXCEPT ![c] = Tail(@)]
     /\ fromPeer' = [fromPeer EXCEPT ![c] =
                       @ \o << <<"head", Head(toPeer[c])>>, <<"body", Head(toPeer[c])>> >>]
     /\ UNCHANGED <<offering, answering, mail, remote, cut, copied, shared, dups>>

-----------------------------------------------------------------------------
(* A request on its connection: serveAudioRequest.                          *)

Usable(c) == pc[c] = "open"

Finish(r) == at' = [at EXCEPT ![r] = "end"]

Write(r) ==
  /\ at[r] = "write" /\ Usable(conn[r])
  /\ toPeer' = [toPeer EXCEPT ![conn[r]] = Append(@, r)]
  /\ at' = [at EXCEPT ![r] = "head"]
  /\ UNCHANGED <<conn, pc, opening, dial, cache, answering, mail, remote, cut,
                 fromPeer, copied, shared, dups>>

\* The status and the headers.  Bytes of a body are taken for a frame as well, and end
\* the request.
ReadHead(r) ==
  LET c == conn[r]
  IN /\ at[r] = "head" /\ Usable(c) /\ fromPeer[c] # <<>>
     /\ fromPeer' = [fromPeer EXCEPT ![c] = Tail(@)]
     /\ IF Head(fromPeer[c])[1] = "head"
        THEN /\ at' = [at EXCEPT ![r] = "body"]
             /\ copied' = [copied EXCEPT ![r] = {Head(fromPeer[c])[2]}]
        ELSE Finish(r) /\ UNCHANGED copied
     /\ UNCHANGED <<conn, pc, opening, dial, cache, answering, mail, remote, cut,
                    toPeer, shared, dups>>

\* Mutant of ReadBody: it stops short of the end of the body.
ReadBodyShort(r) ==
  LET c == conn[r]
  IN /\ at[r] = "body" /\ Usable(c) /\ fromPeer[c] # <<>>
     /\ copied' = [copied EXCEPT ![r] = @ \cup {Head(fromPeer[c])[2]}]
     /\ Finish(r)
     /\ UNCHANGED <<conn, pc, opening, dial, cache, answering, mail, remote, cut,
                    toPeer, fromPeer, shared, dups>>

\* As many bytes as the headers say, whosever they are.
ReadBody(r) ==
  LET c == conn[r]
  IN /\ at[r] = "body" /\ Usable(c) /\ fromPeer[c] # <<>>
     /\ copied' = [copied EXCEPT ![r] = @ \cup {Head(fromPeer[c])[2]}]
     /\ fromPeer' = [fromPeer EXCEPT ![c] = Tail(@)]
     /\ Finish(r)
     /\ UNCHANGED <<conn, pc, opening, dial, cache, answering, mail, remote, cut,
                    toPeer, shared, dups>>

\* The client goes in mid-answer, and the rest of the body stays in the channel.
ClientGone(r) ==
  /\ at[r] = "body"
  /\ Finish(r)
  /\ shared' = shared \cup {conn[r]}
  /\ UNCHANGED <<conn, pc, opening, dial, cache, answering, mail, remote, cut,
                 toPeer, fromPeer, copied, dups>>

\* The connection is closed, or the far end closed the channel and all it wrote is read.
Broken(r) ==
  /\ at[r] \in {"write", "head", "body"}
  /\ \/ pc[conn[r]] = "closed"
     \/ FarClosed(conn[r]) /\ fromPeer[conn[r]] = <<>>
  /\ Finish(r)
  /\ UNCHANGED <<conn, pc, opening, dial, cache, answering, mail, remote, cut, data, dups>>

-----------------------------------------------------------------------------
\* The path of a connection breaks.
Cut(r) ==
  /\ Cardinality(cut) < MaxCuts
  /\ r \notin cut /\ pc[r] = "open" /\ remote[r] # None
  /\ cut' = cut \cup {r}
  /\ UNCHANGED <<offering, answering, mail, remote, data, dups>>

Offerer(r) ==
  \/ Dial(r) \/ SendOffer(r) \/ GiveUp(r) \/ Return(r)
  \/ Opened(r) \/ Put(r) \/ Store(r) \/ Lost(r)

Stream(r) == Write(r) \/ ReadHead(r) \/ ReadBody(r) \/ ClientGone(r) \/ Broken(r)

Answerer(n) ==
  Answer(n) \/ AnswerFails(n) \/ Watchdog(n) \/ Accept(n) \/ PeerLost(n) \/ Serve(n) \/ RouteAnswer(n)

Next ==
  \/ \E r \in Requests : Offerer(r) \/ Stream(r) \/ ReadOffer(r) \/ Cut(r)
  \/ \E n \in Negs : Answerer(n)

\* Timers fire, and the loss of a connection is noticed at either end.
Fairness ==
  /\ \A r \in Requests : WF_vars(SendOffer(r)) /\ WF_vars(GiveUp(r)) /\ WF_vars(Lost(r))
  /\ \A n \in Negs : WF_vars(Watchdog(n)) /\ WF_vars(PeerLost(n))

Spec == Init /\ [][Next]_vars /\ Fairness

-----------------------------------------------------------------------------
\* An answering PeerConnection that lives holds its SID, so whatever ends the
\* negotiation finds it: offers that come again, late or after the end of their
\* negotiation orphan none (webrtc.go:246-256).
AnswererAccounted ==
  \A n \in Negs : neg[n] \in {"setup", "answered", "serving"} <=> sid[n] # None /\ slot[sid[n]] = n

\* A connection that works leaves the cache by its own end or by a newer one being
\* put, never by the failure of another dial (webrtc.go:383-390, 669-674).
OwnEviction ==
  [][\A c \in Requests :
       cache = c /\ cache' # c /\ pc[c] = "open" /\ pc'[c] = "open"
         => cache' # None /\ opening[cache'] = "put"]_vars

\* A dial that gave up leaves nothing at the peer, even if the channel opened while it
\* was giving up (webrtc.go:379-382, 549-552).
AnswererDrains ==
  \A n \in Negs :
    (neg[n] \in {"setup", "answered", "serving"} /\ at[sid[n]] = "nexttier") ~> neg[n] = "closed"

\* Requests that have a connection to themselves, one after the other and each to the
\* end of its answer, are given their own answers, and find nothing of another's in the
\* channel (webrtc_audio.go:133-134).
OwnAnswerAlone ==
  \A r \in Requests : conn[r] \notin shared =>
    /\ copied[r] \subseteq {r}
    /\ at[r] \in {"head", "body"} =>
         \A i \in DOMAIN fromPeer[conn[r]] : fromPeer[conn[r]][i][2] = r

\* What a comment says of the channel, and the code does not see to: "a single request
\* occupies the channel" (webrtc_audio.go:119-120), so a client is given its own track.
OwnAnswer == \A r \in Requests : copied[r] \subseteq {r}
=============================================================================
