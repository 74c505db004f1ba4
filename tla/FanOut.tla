------------------------------- MODULE FanOut -------------------------------
(***************************************************************************)
(* The fan-out protocol shared by broadcast.Hub (internal/broadcast/hub.go)*)
(* and events.Bus (internal/events/bus.go): one mutex, a set of buffered   *)
(* channels, a closed flag, and HTTP handlers that each own one channel.   *)
(* Every action is one critical section of the mutex, or one step a        *)
(* handler takes outside it.  A client is one handler, hence one channel.  *)
(***************************************************************************)
EXTENDS Naturals, Sequences

CONSTANTS
  Clients,   \* handler goroutines, one channel each
  Capacity,  \* buffer size of a channel (64 for the hub, 16 for the bus)
  MaxSent    \* bound on the number of chunks broadcast

ASSUME FanOutAssumption == Capacity \in Nat \ {0} /\ MaxSent \in Nat

VARIABLES
  closed,     \* Hub.closed
  listeners,  \* Hub.listeners: the clients whose channel is registered
  chan,       \* chan[c]: "none" until Listen makes it, then "open", then "closed"
  buf,        \* buf[c]: the chunks buffered in c's channel
  phase,      \* where c's handler is
  last,       \* last[c]: the newest chunk c has read, or the head when it joined
  sent,       \* number of chunks broadcast
  panicked    \* TRUE once a channel was closed twice or sent to after its close

fanOutVars == <<closed, listeners, chan, buf, phase, last, sent, panicked>>

ClientPhases == {"out", "listened", "reading", "stopping", "closing", "ended"}

FanOutTypeOK ==
  /\ closed \in BOOLEAN
  /\ listeners \in SUBSET Clients
  /\ chan \in [Clients -> {"none", "open", "closed"}]
  /\ buf \in [Clients -> Seq(Nat)]
  /\ \A c \in Clients : Len(buf[c]) <= Capacity
  /\ phase \in [Clients -> ClientPhases]
  /\ last \in [Clients -> Nat]
  /\ sent \in Nat
  /\ panicked \in BOOLEAN

FanOutInit ==
  /\ closed = FALSE
  /\ listeners = {}
  /\ chan = [c \in Clients |-> "none"]
  /\ buf = [c \in Clients |-> << >>]
  /\ phase = [c \in Clients |-> "out"]
  /\ last = [c \in Clients |-> 0]
  /\ sent = 0
  /\ panicked = FALSE

\* Mutant of Listen: registers on a closed fan-out as well.
ListenUnchecked(c) ==
  /\ phase[c] = "out"
  /\ phase' = [phase EXCEPT ![c] = "listened"]
  /\ last' = [last EXCEPT ![c] = sent]
  /\ chan' = [chan EXCEPT ![c] = "open"]
  /\ listeners' = listeners \cup {c}
  /\ UNCHANGED <<closed, buf, sent, panicked>>

(***************************************************************************)
(* Listen / Subscribe: a closed fan-out hands back a channel that is       *)
(* already closed and registers nothing.                                   *)
(***************************************************************************)
Listen(c) ==
  /\ phase[c] = "out"
  /\ phase' = [phase EXCEPT ![c] = "listened"]
  /\ last' = [last EXCEPT ![c] = sent]
  /\ chan' = [chan EXCEPT ![c] = IF closed THEN "closed" ELSE "open"]
  /\ listeners' = IF closed THEN listeners ELSE listeners \cup {c}
  /\ UNCHANGED <<closed, buf, sent, panicked>>

\* attach's register callback looks at Closed() after registering and stops if set.
LookAgain(c) ==
  /\ phase[c] = "listened"
  /\ phase' = [phase EXCEPT ![c] = IF closed THEN "stopping" ELSE "reading"]
  /\ UNCHANGED <<closed, listeners, chan, buf, last, sent, panicked>>

\* The handler's loop receives the oldest buffered chunk and writes it out.
Read(c) ==
  /\ phase[c] = "reading"
  /\ buf[c] # << >>
  /\ last' = [last EXCEPT ![c] = Head(buf[c])]
  /\ buf' = [buf EXCEPT ![c] = Tail(@)]
  /\ UNCHANGED <<closed, listeners, chan, phase, sent, panicked>>

\* A closed channel reports !open only once its buffer is drained.
EndOfFeed(c) ==
  /\ phase[c] = "reading"
  /\ buf[c] = << >> /\ chan[c] = "closed"
  /\ phase' = [phase EXCEPT ![c] = "stopping"]
  /\ UNCHANGED <<closed, listeners, chan, buf, last, sent, panicked>>

\* The request context ends, or the write to the client fails.
Disconnect(c) ==
  /\ phase[c] = "reading"
  /\ phase' = [phase EXCEPT ![c] = "stopping"]
  /\ UNCHANGED <<closed, listeners, chan, buf, last, sent, panicked>>

\* Mutant of Cancel: closes without asking whether Close already did.
CancelAlwaysCloses(c) ==
  /\ phase[c] = "stopping"
  /\ phase' = [phase EXCEPT ![c] = "closing"]
  /\ listeners' = listeners \ {c}
  /\ UNCHANGED <<closed, chan, buf, last, sent, panicked>>

(***************************************************************************)
(* The cancel func.  Its first half runs under the mutex and remembers     *)
(* whether the channel was still registered; the close itself happens      *)
(* after the unlock, and only when it was.                                 *)
(***************************************************************************)
Cancel(c) ==
  /\ phase[c] = "stopping"
  /\ phase' = [phase EXCEPT ![c] = IF c \in listeners THEN "closing" ELSE "ended"]
  /\ listeners' = listeners \ {c}
  /\ UNCHANGED <<closed, chan, buf, last, sent, panicked>>

CloseOwn(c) ==
  /\ phase[c] = "closing"
  /\ phase' = [phase EXCEPT ![c] = "ended"]
  /\ chan' = [chan EXCEPT ![c] = "closed"]
  /\ panicked' = (panicked \/ chan[c] = "closed")
  /\ UNCHANGED <<closed, listeners, buf, last, sent>>

\* Mutant of Close: empties the set of listeners but forgets their channels.
CloseForgetsChannels ==
  /\ ~closed
  /\ closed' = TRUE
  /\ listeners' = {}
  /\ UNCHANGED <<chan, buf, phase, last, sent, panicked>>

\* Close: once, drops and closes every registered channel in one critical section.
Close ==
  /\ ~closed
  /\ closed' = TRUE
  /\ listeners' = {}
  /\ chan' = [c \in Clients |-> IF c \in listeners THEN "closed" ELSE chan[c]]
  /\ panicked' = (panicked \/ \E c \in listeners : chan[c] = "closed")
  /\ UNCHANGED <<buf, phase, last, sent>>

\* Mutant of Broadcast: a send that ignores the buffer's size.
BroadcastUnbounded ==
  /\ sent < MaxSent
  /\ sent' = sent + 1
  /\ buf' = [c \in Clients |-> IF c \in listeners THEN Append(buf[c], sent + 1) ELSE buf[c]]
  /\ panicked' = (panicked \/ \E c \in listeners : chan[c] = "closed")
  /\ UNCHANGED <<closed, listeners, chan, phase, last>>

\* Mutant of Broadcast: sends the previous chunk's buffer again.
BroadcastStaleChunk ==
  /\ sent < MaxSent
  /\ sent' = sent + 1
  /\ buf' = [c \in Clients |-> IF c \in listeners /\ Len(buf[c]) < Capacity
                               THEN Append(buf[c], sent) ELSE buf[c]]
  /\ panicked' = (panicked \/ \E c \in listeners : chan[c] = "closed")
  /\ UNCHANGED <<closed, listeners, chan, phase, last>>

\* broadcast / Publish: a non-blocking send to each channel; a full one drops it.
Broadcast ==
  /\ sent < MaxSent
  /\ sent' = sent + 1
  /\ buf' = [c \in Clients |-> IF c \in listeners /\ Len(buf[c]) < Capacity
                               THEN Append(buf[c], sent + 1) ELSE buf[c]]
  /\ panicked' = (panicked \/ \E c \in listeners : chan[c] = "closed")
  /\ UNCHANGED <<closed, listeners, chan, phase, last>>

\* What a handler does by itself once it has listened.
HandlerStep(c) == LookAgain(c) \/ Read(c) \/ EndOfFeed(c) \/ Cancel(c) \/ CloseOwn(c)

FanOutNext ==
  \/ Close
  \/ Broadcast
  \/ \E c \in Clients : Listen(c) \/ Disconnect(c) \/ HandlerStep(c)

FeedFairness == \A c \in Clients : WF_fanOutVars(HandlerStep(c))

FanOutSpec == FanOutInit /\ [][FanOutNext]_fanOutVars /\ FeedFairness

-----------------------------------------------------------------------------
\* No channel is closed twice (Close racing a listener's own cancel, hub.go:66)
\* and nothing is sent on a closed one: either is a panic of the whole server.
NoPanic == ~panicked

\* A channel is open exactly while it is registered or in the hands of a cancel
\* func that took it out of the map: Close can therefore reach every handler that
\* is still blocked on its feed, no finished handler is left counted, and after
\* Close nobody is (hub.go:59-97).
Ownership ==
  /\ closed => listeners = {}
  /\ \A c \in Clients :
       /\ chan[c] = "open" <=> c \in listeners \/ phase[c] = "closing"
       /\ c \in listeners => phase[c] \in {"listened", "reading", "stopping"}

Increasing(s) == \A i, j \in DOMAIN s : i < j => s[i] < s[j]

\* What a client has yet to read is newer than what it read, in order, and was
\* published: dropping chunks for a slow client never reorders or repeats one.
InOrder ==
  \A c \in Clients :
    /\ Increasing(buf[c])
    /\ \A i \in DOMAIN buf[c] : buf[c][i] \in last[c] + 1 .. sent
    /\ last[c] <= sent

\* The fan-out is a lossy, ordered, eventually released feed.
Status == [c \in Clients |-> CASE phase[c] = "out" -> "out"
                               [] phase[c] = "ended" -> "ended"
                               [] OTHER -> "in"]

Feed == INSTANCE LossyFeed WITH pos <- last, status <- Status, shut <- closed

FeedSpec == Feed!Spec

\* The safety half of FeedSpec: each step of the protocol is a step of the feed.
FeedSafety == Feed!Init /\ [][Feed!Next]_Feed!vars

\* The inductive invariant behind the theorems about it in PipelineProofs.
Fresh == \A c \in Clients : phase[c] = "out" => buf[c] = << >>

FanOutInv == FanOutTypeOK /\ NoPanic /\ Ownership /\ InOrder /\ Fresh
=============================================================================
