------------------------------ MODULE Playback ------------------------------
(***************************************************************************)
(* The scrobbling path: house's playback loop decides when a play is over  *)
(* and settles it (main.go, nowplaying.go, threshold.go), the listen waits *)
(* in a durable queue (store/scrobble.go), and one drainer delivers it to  *)
(* ListenBrainz and Last.fm (scrobble/drainer.go, external/).  Requests and *)
(* answers get lost, statements fail, the server crashes and restarts,     *)
(* tracks vanish from the library and Last.fm sessions are revoked.        *)
(* A play is the n-th track that house started.                            *)
(***************************************************************************)
EXTENDS Naturals, Sequences, FiniteSets

CONSTANTS
  Tracks,
  NoTrack,
  ListenBrainz,  \* configured by a token in the environment
  Lastfm,        \* configured by a session key in the database
  Limit,         \* NewDrainer's batch size (50)
  MaxTries,      \* attempts of one HTTP request (4)
  MaxPlays,      \* bound on the tracks house starts
  MaxFaults,     \* bound on crashes, failed statements and lost answers
  MaxReauths     \* bound on runs of exit66jukebox lastfm-auth

ASSUME PlaybackAssumption ==
  /\ NoTrack \notin Tracks /\ ListenBrainz # Lastfm
  /\ Limit \in Nat \ {0} /\ MaxTries \in Nat \ {0}
  /\ MaxPlays \in Nat /\ MaxFaults \in Nat /\ MaxReauths \in Nat

Services == {ListenBrainz, Lastfm}

VARIABLES
  library,   \* the tracks that have a row
  played,    \* played[n]: the track of the n-th play
  np,        \* NowPlaying: the current play, 0 when idle (and `playing` of next)
  ripe,      \* whether np's offset passes the scrobble threshold
  pc,        \* where the loop is: "top", "found", "settle", "enqueue", "start", "play"
  incoming,  \* the track it is about to start
  todo,      \* services EnqueueScrobble has yet to write a row for
  rows,      \* scrobble_queue, per service: [id |-> ..., play |-> ...]
  nextId,    \* its AUTOINCREMENT
  due,       \* services this drain cycle has yet to visit
  phase,     \* where the drainer is: "wait", "pick", "resolve", "submit", "delete"
  busy,      \* the service it is at, ListenBrainz between two turns
  batch,     \* rows it has yet to resolve
  listens,   \* rows it submits, then rows it has yet to delete
  tries,     \* attempts of the request under way
  stored,    \* service_auth: Last.fm's session key, "none", "good" or "bad"
  held,      \* the session key the running process was started with
  live,      \* Lastfm.authorized
  revoking,  \* whether disable() has yet to call onDisabled
  got,       \* got[svc][n]: how many times svc has received play n
  owed,      \* owed[svc]: the plays a row was ever written for
  ripened,   \* plays that passed the threshold
  lost,      \* plays a fault hit before they were settled
  faults,    \* crashes, failed statements and lost answers so far
  reauths    \* runs of lastfm-auth so far

loop == <<played, np, ripe, pc, incoming, todo>>
queue == <<rows, nextId>>
drainer == <<due, phase, busy, batch, listens, tries>>
session == <<stored, held, live, revoking, reauths>>
ghosts == <<got, owed, ripened, lost>>
vars == <<library, loop, queue, drainer, session, ghosts, faults>>

Plays == 1 .. MaxPlays
Row == [id : Nat, play : Plays]

LoopTypes ==
  /\ library \in SUBSET Tracks
  /\ played \in Seq(Tracks) /\ Len(played) <= MaxPlays
  /\ np \in 0 .. Len(played) /\ ripe \in BOOLEAN
  /\ pc \in {"top", "found", "settle", "enqueue", "start", "play"}
  /\ incoming \in Tracks \cup {NoTrack} /\ todo \in SUBSET Services

QueueTypes ==
  /\ rows \in [Services -> SUBSET Row] /\ nextId \in Nat
  /\ got \in [Services -> [Plays -> Nat]] /\ owed \in [Services -> SUBSET Plays]
  /\ ripened \in SUBSET Plays /\ lost \in SUBSET Plays
  /\ faults \in Nat

DrainTypes ==
  /\ due \in SUBSET Services /\ busy \in Services /\ tries \in 0 .. MaxTries - 1
  /\ phase \in {"wait", "pick", "resolve", "submit", "delete"}
  /\ batch \in SUBSET Row /\ listens \in SUBSET Row

KeyTypes ==
  /\ stored \in {"none", "good", "bad"} /\ held \in {"none", "good", "bad"}
  /\ live \in BOOLEAN /\ revoking \in BOOLEAN /\ reauths \in Nat

TypeOK == LoopTypes /\ QueueTypes /\ DrainTypes /\ KeyTypes

Wired == {ListenBrainz} \cup (IF held = "none" THEN {} ELSE {Lastfm})

Init ==
  /\ library = Tracks
  /\ played = << >> /\ np = 0 /\ ripe = FALSE
  /\ pc = "top" /\ incoming = NoTrack /\ todo = {}
  /\ rows = [s \in Services |-> {}] /\ nextId = 1
  /\ due = {} /\ phase = "wait" /\ busy = ListenBrainz
  /\ batch = {} /\ listens = {} /\ tries = 0
  /\ stored \in {"none", "good"} /\ held = stored
  /\ live = (stored # "none") /\ revoking = FALSE /\ reauths = 0
  /\ got = [s \in Services |-> [n \in Plays |-> 0]]
  /\ owed = [s \in Services |-> {}]
  /\ ripened = {} /\ lost = {} /\ faults = 0

\* Something goes wrong that a sound deployment sees now and then, not for ever.
Fault == faults < MaxFaults /\ faults' = faults + 1

-----------------------------------------------------------------------------
(* House's playback loop: streamBuilder's next, called over and over.       *)

\* The track has been on air long enough; the clock also runs while a failed pop
\* leaves the stream silent.
Ripen ==
  /\ np # 0 /\ ~ripe /\ pc \in {"top", "found", "play"}
  /\ ripe' = TRUE
  /\ ripened' = ripened \cup {np}
  /\ UNCHANGED <<library, played, np, pc, incoming, todo, queue, drainer, session,
                 got, owed, lost, faults>>

\* jukebox.Next: a track that had a row a moment ago, or nothing.
NextTrack ==
  /\ pc = "top"
  /\ \/ \E t \in library : /\ Len(played) < MaxPlays
                           /\ pc' = "found" /\ incoming' = t
     \/ np # 0 /\ pc' = "settle" /\ incoming' = NoTrack
  /\ UNCHANGED <<library, played, np, ripe, todo, queue, drainer, session, ghosts, faults>>

\* Mutant of GetTrack: a track that vanished ends the current one as well.
GetTrackClears ==
  /\ pc = "found"
  /\ IF incoming \in library
     THEN pc' = "settle" /\ UNCHANGED <<np, ripe, incoming>>
     ELSE pc' = "top" /\ np' = 0 /\ ripe' = FALSE /\ incoming' = NoTrack
  /\ UNCHANGED <<library, played, todo, queue, drainer, session, ghosts, faults>>

\* A track that vanished since the pop is skipped, and nothing is settled.
GetTrack ==
  /\ pc = "found"
  /\ IF incoming \in library
     THEN pc' = "settle" /\ UNCHANGED incoming
     ELSE pc' = "top" /\ incoming' = NoTrack
  /\ UNCHANGED <<library, played, np, ripe, todo, queue, drainer, session, ghosts, faults>>

\* activeScrobbleServices: who wants listens at this moment.
Active == {ListenBrainz} \cup (IF held # "none" /\ live THEN {Lastfm} ELSE {})

\* settle, up to the list of services that are active at this moment.
Settle ==
  /\ pc = "settle"
  /\ IF np # 0 /\ ripe
     THEN todo' = Active /\ pc' = "enqueue"
     ELSE pc' = "start" /\ UNCHANGED todo
  /\ UNCHANGED <<library, played, np, ripe, incoming, queue, drainer, session, ghosts, faults>>

\* EnqueueScrobble, one INSERT per service; the first error ends the loop.
Enqueue(s) ==
  /\ pc = "enqueue" /\ s \in todo
  /\ s = Lastfm => ListenBrainz \notin todo
  /\ \/ /\ rows' = [rows EXCEPT ![s] = @ \cup {[id |-> nextId, play |-> np]}]
        /\ nextId' = nextId + 1
        /\ owed' = [owed EXCEPT ![s] = @ \cup {np}]
        /\ todo' = todo \ {s}
        /\ pc' = IF todo = {s} THEN "start" ELSE "enqueue"
        /\ UNCHANGED <<lost, faults>>
     \/ /\ Fault
        /\ lost' = lost \cup {np}
        /\ todo' = {} /\ pc' = "start"
        /\ UNCHANGED <<queue, owed>>
  /\ UNCHANGED <<library, played, np, ripe, incoming, drainer, session, got, ripened>>

\* Mutant of Start: the stream goes idle and the holder is not cleared.
StartNotCleared ==
  /\ pc = "start"
  /\ IF incoming = NoTrack
     THEN pc' = "top" /\ UNCHANGED <<played, np, ripe>>
     ELSE /\ played' = Append(played, incoming)
          /\ np' = Len(played) + 1 /\ ripe' = FALSE /\ pc' = "play"
  /\ incoming' = NoTrack
  /\ UNCHANGED <<library, todo, queue, drainer, session, ghosts, faults>>

\* np.Set for the track that starts, or np.Clear when there is none.
Start ==
  /\ pc = "start"
  /\ ripe' = FALSE
  /\ IF incoming = NoTrack
     THEN pc' = "top" /\ np' = 0 /\ UNCHANGED played
     ELSE /\ played' = Append(played, incoming)
          /\ np' = Len(played) + 1 /\ pc' = "play"
  /\ incoming' = NoTrack
  /\ UNCHANGED <<library, todo, queue, drainer, session, ghosts, faults>>

\* Hub.play returns: the track ended, or its source failed.
PlayEnds ==
  /\ pc = "play"
  /\ pc' = "top"
  /\ UNCHANGED <<library, played, np, ripe, incoming, todo, queue, drainer, session,
                 ghosts, faults>>

-----------------------------------------------------------------------------
(* The drainer.                                                             *)

\* Run's timer: the next cycle goes over every wired service, in any order.
Cycle ==
  /\ phase = "wait"
  /\ phase' = "pick" /\ due' = Wired
  /\ UNCHANGED <<library, loop, queue, busy, batch, listens, tries, session, ghosts, faults>>

\* drainService returns: on to the next service, or to the wait.
NextService ==
  /\ busy' = ListenBrainz /\ batch' = {} /\ listens' = {} /\ tries' = 0
  /\ phase' = IF due = {} THEN "wait" ELSE "pick"
  /\ UNCHANGED due

Older(R) == {B \in SUBSET R : \A r \in B, q \in R \ B : r.id < q.id}
Oldest(R) == {r \in R : \A q \in R : r.id <= q.id}

\* ScrobbleBatch: the oldest rows, up to the limit.
Batch(R) == {B \in Older(R) : /\ Cardinality(B) <= Limit
                              /\ Cardinality(B) < Limit => B = R}

\* An empty queue, or a failed query, is the end of this service's turn.
Pick(s) ==
  /\ phase = "pick" /\ s \in due
  /\ due' = due \ {s}
  /\ \/ /\ rows[s] # {}
        /\ busy' = s
        /\ batch' \in Batch(rows[s])
        /\ phase' = "resolve"
        /\ UNCHANGED faults
     \/ /\ (rows[s] = {} /\ UNCHANGED faults) \/ Fault
        /\ phase' = IF due = {s} THEN "wait" ELSE "pick"
        /\ UNCHANGED <<busy, batch>>
  /\ UNCHANGED <<library, loop, queue, listens, tries, session, ghosts>>

\* Mutant of Resolve: a row whose metadata cannot be read is skipped for this time.
ResolveSkips ==
  /\ phase = "resolve"
  /\ \/ \E r \in Oldest(batch) :
          /\ batch' = batch \ {r}
          /\ IF played[r.play] \in library
             THEN listens' = listens \cup {r} /\ UNCHANGED rows
             ELSE rows' = [rows EXCEPT ![busy] = @ \ {r}] /\ UNCHANGED listens
          /\ UNCHANGED <<due, busy, phase, tries, faults>>
     \/ batch = {} /\ listens # {} /\ phase' = "submit"
        /\ UNCHANGED <<rows, due, busy, batch, listens, tries, faults>>
     \/ batch = {} /\ listens = {} /\ NextService /\ UNCHANGED <<rows, faults>>
     \/ Fault /\ \E r \in Oldest(batch) : batch' = batch \ {r}
        /\ UNCHANGED <<rows, due, busy, phase, listens, tries>>
  /\ UNCHANGED <<library, loop, nextId, session, ghosts>>

\* ScrobbleMetadata of the next row: it joins the submission, or it is an orphan
\* and its row is deleted; a failed statement ends this service's turn.
Resolve ==
  /\ phase = "resolve"
  /\ \/ \E r \in Oldest(batch) :
          /\ batch' = batch \ {r}
          /\ IF played[r.play] \in library
             THEN listens' = listens \cup {r} /\ UNCHANGED rows
             ELSE rows' = [rows EXCEPT ![busy] = @ \ {r}] /\ UNCHANGED listens
          /\ UNCHANGED <<due, busy, phase, tries, faults>>
     \/ batch = {} /\ listens # {} /\ phase' = "submit"
        /\ UNCHANGED <<rows, due, busy, batch, listens, tries, faults>>
     \/ batch = {} /\ listens = {} /\ NextService /\ UNCHANGED <<rows, faults>>
     \/ batch # {} /\ Fault /\ NextService /\ UNCHANGED rows
  /\ UNCHANGED <<library, loop, nextId, session, ghosts>>

\* What the service at hand does with a request it accepts.
Received == got' = [got EXCEPT ![busy] =
              [n \in Plays |-> IF \E r \in listens : r.play = n THEN @[n] + 1 ELSE @[n]]]

\* Whether Submit sends anything: Last.fm's checks that it is authorized.
Sends == phase = "submit" /\ (busy = Lastfm => live)

\* Mutant of Accepted: the rows of an accepted batch stay.
AcceptedKeepsRows ==
  /\ Sends /\ (busy = Lastfm => held = "good")
  /\ Received
  /\ NextService
  /\ UNCHANGED <<library, loop, queue, session, owed, ripened, lost, faults>>

\* The request and its answer get through.
Accepted ==
  /\ Sends /\ (busy = Lastfm => held = "good")
  /\ Received
  /\ phase' = "delete"
  /\ UNCHANGED <<library, loop, queue, due, busy, batch, listens, tries, session,
                 owed, ripened, lost, faults>>

\* Mutant of TryAgain: one attempt too many.
TryAgainOnceMore ==
  IF tries < MaxTries
  THEN tries' = tries + 1 /\ UNCHANGED <<due, phase, busy, batch, listens>>
  ELSE NextService

\* doRequest tries again, or gives up: attempts are bumped and the rows stay.
TryAgain ==
  IF tries + 1 < MaxTries
  THEN tries' = tries + 1 /\ UNCHANGED <<due, phase, busy, batch, listens>>
  ELSE NextService

\* The service receives the batch; its answer does not arrive.
AnswerLost ==
  /\ Sends /\ (busy = Lastfm => held = "good")
  /\ Fault
  /\ Received
  /\ TryAgain
  /\ UNCHANGED <<library, loop, queue, session, owed, ripened, lost>>

\* The service is down or busy (429, 5xx), or no request reaches it.
Unavailable ==
  /\ Sends
  /\ TryAgain
  /\ UNCHANGED <<library, loop, queue, session, ghosts, faults>>

\* Mutant of Refused: gives up on the batch and drops its rows.
RefusedDrops ==
  /\ Sends
  /\ phase' = "delete"
  /\ UNCHANGED <<library, loop, queue, due, busy, batch, listens, tries, session, ghosts, faults>>

\* Mutant of Refused: one service's failure ends the cycle for the others.
RefusedEndsCycle ==
  /\ Sends
  /\ due' = {} /\ phase' = "wait" /\ batch' = {} /\ listens' = {} /\ tries' = 0
  /\ UNCHANGED <<library, loop, queue, busy, session, ghosts, faults>>

\* The service answers with another error: no retry, the rows stay.
Refused ==
  /\ Sends
  /\ NextService
  /\ UNCHANGED <<library, loop, queue, session, ghosts, faults>>

\* Submit on a client that is not authorized: the rows wait for a re-auth.
Disabled ==
  /\ phase = "submit" /\ busy = Lastfm /\ ~live
  /\ NextService
  /\ UNCHANGED <<library, loop, queue, session, ghosts, faults>>

\* DeleteScrobble, row by row; a failed statement leaves the rest.
Delete ==
  /\ phase = "delete"
  /\ \/ \E r \in Oldest(listens) :
          /\ rows' = [rows EXCEPT ![busy] = @ \ {r}]
          /\ listens' = listens \ {r}
          /\ UNCHANGED <<due, phase, busy, batch, tries, faults>>
     \/ listens = {} /\ NextService /\ UNCHANGED <<rows, faults>>
     \/ listens # {} /\ Fault /\ NextService /\ UNCHANGED rows
  /\ UNCHANGED <<library, loop, nextId, session, ghosts>>

-----------------------------------------------------------------------------
(* Last.fm's session key.                                                   *)

\* disable: error 9 answers a scrobble or a now-playing notification; a request of
\* the drainer that is under way ends as Disabled.
Disable ==
  /\ held = "bad" /\ live
  /\ (phase = "submit" /\ busy = Lastfm) \/ played # << >>
  /\ live' = FALSE /\ revoking' = TRUE
  /\ UNCHANGED <<library, loop, queue, drainer, stored, held, reauths, ghosts, faults>>

\* onDisabled: DeleteServiceAuth by the service's name; its failure is only logged.
OnDisabled ==
  /\ revoking
  /\ revoking' = FALSE
  /\ \/ stored' = "none" /\ UNCHANGED faults
     \/ Fault /\ UNCHANGED stored
  /\ UNCHANGED <<library, loop, queue, drainer, held, live, reauths, ghosts>>

\* The user withdraws the application's access: every key issued so far is bad.
Revoke ==
  /\ "good" \in {stored, held}
  /\ stored' = IF stored = "good" THEN "bad" ELSE stored
  /\ held' = IF held = "good" THEN "bad" ELSE held
  /\ UNCHANGED <<library, loop, queue, drainer, live, revoking, reauths, ghosts, faults>>

\* exit66jukebox lastfm-auth, a process of its own, stores a new key.
Reauth ==
  /\ reauths < MaxReauths
  /\ reauths' = reauths + 1
  /\ stored' = "good"
  /\ UNCHANGED <<library, loop, queue, drainer, held, live, revoking, ghosts, faults>>

-----------------------------------------------------------------------------
\* The server stops, however it does, and starts again: newLastfm reads the key.
Restart ==
  /\ Fault
  /\ np' = 0 /\ ripe' = FALSE /\ pc' = "top" /\ incoming' = NoTrack /\ todo' = {}
  /\ due' = {} /\ phase' = "wait" /\ busy' = ListenBrainz
  /\ batch' = {} /\ listens' = {} /\ tries' = 0
  /\ held' = stored /\ live' = (stored # "none") /\ revoking' = FALSE
  /\ lost' = IF np = 0 THEN lost ELSE lost \cup {np}
  /\ UNCHANGED <<library, played, queue, stored, reauths, got, owed, ripened>>

\* A scan or a sync removes a track.
Vanish(t) ==
  /\ t \in library
  /\ library' = library \ {t}
  /\ UNCHANGED <<loop, queue, drainer, session, ghosts, faults>>

-----------------------------------------------------------------------------
Loop == NextTrack \/ GetTrack \/ Settle \/ Start \/ PlayEnds \/ \E s \in Services : Enqueue(s)

Drain == Cycle \/ (\E s \in Services : Pick(s)) \/ Resolve \/ Delete \/ Disabled

Request == Accepted \/ AnswerLost \/ Unavailable \/ Refused

Key == Disable \/ OnDisabled \/ Revoke \/ Reauth

Next == Loop \/ Ripen \/ Drain \/ Request \/ Key \/ Restart \/ \E t \in Tracks : Vanish(t)

\* The drainer's goroutine runs, its timer fires and its requests end (at each point
\* of its code only one of these is possible); a service that is asked again and
\* again accepts in the end.  Nothing else is owed.
Fairness ==
  /\ WF_drainer(Drain \/ Request)
  /\ SF_drainer(busy = ListenBrainz /\ Accepted)

Spec == Init /\ [][Next]_vars /\ Fairness

-----------------------------------------------------------------------------
Queued(s) == {r.play : r \in rows[s]}
Gone(n) == played[n] \notin library

\* At least once: a listen that got a row is in the queue until its service has
\* received it or its track is gone, through failed requests and statements,
\* crashes between any two steps, and a disabled service (drainer.go:75-126).
NothingDropped ==
  \A s \in Services : \A n \in owed[s] :
    n \in Queued(s) \/ got[s][n] > 0 \/ Gone(n)

\* A service receives the listens in the order of the plays: none is overtaken by
\* a later one, however batches fail and are sent again.
DeliveredInOrder ==
  \A s \in Services : \A m \in Queued(s), n \in Plays :
    m < n /\ got[s][n] > 0 => got[s][m] > 0 \/ Gone(m)

\* A listen is delivered again only when something went wrong after it was
\* received: once for each crash, failed delete or lost answer, never otherwise.
DuplicatesExplained ==
  \A s \in Services : \A n \in Plays : got[s][n] <= 1 + faults

\* A play is settled once: no row is written for a play that ever had one, though
\* settle runs both when a track starts and when the stream goes idle.
SettledOnce ==
  pc = "enqueue" => \A s \in todo : np \notin owed[s]

\* And it is settled: a play that passed the threshold and is over has its row,
\* unless a crash or a failed insert hit it, whatever was popped after it.
NotForgotten ==
  \A n \in ripened : n = np \/ n \in owed[ListenBrainz] \cup lost

\* A backlog for ListenBrainz is worked off once house has played its last track,
\* whatever troubles Last.fm has meanwhile (disabled, down, refusing): the cycle goes
\* on to the other service after an error.
EventuallyDelivered ==
  (Queued(ListenBrainz) # {}) ~> (Queued(ListenBrainz) = {})

-----------------------------------------------------------------------------
(* The inductive invariant of PlaybackProofs.                               *)

\* The loop: the current play is the last one, and where it stands with its rows.
LoopInv ==
  /\ np \in {0, Len(played)}
  /\ incoming # NoTrack => Len(played) < MaxPlays
  /\ ripened \subseteq 1 .. Len(played)
  /\ np = 0 => ~ripe
  /\ np # 0 => (ripe <=> np \in ripened)
  /\ pc \notin {"enqueue", "start"} => \A s \in Services : np \notin owed[s]
  /\ pc = "enqueue" => ripe
  /\ pc = "enqueue" /\ ListenBrainz \notin todo => np \in owed[ListenBrainz]
  /\ pc = "start" /\ ripe => np \in owed[ListenBrainz] \cup lost

\* The queue: a play has at most one row per service, in the order of the ids.
QueueInv ==
  \A s \in Services :
    /\ owed[s] \subseteq 1 .. Len(played)
    /\ \A n \in Plays : got[s][n] > 0 => n \in owed[s]
    /\ \A r \in rows[s] : r.play \in owed[s] /\ r.id < nextId
    /\ \A r, q \in rows[s] : r.id <= q.id <=> r.play <= q.play

\* The drainer works on a prefix of one service's queue, and deletes only what the
\* service has received.
DrainInv ==
  /\ phase \in {"wait", "pick"} => batch = {} /\ listens = {}
  /\ phase \in {"submit", "delete"} => batch = {}
  /\ batch \cup listens \subseteq rows[busy] /\ batch \cap listens = {}
  /\ phase \in {"resolve", "submit"} =>
       \A r \in batch \cup listens, q \in rows[busy] :
         q.play < r.play => q \in batch \cup listens
  /\ phase = "delete" => \A r \in listens : got[busy][r.play] > 0

\* What the drainer is about to delete.
Done(s) == IF phase = "delete" /\ busy = s THEN listens ELSE {}

\* A row that may be submitted again has been received once per fault at most.
UnsentInv == \A s \in Services : \A r \in rows[s] \ Done(s) : got[s][r.play] <= faults

IInv ==
  /\ TypeOK /\ LoopInv /\ QueueInv /\ DrainInv /\ UnsentInv
  /\ NothingDropped /\ DeliveredInOrder /\ DuplicatesExplained
  /\ SettledOnce /\ NotForgotten

-----------------------------------------------------------------------------
(* What a comment of the repository says, and the code does not do.         *)

\* main.go:440-441 "On an invalid session at runtime the client clears its
\* service_auth row": the row it clears holds the key it was running with.
ClearsItsOwn == [][OnDisabled /\ stored' # stored => stored # "good"]_vars
=============================================================================
