------------------------------ MODULE Jukebox ------------------------------
(***************************************************************************)
(* One stream's request queue (internal/jukebox/jukebox.go over            *)
(* internal/store/queue.go and station.go): fairness-checked requests,     *)
(* pops, and the genre station that tops the queue up.  Any number of      *)
(* goroutines (HTTP handlers and the playback loop) run these operations   *)
(* at once; one action is one SQL statement, or one transaction from the   *)
(* statement that takes SQLite's write lock to its commit.                 *)
(***************************************************************************)
EXTENDS Naturals, Sequences, FiniteSets

CONSTANTS
  Tracks,
  NoTrack,
  Genre,      \* the tracks of the station's genre
  Procs,      \* goroutines
  Asks,       \* the sets of tracks (one, an album, an artist) clients request
  Window,     \* Config.HistoryWindow
  Threshold,  \* the station's refill threshold
  Batch,      \* the station's batch size
  Curated,    \* whether users drop tracks and the library loses them
  Faulty,     \* whether statements fail and the program crashes
  MaxOrder    \* bound on play_order

ASSUME JukeboxAssumption ==
  /\ NoTrack \notin Tracks /\ Genre \subseteq Tracks /\ Asks \subseteq SUBSET Tracks
  /\ Window \in Nat /\ MaxOrder \in Nat
  /\ Threshold \in Nat \ {0} /\ Batch \in Nat \ {0}
  /\ Curated \in BOOLEAN /\ Faulty \in BOOLEAN

VARIABLES
  order,    \* queue_item: order[t] is t's play_order, 0 while t is not queued
  history,  \* the last Window tracks played, newest first: all that is ever read
  library,  \* the tracks that have a row
  station,  \* whether a station is attached
  shuffle,  \* Jukebox.shuffle
  pc,       \* pc[p]: the statement p is at
  cur,      \* cur[p]: the track p's statements are about
  wild,     \* wild[p]: the shuffle flag p read
  todo,     \* todo[p]: tracks p has yet to request
  slot,     \* slot[p]: the play_order p computed
  stale,    \* goroutines whose read snapshot is older than the last commit
  tended    \* TRUE while, since StartStation, nothing left the queue but by a pop and
            \* nothing failed while the queue was empty: a history variable

locals == <<pc, cur, wild, todo, slot>>
vars == <<order, history, library, station, shuffle, locals, stale, tended>>

Statements == {"idle", "select", "commit", "lookup", "none", "refill", "count",
               "discover", "inQueue", "recent", "max", "insert"}

TypeOK ==
  /\ order \in [Tracks -> Nat]
  /\ history \in Seq(Tracks) /\ Len(history) <= Window
  /\ library \in SUBSET Tracks
  /\ station \in BOOLEAN /\ shuffle \in BOOLEAN /\ tended \in BOOLEAN
  /\ pc \in [Procs -> Statements]
  /\ cur \in [Procs -> Tracks \cup {NoTrack}]
  /\ wild \in [Procs -> BOOLEAN]
  /\ todo \in [Procs -> SUBSET Tracks]
  /\ slot \in [Procs -> Nat]
  /\ stale \in SUBSET Procs

Init ==
  /\ order = [t \in Tracks |-> 0]
  /\ history = << >>
  /\ library = Tracks
  /\ station = FALSE /\ shuffle = FALSE /\ tended = FALSE
  /\ pc = [p \in Procs |-> "idle"]
  /\ cur = [p \in Procs |-> NoTrack]
  /\ wild = [p \in Procs |-> FALSE]
  /\ todo = [p \in Procs |-> {}]
  /\ slot = [p \in Procs |-> 0]
  /\ stale = {}

Queued == {t \in Tracks : order[t] # 0}
Foremost(t) == t \in Queued /\ \A u \in Queued : order[t] <= order[u]
Recent == {history[i] : i \in DOMAIN history}
LastOrder(n) == /\ \A t \in Tracks : order[t] <= n
                /\ n = 0 \/ \E t \in Tracks : order[t] = n
\* A play_history row goes in; the queries' LIMIT lets only the window be seen.
Record(t) == SubSeq(<<t>> \o history, 1,
                    IF Len(history) < Window THEN Len(history) + 1 ELSE Window)
InTx == {p \in Procs : pc[p] = "commit"}

Goto(p, to) == pc' = [pc EXCEPT ![p] = to]

\* Mutant of Written: SELECT and DELETE are not tied to one snapshot.
WrittenUnnoticed(p) == stale' = stale \ {p}

\* A write by p ages every other open read snapshot.
Written(p) == stale' = InTx \ {p}

-----------------------------------------------------------------------------
(* Next: popWith's transaction, GetTrack, refill.                           *)

Next1(p) ==
  /\ pc[p] = "idle"
  /\ wild' = [wild EXCEPT ![p] = shuffle]
  /\ Goto(p, "select")
  /\ UNCHANGED <<order, history, library, station, shuffle, cur, todo, slot, stale, tended>>

\* BEGIN is deferred: the SELECT opens the snapshot the rest is judged by.
Select(p) ==
  /\ pc[p] = "select"
  /\ \/ Queued = {} /\ Goto(p, "none") /\ UNCHANGED <<cur, stale>>
     \/ /\ \E t \in Queued : /\ wild[p] \/ Foremost(t)
                             /\ cur' = [cur EXCEPT ![p] = t]
        /\ Goto(p, "commit")
        /\ stale' = stale \ {p}
  /\ UNCHANGED <<order, history, library, station, shuffle, wild, todo, slot, tended>>

\* Mutant of Commit: the history query has no LIMIT.
CommitUnlimited(p) ==
  /\ pc[p] = "commit"
  /\ \/ /\ p \in stale
        /\ Goto(p, "none")
        /\ stale' = stale \ {p}
        /\ UNCHANGED <<order, history>>
     \/ /\ p \notin stale
        /\ order' = [order EXCEPT ![cur[p]] = 0]
        /\ history' = <<cur[p]>> \o history
        /\ Goto(p, "lookup")
        /\ Written(p)
  /\ UNCHANGED <<library, station, shuffle, cur, wild, todo, slot, tended>>

\* Mutant of Commit: the transaction goes ahead on an old snapshot.
CommitAnyway(p) ==
  /\ pc[p] = "commit"
  /\ order' = [order EXCEPT ![cur[p]] = 0]
  /\ history' = Record(cur[p])
  /\ Goto(p, "lookup")
  /\ Written(p)
  /\ UNCHANGED <<library, station, shuffle, cur, wild, todo, slot, tended>>

\* The DELETE asks for the write lock: SQLite refuses it to a snapshot that is no
\* longer the newest.  With the lock held the rest of the transaction goes through.
Commit(p) ==
  /\ pc[p] = "commit"
  /\ \/ /\ p \in stale
        /\ Goto(p, "none")
        /\ stale' = stale \ {p}
        /\ UNCHANGED <<order, history>>
     \/ /\ p \notin stale
        /\ order' = [order EXCEPT ![cur[p]] = 0]
        /\ history' = Record(cur[p])
        /\ Goto(p, "lookup")
        /\ Written(p)
  /\ UNCHANGED <<library, station, shuffle, cur, wild, todo, slot, tended>>

Lookup(p) ==
  /\ pc[p] = "lookup"
  /\ Goto(p, IF cur[p] \in library THEN "refill" ELSE "none")
  /\ UNCHANGED <<order, history, library, station, shuffle, cur, wild, todo, slot, stale, tended>>

\* Next returns ok = false.
ReturnFalse(p) ==
  /\ pc[p] = "none"
  /\ Goto(p, "idle")
  /\ cur' = [cur EXCEPT ![p] = NoTrack]
  /\ UNCHANGED <<order, history, library, station, shuffle, wild, todo, slot, stale, tended>>

-----------------------------------------------------------------------------
(* refill: GetStation, QueueLen, DiscoverTracks, then one Request each.     *)

Refill(p) ==
  /\ pc[p] = "refill"
  /\ Goto(p, IF station THEN "count" ELSE "idle")
  /\ cur' = [cur EXCEPT ![p] = NoTrack]
  /\ UNCHANGED <<order, history, library, station, shuffle, wild, todo, slot, stale, tended>>

\* Mutant of Count: one short of the threshold is enough.
CountOffByOne(p) ==
  /\ pc[p] = "count"
  /\ Goto(p, IF Cardinality(Queued) + 1 >= Threshold THEN "idle" ELSE "discover")
  /\ UNCHANGED <<order, history, library, station, shuffle, cur, wild, todo, slot, stale, tended>>

Count(p) ==
  /\ pc[p] = "count"
  /\ Goto(p, IF Cardinality(Queued) >= Threshold THEN "idle" ELSE "discover")
  /\ UNCHANGED <<order, history, library, station, shuffle, cur, wild, todo, slot, stale, tended>>

\* Random tracks of the genre outside the recent history, queued ones included.
Candidates == (Genre \cap library) \ Recent

Discover(p) ==
  /\ pc[p] = "discover"
  /\ \E S \in SUBSET Candidates :
       /\ Cardinality(S) <= Batch
       /\ Cardinality(S) < Batch => S = Candidates
       /\ todo' = [todo EXCEPT ![p] = S]
       /\ Goto(p, IF S = {} THEN "idle" ELSE "inQueue")
  /\ UNCHANGED <<order, history, library, station, shuffle, cur, wild, slot, stale, tended>>

-----------------------------------------------------------------------------
(* Request, alone or in the loops of requestMany and refill.                *)

\* This track is dealt with: on to the next one, if any.
Done(p, t) ==
  /\ todo' = [todo EXCEPT ![p] = @ \ {t}]
  /\ cur' = [cur EXCEPT ![p] = NoTrack]
  /\ slot' = [slot EXCEPT ![p] = 0]
  /\ Goto(p, IF todo[p] \ {t} = {} THEN "idle" ELSE "inQueue")

InQueue(p) ==
  /\ pc[p] = "inQueue"
  /\ \E t \in todo[p] :
       IF t \in Queued
       THEN Done(p, t)
       ELSE /\ cur' = [cur EXCEPT ![p] = t]
            /\ Goto(p, IF Window > 0 THEN "recent" ELSE "max")
            /\ UNCHANGED <<todo, slot>>
  /\ UNCHANGED <<order, history, library, station, shuffle, wild, stale, tended>>

RecentlyPlayed(p) ==
  /\ pc[p] = "recent"
  /\ IF cur[p] \in Recent
     THEN Done(p, cur[p])
     ELSE Goto(p, "max") /\ UNCHANGED <<cur, todo, slot>>
  /\ UNCHANGED <<order, history, library, station, shuffle, wild, stale, tended>>

\* Enqueue's first statement ...
ReadMax(p) ==
  /\ pc[p] = "max"
  /\ \E n \in 0 .. MaxOrder - 1 : LastOrder(n) /\ slot' = [slot EXCEPT ![p] = n + 1]
  /\ Goto(p, "insert")
  /\ UNCHANGED <<order, history, library, station, shuffle, cur, wild, todo, stale, tended>>

\* ... and its second, which the primary key or the foreign key may refuse.
Insert(p) ==
  /\ pc[p] = "insert"
  /\ IF cur[p] \notin Queued /\ cur[p] \in library
     THEN order' = [order EXCEPT ![cur[p]] = slot[p]] /\ Written(p)
     ELSE UNCHANGED <<order, stale>>
  /\ Done(p, cur[p])
  /\ UNCHANGED <<history, library, station, shuffle, wild, tended>>

-----------------------------------------------------------------------------
(* What users and the rest of the server do.                                *)

Ask(p, S) ==
  /\ pc[p] = "idle" /\ S # {}
  /\ todo' = [todo EXCEPT ![p] = S]
  /\ Goto(p, "inQueue")
  /\ UNCHANGED <<order, history, library, station, shuffle, cur, wild, slot, stale, tended>>

StartStation(p) ==
  /\ pc[p] = "idle"
  /\ station' = TRUE
  /\ tended' = TRUE
  /\ Written(p)
  /\ Goto(p, "refill")
  /\ UNCHANGED <<order, history, library, shuffle, cur, wild, todo, slot>>

StopStation ==
  /\ station
  /\ station' = FALSE
  /\ stale' = InTx
  /\ UNCHANGED <<order, history, library, shuffle, locals, tended>>

SetShuffle ==
  /\ shuffle' = ~shuffle
  /\ UNCHANGED <<order, history, library, station, locals, stale, tended>>

\* RemoveFromQueue, ClearQueue: deleting nothing writes nothing.
Drop(S) ==
  /\ Curated /\ S \cap Queued # {}
  /\ order' = [t \in Tracks |-> IF t \in S THEN 0 ELSE order[t]]
  /\ stale' = InTx
  /\ tended' = FALSE
  /\ UNCHANGED <<history, library, station, shuffle, locals>>

\* The library loses a track; the foreign key protects the ones that are queued.
Forget(t) ==
  /\ Curated /\ t \in library \ Queued
  /\ library' = library \ {t}
  /\ stale' = InTx
  /\ tended' = FALSE
  /\ UNCHANGED <<order, history, station, shuffle, locals>>

\* Any other write to the same database file.
OtherCommit ==
  /\ InTx # stale
  /\ stale' = InTx
  /\ UNCHANGED <<order, history, library, station, shuffle, locals, tended>>

-----------------------------------------------------------------------------
(* A statement fails, or the program crashes.  Who is at work on an empty     *)
(* queue is then no longer: nobody else refills it.                           *)

\* popWith rolls back, and the queue is as it was.
PopFails(p) ==
  /\ Faulty
  /\ pc[p] \in {"select", "commit"}
  /\ Goto(p, "none")
  /\ stale' = stale \ {p}
  /\ UNCHANGED <<order, history, library, station, shuffle, cur, wild, todo, slot, tended>>

\* GetTrack and GetStation take an error for "not there", refill takes one of its other
\* queries for a reason to stop; whatever the pop took out of the queue is gone.
RefillFails(p) ==
  /\ Faulty
  /\ pc[p] \in {"lookup", "refill", "count", "discover"}
  /\ Goto(p, IF pc[p] = "lookup" THEN "none" ELSE "idle")
  /\ cur' = IF pc[p] = "lookup" THEN cur ELSE [cur EXCEPT ![p] = NoTrack]
  /\ tended' = (tended /\ Queued # {})
  /\ UNCHANGED <<order, history, library, station, shuffle, wild, todo, slot, stale>>

\* refill and requestMany pass over a request that fails.
RequestFails(p) ==
  /\ Faulty
  /\ pc[p] \in {"inQueue", "recent", "max", "insert"}
  /\ \E t \in todo[p] : (pc[p] = "inQueue" \/ t = cur[p]) /\ Done(p, t)
  /\ tended' = (tended /\ Queued # {})
  /\ UNCHANGED <<order, history, library, station, shuffle, wild, stale>>

\* The tables are as the last commit left them, everything in memory is gone.
Crash ==
  /\ Faulty
  /\ shuffle' = FALSE
  /\ pc' = [p \in Procs |-> "idle"]
  /\ cur' = [p \in Procs |-> NoTrack]
  /\ wild' = [p \in Procs |-> FALSE]
  /\ todo' = [p \in Procs |-> {}]
  /\ slot' = [p \in Procs |-> 0]
  /\ stale' = {}
  /\ tended' = (tended /\ Queued # {})
  /\ UNCHANGED <<order, history, library, station>>

-----------------------------------------------------------------------------
Pop(p) ==
  Next1(p) \/ Select(p) \/ Commit(p) \/ PopFails(p) \/ Lookup(p) \/ ReturnFalse(p)

TopUp(p) == Refill(p) \/ Count(p) \/ Discover(p) \/ RefillFails(p)

Request(p) == InQueue(p) \/ RecentlyPlayed(p) \/ ReadMax(p) \/ Insert(p) \/ RequestFails(p)

Next ==
  \/ \E p \in Procs : Pop(p) \/ TopUp(p) \/ Request(p) \/ StartStation(p)
  \/ \E p \in Procs, S \in Asks : Ask(p, S)
  \/ \E t \in Tracks : Drop({t}) \/ Forget(t)
  \/ Drop(Tracks)
  \/ StopStation \/ SetShuffle \/ OtherCommit \/ Crash

Spec == Init /\ [][Next]_vars

-----------------------------------------------------------------------------
\* A pop plays the track that is first in the queue at that moment (any queued one
\* under shuffle) and takes out its row and no other, although the SELECT and the
\* DELETE are two statements and others pop, request and drop in between: no track
\* is played twice for one request, or after it was removed.
PopsTheFirst ==
  [][\A p \in Procs :
       pc[p] = "commit" /\ pc'[p] = "lookup" =>
         /\ cur[p] \in Queued /\ (wild[p] \/ Foremost(cur[p]))
         /\ order' = [order EXCEPT ![cur[p]] = 0]]_vars

\* What that rests on: a snapshot that is not stale still shows the queue.
FreshSnapshot ==
  \A p \in Procs \ stale :
    pc[p] = "commit" => cur[p] \in Queued /\ (wild[p] \/ Foremost(cur[p]))

\* A station with more tracks than the history window holds never runs dry: only a
\* pop triggers a refill (jukebox.go:119-121), so a queue found empty with every
\* goroutine at rest would stay empty.  Two things do leave it so: users and scans that
\* take tracks away, and a statement that fails or a crash that comes just while the
\* queue is empty.  Those that come while something is queued do no harm, however many.
StationNeverDry ==
  station /\ tended /\ Cardinality(Genre \cap library) > Window
  /\ (\A p \in Procs : pc[p] \in {"idle", "select"}) =>
    Queued # {}

-----------------------------------------------------------------------------
(* The inductive invariant behind StationNeverDry, for JukeboxProofs.       *)

\* What the tables and the goroutines say of each other: a queued track has its row
\* in the library (the foreign key), and a computed play_order is not 0.
TablesAgree ==
  /\ Queued \subseteq library
  /\ \A p \in Procs : pc[p] = "insert" => slot[p] # 0

\* p is on its way to adding a track: it has popped and is about to refill, or a track
\* that the station may still play is among those it has yet to request.
Tending(p) ==
  \/ pc[p] = "lookup" /\ cur[p] \in library
  \/ pc[p] \in {"refill", "count", "discover"}
  \/ pc[p] \in {"inQueue", "recent", "max", "insert"} /\ todo[p] \cap Candidates # {}

\* An empty queue under a station that has something left to play is being tended.
Tended ==
  station /\ tended /\ Queued = {} /\ Cardinality(Genre \cap library) > Window =>
    \E p \in Procs : Tending(p)

-----------------------------------------------------------------------------
(* What a comment of the repository says, and the code does not do.         *)

\* jukebox.go:99 "ok=false if the queue is empty": Next fails only when its SELECT
\* found no row.
FalseMeansEmpty == \A p \in Procs : pc[p] = "none" => cur[p] = NoTrack
=============================================================================
