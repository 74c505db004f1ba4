--------------------------- MODULE JukeboxProofs ---------------------------
(***************************************************************************)
(* What holds of Jukebox for any library, any number of goroutines, any    *)
(* window, threshold and batch: the types, that a read snapshot SQLite     *)
(* still accepts shows the queue as it is, and so that a pop takes the     *)
(* track that is first at the moment it commits; and that a genre station  *)
(* with enough tracks never runs dry (but for a fault on an empty queue).  *)
(* And of Library, for any folders, files, forms and saves: what a scan    *)
(* may skip it has read, what it deletes was missing, what a library holds *)
(* is its own, and after an undisturbed scan it is exactly its folder.     *)
(***************************************************************************)
EXTENDS Jukebox, Library, SequenceTheorems, FiniteSetTheorems, TLAPS

\* The history query's LIMIT: putting one more track in front keeps the window.
LEMMA Recorded ==
  ASSUME TypeOK, NEW t \in Tracks
  PROVE  Record(t) \in Seq(Tracks) /\ Len(Record(t)) <= Window
<1> DEFINE n == IF Len(history) < Window THEN Len(history) + 1 ELSE Window
           l == <<t>> \o history
<1>1. l \in Seq(Tracks) /\ Len(l) = Len(history) + 1 /\ Len(history) \in Nat
  BY DEF TypeOK
<1>2. n \in Nat /\ n <= Len(l) /\ n <= Window
  BY <1>1, JukeboxAssumption DEF TypeOK
<1> HIDE DEF n, l
<1>3. \A i \in 1 .. n : l[i] \in Tracks
  BY <1>1, <1>2
<1>4. SubSeq(l, 1, n) \in Seq(Tracks) /\ Len(SubSeq(l, 1, n)) = IF 1 <= n THEN n - 1 + 1 ELSE 0
  BY <1>2, <1>3, SubSeqProperties
<1>5. Len(SubSeq(l, 1, n)) <= Window
  BY <1>2, <1>4, JukeboxAssumption
<1> QED BY <1>4, <1>5 DEF n, l, Record

IInv == TypeOK /\ FreshSnapshot

-----------------------------------------------------------------------------
LEMMA InitIInv == Init => IInv
<1> SUFFICES ASSUME Init PROVE IInv
  OBVIOUS
<1>1. history \in Seq(Tracks) /\ Len(history) <= Window
  BY JukeboxAssumption DEF Init
<1>2. TypeOK
  BY <1>1, JukeboxAssumption DEF Init, TypeOK, Statements
<1>3. FreshSnapshot
  BY DEF Init, FreshSnapshot
<1> QED BY <1>2, <1>3 DEF IInv

LEMMA Stutter == IInv /\ UNCHANGED vars => IInv'
BY DEF IInv, TypeOK, FreshSnapshot, Queued, Foremost, vars, locals

\* A step that leaves the queue alone and lets nobody into "commit" cannot make a
\* fresh snapshot out of date; what is stale may only grow.
LEMMA QueueUntouched ==
  ASSUME IInv, NEW p \in Procs, NEW to \in Statements \ {"commit"}, Goto(p, to),
         wild' = wild \/ (wild' = [wild EXCEPT ![p] = shuffle] /\ pc[p] # "commit"),
         order' = order, stale \ {p} \subseteq stale',
         \A q \in Procs \ {p} : cur'[q] = cur[q]
  PROVE  FreshSnapshot'
BY DEF IInv, TypeOK, FreshSnapshot, Queued, Foremost, Goto

\* A step that marks every other open snapshot stale may change the queue at will.
LEMMA QueueWritten ==
  ASSUME IInv, NEW p \in Procs, NEW to \in Statements \ {"commit"}, Goto(p, to),
         Written(p)
  PROVE  FreshSnapshot'
BY DEF IInv, TypeOK, FreshSnapshot, Goto, Written, InTx

LEMMA Next1Step == ASSUME IInv, NEW p \in Procs, Next1(p) PROVE IInv'
<1>1. TypeOK'
  BY JukeboxAssumption DEF Next1, IInv, TypeOK, Statements, Goto, locals
<1>2. FreshSnapshot'
  BY QueueUntouched DEF Next1, IInv, TypeOK, Statements, Goto, locals
<1> QED BY <1>1, <1>2 DEF IInv

LEMMA SelectStep == ASSUME IInv, NEW p \in Procs, Select(p) PROVE IInv'
<1>1. TypeOK'
  <2>1. pc' \in [Procs -> Statements] /\ stale' \in SUBSET Procs
    BY DEF Select, IInv, TypeOK, Statements, Goto
  <2>2. cur' \in [Procs -> Tracks \cup {NoTrack}]
    BY DEF Select, IInv, TypeOK, Queued
  <2>3. UNCHANGED <<order, history, library, station, shuffle, wild, todo, slot, tended>>
    BY DEF Select
  <2> QED BY <2>1, <2>2, <2>3 DEF IInv, TypeOK
<1>2. FreshSnapshot'
  BY DEF Select, IInv, TypeOK, FreshSnapshot, Goto, Queued, Foremost
<1> QED BY <1>1, <1>2 DEF IInv

LEMMA CommitStep == ASSUME IInv, NEW p \in Procs, Commit(p) PROVE IInv'
<1>1. CASE p \in stale
  <2>1. TypeOK'
    BY <1>1 DEF Commit, IInv, TypeOK, Statements, Goto
  <2>2. FreshSnapshot'
    BY <1>1 DEF Commit, IInv, TypeOK, FreshSnapshot, Queued, Foremost, Goto
  <2> QED BY <2>1, <2>2 DEF IInv
<1>2. CASE p \notin stale
  <2>1. cur[p] \in Tracks
    BY <1>2 DEF Commit, IInv, FreshSnapshot, Queued
  <2>2. history' \in Seq(Tracks) /\ Len(history') <= Window
    BY <1>2, <2>1, Recorded DEF Commit, IInv
  <2>3. /\ order' = [order EXCEPT ![cur[p]] = 0] /\ pc' = [pc EXCEPT ![p] = "lookup"]
        /\ stale' = InTx \ {p}
        /\ UNCHANGED <<library, station, shuffle, cur, wild, todo, slot, tended>>
    BY <1>2 DEF Commit, Goto, Written
  <2>4. FreshSnapshot'
    BY <1>2, QueueWritten DEF Commit, Statements
  <2>5. TypeOK'
    BY <2>2, <2>3 DEF IInv, TypeOK, Statements, InTx
  <2> QED BY <2>4, <2>5 DEF IInv
<1> QED BY <1>1, <1>2

LEMMA LookupStep == ASSUME IInv, NEW p \in Procs, Lookup(p) PROVE IInv'
<1>1. TypeOK'
  BY JukeboxAssumption DEF Lookup, IInv, TypeOK, Statements, Goto, locals
<1>2. FreshSnapshot'
  BY QueueUntouched DEF Lookup, IInv, TypeOK, Statements, Goto, locals
<1> QED BY <1>1, <1>2 DEF IInv

LEMMA ReturnFalseStep == ASSUME IInv, NEW p \in Procs, ReturnFalse(p) PROVE IInv'
<1>1. TypeOK'
  BY JukeboxAssumption DEF ReturnFalse, IInv, TypeOK, Statements, Goto, locals
<1>2. FreshSnapshot'
  BY QueueUntouched DEF ReturnFalse, IInv, TypeOK, Statements, Goto, locals
<1> QED BY <1>1, <1>2 DEF IInv

LEMMA RefillStep == ASSUME IInv, NEW p \in Procs, Refill(p) PROVE IInv'
<1>1. TypeOK'
  BY JukeboxAssumption DEF Refill, IInv, TypeOK, Statements, Goto, locals
<1>2. FreshSnapshot'
  BY QueueUntouched DEF Refill, IInv, TypeOK, Statements, Goto, locals
<1> QED BY <1>1, <1>2 DEF IInv

LEMMA CountStep == ASSUME IInv, NEW p \in Procs, Count(p) PROVE IInv'
<1>1. TypeOK'
  BY JukeboxAssumption DEF Count, IInv, TypeOK, Statements, Goto, locals
<1>2. FreshSnapshot'
  BY QueueUntouched DEF Count, IInv, TypeOK, Statements, Goto, locals
<1> QED BY <1>1, <1>2 DEF IInv

LEMMA DiscoverStep == ASSUME IInv, NEW p \in Procs, Discover(p) PROVE IInv'
<1>1. TypeOK'
  BY JukeboxAssumption DEF Discover, IInv, TypeOK, Statements, Goto, locals, Candidates
<1>2. FreshSnapshot'
  BY QueueUntouched DEF Discover, IInv, TypeOK, Statements, Goto, locals, Candidates
<1> QED BY <1>1, <1>2 DEF IInv

\* Done goes to rest or to the next track, and touches only p's own statements.
LEMMA DoneTypes ==
  ASSUME IInv, NEW p \in Procs, NEW t, Done(p, t)
  PROVE  /\ pc' \in [Procs -> Statements] /\ cur' \in [Procs -> Tracks \cup {NoTrack}]
         /\ todo' \in [Procs -> SUBSET Tracks] /\ slot' \in [Procs -> Nat]
         /\ \E to \in Statements \ {"commit"} : Goto(p, to)
         /\ \A q \in Procs \ {p} : cur'[q] = cur[q]
<1> DEFINE next == IF todo[p] \ {t} = {} THEN "idle" ELSE "inQueue"
<1>1. next \in Statements \ {"commit"} /\ Goto(p, next)
  BY DEF Done, Statements
<1>2. pc' \in [Procs -> Statements]
  BY <1>1 DEF Goto, IInv, TypeOK
<1>3. /\ cur' \in [Procs -> Tracks \cup {NoTrack}]
      /\ todo' \in [Procs -> SUBSET Tracks] /\ slot' \in [Procs -> Nat]
      /\ \A q \in Procs \ {p} : cur'[q] = cur[q]
  BY DEF Done, IInv, TypeOK
<1> QED BY <1>1, <1>2, <1>3

LEMMA InQueueStep == ASSUME IInv, NEW p \in Procs, InQueue(p) PROVE IInv'
<1> PICK t \in todo[p] :
      IF t \in Queued
      THEN Done(p, t)
      ELSE /\ cur' = [cur EXCEPT ![p] = t]
           /\ Goto(p, IF Window > 0 THEN "recent" ELSE "max")
           /\ UNCHANGED <<todo, slot>>
  BY DEF InQueue
<1>1. CASE t \in Queued
  <2>1. TypeOK'
    BY <1>1, DoneTypes DEF InQueue, IInv, TypeOK
  <2>2. FreshSnapshot'
    BY <1>1, DoneTypes, QueueUntouched DEF InQueue
  <2> QED BY <2>1, <2>2 DEF IInv
<1>2. CASE t \notin Queued
  <2>0. /\ cur' = [cur EXCEPT ![p] = t] /\ t \in Tracks
        /\ pc' \in [Procs -> Statements]
        /\ UNCHANGED <<todo, slot>>
    BY <1>2 DEF Goto, IInv, TypeOK, Statements
  <2>1. TypeOK'
    BY <2>0 DEF InQueue, IInv, TypeOK
  <2>2. FreshSnapshot'
    BY <1>2, QueueUntouched DEF InQueue, IInv, TypeOK, Statements
  <2> QED BY <2>1, <2>2 DEF IInv
<1> QED BY <1>1, <1>2

LEMMA RecentlyPlayedStep == ASSUME IInv, NEW p \in Procs, RecentlyPlayed(p) PROVE IInv'
<1>1. CASE cur[p] \in Recent
  <2>1. TypeOK'
    BY <1>1, DoneTypes DEF RecentlyPlayed, IInv, TypeOK
  <2>2. FreshSnapshot'
    BY <1>1, DoneTypes, QueueUntouched DEF RecentlyPlayed
  <2> QED BY <2>1, <2>2 DEF IInv
<1>2. CASE cur[p] \notin Recent
  <2>1. TypeOK'
    BY <1>2 DEF RecentlyPlayed, IInv, TypeOK, Statements, Goto
  <2>2. FreshSnapshot'
    BY <1>2, QueueUntouched DEF RecentlyPlayed, IInv, TypeOK, Statements
  <2> QED BY <2>1, <2>2 DEF IInv
<1> QED BY <1>1, <1>2

LEMMA ReadMaxStep == ASSUME IInv, NEW p \in Procs, ReadMax(p) PROVE IInv'
<1>1. TypeOK'
  BY JukeboxAssumption DEF ReadMax, IInv, TypeOK, Statements, Goto, locals
<1>2. FreshSnapshot'
  BY QueueUntouched DEF ReadMax, IInv, TypeOK, Statements, Goto, locals
<1> QED BY <1>1, <1>2 DEF IInv

LEMMA InsertStep == ASSUME IInv, NEW p \in Procs, Insert(p) PROVE IInv'
<1>0. Done(p, cur[p])
  BY DEF Insert
<1>1. CASE cur[p] \notin Queued /\ cur[p] \in library
  <2>1. TypeOK'
    BY <1>0, <1>1, DoneTypes DEF Insert, IInv, TypeOK, Written, InTx
  <2>2. FreshSnapshot'
    BY <1>0, <1>1, DoneTypes, QueueWritten DEF Insert
  <2> QED BY <2>1, <2>2 DEF IInv
<1>2. CASE ~(cur[p] \notin Queued /\ cur[p] \in library)
  <2>1. TypeOK'
    BY <1>0, <1>2, DoneTypes DEF Insert, IInv, TypeOK
  <2>2. FreshSnapshot'
    BY <1>0, <1>2, DoneTypes, QueueUntouched DEF Insert
  <2> QED BY <2>1, <2>2 DEF IInv
<1> QED BY <1>1, <1>2

LEMMA AskStep ==
  ASSUME IInv, NEW p \in Procs, NEW S \in Asks, Ask(p, S) PROVE IInv'
<1>1. TypeOK'
  BY JukeboxAssumption DEF Ask, IInv, TypeOK, Statements, Goto
<1>2. FreshSnapshot'
  BY QueueUntouched DEF Ask, IInv, TypeOK, Statements
<1> QED BY <1>1, <1>2 DEF IInv

LEMMA StartStationStep == ASSUME IInv, NEW p \in Procs, StartStation(p) PROVE IInv'
<1>1. TypeOK'
  BY DEF StartStation, IInv, TypeOK, Statements, Goto, Written, InTx
<1>2. FreshSnapshot'
  BY QueueWritten DEF StartStation, Statements
<1> QED BY <1>1, <1>2 DEF IInv

\* What other users and the library do goes through commits of their own, which
\* leave no snapshot fresh.
LEMMA OthersStep ==
  ASSUME IInv,
         \/ StopStation \/ OtherCommit \/ SetShuffle
         \/ \E S \in SUBSET Tracks : Drop(S)
         \/ \E t \in Tracks : Forget(t)
  PROVE  IInv'
<1>1. CASE SetShuffle
  BY <1>1 DEF SetShuffle, locals, IInv, TypeOK, FreshSnapshot, Queued, Foremost
<1>2. ASSUME stale' = InTx, UNCHANGED locals PROVE FreshSnapshot'
  BY <1>2 DEF IInv, TypeOK, FreshSnapshot, InTx, locals
<1>3. CASE StopStation
  BY <1>2, <1>3 DEF StopStation, locals, IInv, TypeOK, InTx
<1>4. CASE OtherCommit
  BY <1>2, <1>4 DEF OtherCommit, locals, IInv, TypeOK, InTx
<1>5. ASSUME NEW S \in SUBSET Tracks, Drop(S) PROVE IInv'
  BY <1>2, <1>5 DEF Drop, locals, IInv, TypeOK, InTx
<1>6. ASSUME NEW t \in Tracks, Forget(t) PROVE IInv'
  BY <1>2, <1>6 DEF Forget, locals, IInv, TypeOK, InTx
<1> QED BY <1>1, <1>3, <1>4, <1>5, <1>6

\* A statement that fails writes nothing, and a crash leaves nobody in a transaction.
LEMMA PopFailsStep == ASSUME IInv, NEW p \in Procs, PopFails(p) PROVE IInv'
<1>1. TypeOK'
  BY DEF PopFails, Goto, IInv, TypeOK, Statements
<1>2. FreshSnapshot'
  BY QueueUntouched DEF PopFails, Statements
<1> QED BY <1>1, <1>2 DEF IInv

LEMMA RefillFailsStep == ASSUME IInv, NEW p \in Procs, RefillFails(p) PROVE IInv'
<1> DEFINE to == IF pc[p] = "lookup" THEN "none" ELSE "idle"
<1>0. to \in Statements \ {"commit"} /\ Goto(p, to)
  BY DEF RefillFails, Statements
<1>1. TypeOK'
  BY <1>0, JukeboxAssumption DEF RefillFails, Goto, IInv, TypeOK
<1>2. \A q \in Procs \ {p} : cur'[q] = cur[q]
  BY DEF RefillFails, IInv, TypeOK
<1>3. FreshSnapshot'
  BY <1>0, <1>2, QueueUntouched DEF RefillFails
<1> QED BY <1>1, <1>3 DEF IInv

LEMMA RequestFailsStep == ASSUME IInv, NEW p \in Procs, RequestFails(p) PROVE IInv'
<1> PICK t \in todo[p] : Done(p, t)
  BY DEF RequestFails
<1>1. TypeOK'
  BY DoneTypes DEF RequestFails, IInv, TypeOK
<1>2. FreshSnapshot'
  BY DoneTypes, QueueUntouched DEF RequestFails
<1> QED BY <1>1, <1>2 DEF IInv

LEMMA CrashStep == ASSUME IInv, Crash PROVE IInv'
<1>1. TypeOK'
  BY DEF Crash, IInv, TypeOK, Statements
<1>2. FreshSnapshot'
  BY DEF Crash, FreshSnapshot
<1> QED BY <1>1, <1>2 DEF IInv

-----------------------------------------------------------------------------
LEMMA StepIInv == IInv /\ [Next]_vars => IInv'
<1> SUFFICES ASSUME IInv, [Next]_vars PROVE IInv'
  OBVIOUS
<1>1. ASSUME NEW p \in Procs, Pop(p) PROVE IInv'
  BY <1>1, Next1Step, SelectStep, CommitStep, PopFailsStep, LookupStep, ReturnFalseStep DEF Pop
<1>2. ASSUME NEW p \in Procs, TopUp(p) PROVE IInv'
  BY <1>2, RefillStep, CountStep, DiscoverStep, RefillFailsStep DEF TopUp
<1>3. ASSUME NEW p \in Procs, Request(p) PROVE IInv'
  BY <1>3, InQueueStep, RecentlyPlayedStep, ReadMaxStep, InsertStep, RequestFailsStep DEF Request
<1>4. ASSUME NEW p \in Procs, StartStation(p) PROVE IInv'
  BY <1>4, StartStationStep
<1>5. ASSUME NEW p \in Procs, NEW S \in Asks, Ask(p, S) PROVE IInv'
  BY <1>5, AskStep
<1>6. ASSUME NEW t \in Tracks, Drop({t}) \/ Forget(t) PROVE IInv'
  BY <1>6, OthersStep
<1>7. CASE Drop(Tracks) \/ StopStation \/ SetShuffle \/ OtherCommit
  BY <1>7, OthersStep
<1>8. CASE UNCHANGED vars
  BY <1>8, Stutter
<1>9. CASE Crash
  BY <1>9, CrashStep
<1> QED BY <1>1, <1>2, <1>3, <1>4, <1>5, <1>6, <1>7, <1>8, <1>9 DEF Next

LEMMA Safe == Spec => []IInv
BY InitIInv, StepIInv, PTL DEF Spec

\* Every variable keeps its type, the history its window.
THEOREM TypeCorrect == Spec => []TypeOK
<1>1. IInv => TypeOK BY DEF IInv
<1> QED BY Safe, <1>1, PTL

\* A read snapshot that SQLite still lets write shows the queue as it is now.
THEOREM Snapshots == Spec => []FreshSnapshot
<1>1. IInv => FreshSnapshot BY DEF IInv
<1> QED BY Safe, <1>1, PTL

\* Only Commit(p) takes p from its SELECT to its result: Next's statements are
\* the one way out of "commit".
LEMMA OnlyCommitPops ==
  ASSUME IInv, [Next]_vars, NEW p \in Procs, pc[p] = "commit", pc'[p] = "lookup"
  PROVE  Commit(p)
<1> USE DEF IInv, TypeOK, Goto
<1>1. ASSUME NEW q \in Procs, Pop(q), ~Commit(q) PROVE FALSE
  BY <1>1 DEF Pop, Next1, Select, PopFails, Lookup, ReturnFalse
<1>2. ASSUME NEW q \in Procs, Commit(q) PROVE Commit(p)
  BY <1>2 DEF Commit
<1>3. ASSUME NEW q \in Procs, TopUp(q) PROVE FALSE
  BY <1>3 DEF TopUp, Refill, Count, Discover, RefillFails
<1>4. ASSUME NEW q \in Procs, Request(q) PROVE FALSE
  BY <1>4 DEF Request, InQueue, RecentlyPlayed, ReadMax, Insert, RequestFails, Done
<1>5. ASSUME NEW q \in Procs, StartStation(q) \/ \E S \in Asks : Ask(q, S) PROVE FALSE
  BY <1>5 DEF StartStation, Ask
<1>6. CASE StopStation \/ SetShuffle \/ OtherCommit \/ UNCHANGED vars
  BY <1>6 DEF StopStation, SetShuffle, OtherCommit, vars, locals
<1>7. ASSUME NEW S, Drop(S) PROVE FALSE
  BY <1>7 DEF Drop, locals
<1>8. ASSUME NEW t, Forget(t) PROVE FALSE
  BY <1>8 DEF Forget, locals
<1>9. CASE Crash
  BY <1>9 DEF Crash
<1> QED BY <1>1, <1>2, <1>3, <1>4, <1>5, <1>6, <1>7, <1>8, <1>9 DEF Next

\* A pop takes the first track of the queue (any under shuffle), and only that one,
\* whatever other goroutines did between its SELECT and its DELETE.
THEOREM PopsInOrder == Spec => PopsTheFirst
<1>1. IInv /\ [Next]_vars =>
        [\A p \in Procs :
           pc[p] = "commit" /\ pc'[p] = "lookup" =>
             /\ cur[p] \in Queued /\ (wild[p] \/ Foremost(cur[p]))
             /\ order' = [order EXCEPT ![cur[p]] = 0]]_vars
  <2> SUFFICES ASSUME IInv, [Next]_vars, NEW p \in Procs,
                      pc[p] = "commit", pc'[p] = "lookup"
               PROVE  /\ cur[p] \in Queued /\ (wild[p] \/ Foremost(cur[p]))
                      /\ order' = [order EXCEPT ![cur[p]] = 0]
    OBVIOUS
  <2>1. Commit(p)
    BY OnlyCommitPops
  <2>2. p \notin stale /\ order' = [order EXCEPT ![cur[p]] = 0]
    BY <2>1 DEF Commit, Goto, IInv, TypeOK
  <2>3. cur[p] \in Queued /\ (wild[p] \/ Foremost(cur[p]))
    BY <2>2 DEF IInv, FreshSnapshot
  <2> QED BY <2>2, <2>3
<1> QED BY Safe, <1>1, PTL DEF Spec, PopsTheFirst

-----------------------------------------------------------------------------
(* The station never runs dry.                                             *)

\* DiscoverTracks finds something whenever the genre has more tracks than the history
\* window: the window shows at most Window different ones.
LEMMA SomethingToPlay ==
  ASSUME TypeOK, Cardinality(Genre \cap library) > Window
  PROVE  Candidates # {}
<1> SUFFICES ASSUME Candidates = {} PROVE FALSE
  OBVIOUS
<1> DEFINE n == Len(history)
<1>1. n \in Nat /\ n <= Window /\ Window \in Nat
  BY JukeboxAssumption DEF TypeOK
<1>2. history \in Surjection(1 .. n, Recent)
  <2>1. history \in [1 .. n -> Recent] /\ DOMAIN history = 1 .. n
    BY DEF TypeOK, Recent
  <2> QED BY <2>1 DEF Surjection, Recent
<1>3. IsFiniteSet(1 .. n) /\ Cardinality(1 .. n) <= n
  <2> HIDE DEF n
  <2>1. 1 \in Int /\ n \in Int
    BY <1>1
  <2>2. IsFiniteSet(1 .. n) /\ Cardinality(1 .. n) = IF 1 > n THEN 0 ELSE n - 1 + 1
    BY <2>1, FS_Interval
  <2> QED BY <1>1, <2>2
<1>4. IsFiniteSet(Recent) /\ Cardinality(Recent) <= Cardinality(1 .. n)
  BY <1>2, <1>3, FS_Surjection
<1>5. Genre \cap library \subseteq Recent
  BY DEF Candidates
<1>6. IsFiniteSet(Genre \cap library) /\ Cardinality(Genre \cap library) <= Cardinality(Recent)
  BY <1>4, <1>5, FS_Subset
<1>7. /\ Cardinality(Recent) \in Nat /\ Cardinality(1 .. n) \in Nat
      /\ Cardinality(Genre \cap library) \in Nat
  BY <1>3, <1>4, <1>6, FS_CardinalityType
<1> QED BY <1>1, <1>3, <1>4, <1>6, <1>7

\* The station is left with an empty queue.
Bare == station /\ tended /\ Queued = {} /\ Cardinality(Genre \cap library) > Window

\* A step of q that changes neither the history nor the library leaves the others
\* tending, and so need only keep q tending if it was.
LEMMA OthersTend ==
  ASSUME Tended, Bare, NEW q \in Procs,
         UNCHANGED <<history, library>>,
         \A p \in Procs \ {q} : pc'[p] = pc[p] /\ cur'[p] = cur[p] /\ todo'[p] = todo[p],
         Tending(q) => Tending(q)'
  PROVE  \E p \in Procs : Tending(p)'
<1>1. PICK p \in Procs : Tending(p)
  BY DEF Tended, Bare
<1>2. CASE p = q
  BY <1>1, <1>2
<1>3. CASE p # q
  BY <1>1, <1>3 DEF Tending, Candidates, Recent
<1> QED BY <1>2, <1>3

\* Done by a goroutine that had more than this track to request.
LEMMA DoneTends ==
  ASSUME TypeOK, NEW p \in Procs, NEW t, Done(p, t), UNCHANGED <<history, library>>,
         t \notin Candidates, todo[p] \cap Candidates # {}
  PROVE  Tending(p)'
<1>1. PICK u \in todo[p] : u \in Candidates /\ u # t
  OBVIOUS
<1>2. u \in todo'[p] /\ pc'[p] = "inQueue" /\ Candidates' = Candidates
  BY <1>1 DEF Done, Goto, TypeOK, Candidates, Recent
<1> QED BY <1>1, <1>2 DEF Tending

TInv == IInv /\ TablesAgree /\ Tended

LEMMA InitTInv == Init => TInv
<1> SUFFICES ASSUME Init PROVE TInv
  OBVIOUS
<1>1. TablesAgree
  BY JukeboxAssumption DEF Init, TablesAgree, Queued
<1>2. Tended
  BY DEF Init, Tended
<1> QED BY <1>1, <1>2, InitIInv DEF TInv

LEMMA PopTends == ASSUME TInv, NEW q \in Procs, Pop(q), IInv' PROVE TInv'
<1> USE DEF TInv
<1>0. TypeOK
  BY DEF IInv
<1>1. CASE Next1(q)
  <2>1. TablesAgree'
    BY <1>0, <1>1 DEF Next1, TablesAgree, Queued, Goto, TypeOK
  <2>2. ASSUME Bare' PROVE \E p \in Procs : Tending(p)'
    <3>1. Bare /\ ~Tending(q)
      BY <1>1, <2>2 DEF Next1, Bare, Queued, Tending
    <3> QED BY <1>0, <1>1, <3>1, OthersTend DEF Next1, Goto, TypeOK
  <2> QED BY <2>1, <2>2 DEF Tended, Bare
<1>2. CASE Select(q)
  <2>1. TablesAgree'
    BY <1>0, <1>2 DEF Select, TablesAgree, Queued, Goto, TypeOK
  <2>2. ASSUME Bare' PROVE \E p \in Procs : Tending(p)'
    <3>1. Bare /\ ~Tending(q)
      BY <1>2, <2>2 DEF Select, Bare, Queued, Tending
    <3> QED BY <1>0, <1>2, <3>1, OthersTend DEF Select, Goto, TypeOK
  <2> QED BY <2>1, <2>2 DEF Tended, Bare
<1>3. CASE Commit(q) /\ q \in stale
  <2>1. TablesAgree'
    BY <1>0, <1>3 DEF Commit, TablesAgree, Queued, Goto, TypeOK
  <2>2. ASSUME Bare' PROVE \E p \in Procs : Tending(p)'
    <3>1. Bare /\ ~Tending(q)
      BY <1>3, <2>2 DEF Commit, Bare, Queued, Tending
    <3> QED BY <1>0, <1>3, <3>1, OthersTend DEF Commit, Goto, TypeOK
  <2> QED BY <2>1, <2>2 DEF Tended, Bare
<1>4. CASE Commit(q) /\ q \notin stale
  <2>1. cur[q] \in Queued /\ cur[q] \in library
    BY <1>4 DEF Commit, IInv, FreshSnapshot, TablesAgree
  <2>2. TablesAgree'
    BY <1>0, <1>4 DEF Commit, TablesAgree, Queued, Goto, TypeOK
  <2>3. Tending(q)'
    BY <1>0, <1>4, <2>1 DEF Commit, Tending, Goto, TypeOK
  <2> QED BY <2>2, <2>3 DEF Tended
<1>5. CASE Lookup(q)
  <2>1. TablesAgree'
    BY <1>0, <1>5 DEF Lookup, TablesAgree, Queued, Goto, TypeOK
  <2>2. ASSUME Bare' PROVE \E p \in Procs : Tending(p)'
    <3>1. Bare /\ (Tending(q) => Tending(q)')
      BY <1>0, <1>5, <2>2 DEF Lookup, Bare, Queued, Tending, Goto, TypeOK
    <3> QED BY <1>0, <1>5, <3>1, OthersTend DEF Lookup, Goto, TypeOK
  <2> QED BY <2>1, <2>2 DEF Tended, Bare
<1>6. CASE ReturnFalse(q)
  <2>1. TablesAgree'
    BY <1>0, <1>6 DEF ReturnFalse, TablesAgree, Queued, Goto, TypeOK
  <2>2. ASSUME Bare' PROVE \E p \in Procs : Tending(p)'
    <3>1. Bare /\ ~Tending(q)
      BY <1>6, <2>2 DEF ReturnFalse, Bare, Queued, Tending
    <3> QED BY <1>0, <1>6, <3>1, OthersTend DEF ReturnFalse, Goto, TypeOK
  <2> QED BY <2>1, <2>2 DEF Tended, Bare
<1>7. CASE PopFails(q)
  <2>1. TablesAgree'
    BY <1>0, <1>7 DEF PopFails, TablesAgree, Queued, Goto, TypeOK
  <2>2. ASSUME Bare' PROVE \E p \in Procs : Tending(p)'
    <3>1. Bare /\ ~Tending(q)
      BY <1>7, <2>2 DEF PopFails, Bare, Queued, Tending
    <3> QED BY <1>0, <1>7, <3>1, OthersTend DEF PopFails, Goto, TypeOK
  <2> QED BY <2>1, <2>2 DEF Tended, Bare
<1> QED BY <1>1, <1>2, <1>3, <1>4, <1>5, <1>6, <1>7 DEF Pop

\* A refill on an empty queue goes all the way to a batch that has something in it.
LEMMA TopUpTends == ASSUME TInv, NEW q \in Procs, TopUp(q), IInv' PROVE TInv'
<1> USE DEF TInv
<1>0. TypeOK
  BY DEF IInv
<1>1. CASE Refill(q)
  <2>1. TablesAgree'
    BY <1>0, <1>1 DEF Refill, TablesAgree, Queued, Goto, TypeOK
  <2>2. ASSUME Bare' PROVE \E p \in Procs : Tending(p)'
    <3>1. Bare /\ Tending(q)'
      BY <1>0, <1>1, <2>2 DEF Refill, Bare, Queued, Tending, Goto, TypeOK
    <3> QED BY <3>1
  <2> QED BY <2>1, <2>2 DEF Tended, Bare
<1>2. CASE Count(q)
  <2>1. TablesAgree'
    BY <1>0, <1>2 DEF Count, TablesAgree, Queued, Goto, TypeOK
  <2>2. ASSUME Bare' PROVE \E p \in Procs : Tending(p)'
    <3>1. Queued = {} /\ Cardinality(Queued) = 0
      BY <1>2, <2>2, FS_EmptySet DEF Count, Bare, Queued
    <3>2. ~(Cardinality(Queued) >= Threshold)
      BY <3>1, JukeboxAssumption
    <3>3. Tending(q)'
      BY <1>0, <1>2, <3>2 DEF Count, Tending, Goto, TypeOK
    <3> QED BY <3>3
  <2> QED BY <2>1, <2>2 DEF Tended, Bare
<1>3. CASE Discover(q)
  <2>1. TablesAgree'
    BY <1>0, <1>3 DEF Discover, TablesAgree, Queued, Goto, TypeOK
  <2>2. ASSUME Bare' PROVE \E p \in Procs : Tending(p)'
    <3>1. Candidates # {}
      BY <1>0, <1>3, <2>2, SomethingToPlay DEF Discover, Bare
    <3>2. PICK S \in SUBSET Candidates :
            /\ Cardinality(S) < Batch => S = Candidates
            /\ todo' = [todo EXCEPT ![q] = S]
            /\ Goto(q, IF S = {} THEN "idle" ELSE "inQueue")
      BY <1>3 DEF Discover
    <3>3. S # {}
      <4> SUFFICES ASSUME S = {} PROVE FALSE
        OBVIOUS
      <4>1. Cardinality(S) = 0
        BY FS_EmptySet
      <4>2. Cardinality(S) < Batch
        BY <4>1, JukeboxAssumption
      <4> QED BY <3>1, <3>2, <4>2
    <3>4. Candidates' = Candidates
      BY <1>3 DEF Discover, Candidates, Recent
    <3>5. Tending(q)'
      BY <1>0, <3>2, <3>3, <3>4 DEF Tending, Goto, TypeOK
    <3> QED BY <3>5
  <2> QED BY <2>1, <2>2 DEF Tended, Bare
<1>4. CASE RefillFails(q)
  <2>1. TablesAgree'
    BY <1>0, <1>4 DEF RefillFails, TablesAgree, Queued, Goto, TypeOK
  <2> QED BY <1>4, <2>1 DEF RefillFails, Tended, Queued
<1> QED BY <1>1, <1>2, <1>3, <1>4 DEF TopUp

\* Requesting the tracks of a batch one by one keeps at it until one of them is queued.
LEMMA RequestTends == ASSUME TInv, NEW q \in Procs, Request(q), IInv' PROVE TInv'
<1> USE DEF TInv
<1>0. TypeOK
  BY DEF IInv
<1>1. CASE InQueue(q)
  <2> PICK t \in todo[q] :
        IF t \in Queued
        THEN Done(q, t)
        ELSE /\ cur' = [cur EXCEPT ![q] = t]
             /\ Goto(q, IF Window > 0 THEN "recent" ELSE "max")
             /\ UNCHANGED <<todo, slot>>
    BY <1>1 DEF InQueue
  <2>0. UNCHANGED <<order, history, library, station, shuffle, wild, stale, tended>>
    BY <1>1 DEF InQueue
  <2>1. TablesAgree'
    BY <1>0, <2>0 DEF Done, TablesAgree, Queued, Goto, TypeOK
  <2>2. ASSUME Bare' PROVE \E p \in Procs : Tending(p)'
    <3>1. Bare /\ t \notin Queued /\ pc[q] = "inQueue"
      BY <1>1, <2>0, <2>2 DEF Bare, Queued, InQueue
    <3>2. Tending(q) => Tending(q)'
      BY <1>0, <2>0, <3>1 DEF Tending, Candidates, Recent, Goto, TypeOK
    <3> QED BY <1>0, <2>0, <3>1, <3>2, OthersTend DEF Goto, TypeOK
  <2> QED BY <2>1, <2>2 DEF Tended, Bare
<1>2. CASE RecentlyPlayed(q)
  <2>0. UNCHANGED <<order, history, library, station, shuffle, wild, stale, tended>>
    BY <1>2 DEF RecentlyPlayed
  <2>1. TablesAgree'
    BY <1>0, <1>2 DEF RecentlyPlayed, Done, TablesAgree, Queued, Goto, TypeOK
  <2>2. ASSUME Bare' PROVE \E p \in Procs : Tending(p)'
    <3>1. Bare /\ pc[q] = "recent"
      BY <1>2, <2>0, <2>2 DEF Bare, Queued, RecentlyPlayed
    <3>2. Tending(q) => Tending(q)'
      <4>1. CASE cur[q] \in Recent
        BY <1>0, <1>2, <2>0, <3>1, <4>1, DoneTends DEF RecentlyPlayed, Tending, Candidates
      <4>2. CASE cur[q] \notin Recent
        BY <1>0, <1>2, <2>0, <3>1, <4>2 DEF RecentlyPlayed, Tending, Candidates, Recent, Goto, TypeOK
      <4> QED BY <4>1, <4>2
    <3> QED BY <1>0, <1>2, <2>0, <3>1, <3>2, OthersTend DEF RecentlyPlayed, Done, Goto, TypeOK
  <2> QED BY <2>1, <2>2 DEF Tended, Bare
<1>3. CASE ReadMax(q)
  <2>1. TablesAgree'
    BY <1>0, <1>3 DEF ReadMax, TablesAgree, Queued, Goto, TypeOK
  <2>2. ASSUME Bare' PROVE \E p \in Procs : Tending(p)'
    <3>1. Bare /\ (Tending(q) => Tending(q)')
      BY <1>0, <1>3, <2>2 DEF ReadMax, Bare, Queued, Tending, Candidates, Recent, Goto, TypeOK
    <3> QED BY <1>0, <1>3, <3>1, OthersTend DEF ReadMax, Goto, TypeOK
  <2> QED BY <2>1, <2>2 DEF Tended, Bare
<1>4. CASE Insert(q)
  <2>0. /\ Done(q, cur[q]) /\ pc[q] = "insert" /\ slot[q] # 0
        /\ UNCHANGED <<history, library, station, shuffle, wild, tended>>
    BY <1>4 DEF Insert, TablesAgree
  <2>1. TablesAgree'
    <3>1. Queued' \subseteq library
      BY <1>0, <1>4 DEF Insert, TablesAgree, Queued, TypeOK
    <3>2. \A p \in Procs : pc'[p] = "insert" => slot'[p] # 0
      BY <1>0, <2>0 DEF Done, Goto, TablesAgree, TypeOK
    <3> QED BY <2>0, <3>1, <3>2 DEF TablesAgree
  <2>2. ASSUME Bare' PROVE \E p \in Procs : Tending(p)'
    <3>1. Bare
      BY <1>0, <1>4, <2>0, <2>2 DEF Insert, Bare, Queued, TypeOK
    <3>2. cur[q] \notin Candidates
      <4> SUFFICES ASSUME cur[q] \in Candidates PROVE FALSE
        OBVIOUS
      <4>1. cur[q] \in library /\ cur[q] \in Tracks /\ cur[q] \notin Queued
        BY <1>0, <3>1 DEF Candidates, TypeOK, Bare
      <4>2. order'[cur[q]] = slot[q]
        BY <1>0, <1>4, <4>1 DEF Insert, TypeOK
      <4> QED BY <2>0, <2>2, <4>1, <4>2 DEF Bare, Queued
    <3>3. Tending(q) => Tending(q)'
      BY <1>0, <2>0, <3>2, DoneTends DEF Tending
    <3> QED BY <1>0, <2>0, <3>1, <3>3, OthersTend DEF Done, Goto, TypeOK
  <2> QED BY <2>1, <2>2 DEF Tended, Bare
<1>5. CASE RequestFails(q)
  <2>1. TablesAgree'
    BY <1>0, <1>5 DEF RequestFails, Done, TablesAgree, Queued, Goto, TypeOK
  <2> QED BY <1>5, <2>1 DEF RequestFails, Tended, Queued
<1> QED BY <1>1, <1>2, <1>3, <1>4, <1>5 DEF Request

\* What users do leaves the queue tended, or ends the promise.
LEMMA UsersTend ==
  ASSUME TInv, IInv',
         \/ \E q \in Procs : StartStation(q) \/ \E S \in Asks : Ask(q, S)
         \/ StopStation \/ OtherCommit \/ SetShuffle \/ Crash
         \/ \E S \in SUBSET Tracks : Drop(S)
         \/ \E t \in Tracks : Forget(t)
  PROVE  TInv'
<1> USE DEF TInv
<1>0. TypeOK
  BY DEF IInv
<1>1. ASSUME NEW q \in Procs, StartStation(q) PROVE TInv'
  <2>1. TablesAgree'
    BY <1>0, <1>1 DEF StartStation, TablesAgree, Queued, Goto, TypeOK
  <2>2. Tending(q)'
    BY <1>0, <1>1 DEF StartStation, Tending, Goto, TypeOK
  <2> QED BY <2>1, <2>2 DEF Tended
<1>2. ASSUME NEW q \in Procs, NEW S \in Asks, Ask(q, S) PROVE TInv'
  <2>1. TablesAgree'
    BY <1>0, <1>2 DEF Ask, TablesAgree, Queued, Goto, TypeOK
  <2>2. ASSUME Bare' PROVE \E p \in Procs : Tending(p)'
    <3>1. Bare /\ ~Tending(q)
      BY <1>2, <2>2 DEF Ask, Bare, Queued, Tending
    <3> QED BY <1>0, <1>2, <3>1, OthersTend DEF Ask, Goto, TypeOK
  <2> QED BY <2>1, <2>2 DEF Tended, Bare
<1>3. CASE StopStation
  BY <1>3 DEF StopStation, locals, TablesAgree, Tended, Queued
<1>4. CASE OtherCommit \/ SetShuffle
  <2>1. UNCHANGED <<order, history, library, station, locals, tended>>
    BY <1>4 DEF OtherCommit, SetShuffle
  <2>2. TablesAgree'
    BY <2>1 DEF TablesAgree, Queued, locals
  <2>3. Tended'
    BY <2>1 DEF Tended, Tending, Queued, Candidates, Recent, locals
  <2> QED BY <2>2, <2>3
<1>5. ASSUME NEW S \in SUBSET Tracks, Drop(S) PROVE TInv'
  <2>1. TablesAgree'
    BY <1>0, <1>5 DEF Drop, TablesAgree, Queued, locals, TypeOK
  <2> QED BY <1>5, <2>1 DEF Drop, Tended
<1>6. ASSUME NEW t \in Tracks, Forget(t) PROVE TInv'
  <2>1. TablesAgree'
    BY <1>0, <1>6 DEF Forget, TablesAgree, Queued, locals, TypeOK
  <2> QED BY <1>6, <2>1 DEF Forget, Tended
<1>7. CASE Crash
  <2>1. TablesAgree'
    BY <1>7 DEF Crash, TablesAgree, Queued
  <2> QED BY <1>7, <2>1 DEF Crash, Tended, Queued
<1> QED BY <1>1, <1>2, <1>3, <1>4, <1>5, <1>6, <1>7

LEMMA StepTInv == TInv /\ [Next]_vars => TInv'
<1> SUFFICES ASSUME TInv, [Next]_vars PROVE TInv'
  OBVIOUS
<1>0. IInv'
  BY StepIInv DEF TInv
<1>1. CASE UNCHANGED vars
  <2>1. TablesAgree'
    BY <1>1 DEF TInv, TablesAgree, Queued, vars, locals
  <2>2. Tended'
    BY <1>1 DEF TInv, Tended, Tending, Queued, Candidates, Recent, vars, locals
  <2> QED BY <1>0, <2>1, <2>2 DEF TInv
<1>2. CASE Next
  <2>1. ASSUME NEW p \in Procs, Pop(p) PROVE TInv'
    BY <1>0, <2>1, PopTends
  <2>2. ASSUME NEW p \in Procs, TopUp(p) PROVE TInv'
    BY <1>0, <2>2, TopUpTends
  <2>3. ASSUME NEW p \in Procs, Request(p) PROVE TInv'
    BY <1>0, <2>3, RequestTends
  <2>4. ASSUME NEW p \in Procs, StartStation(p) \/ \E S \in Asks : Ask(p, S) PROVE TInv'
    BY <1>0, <2>4, UsersTend
  <2>5. ASSUME NEW t \in Tracks, Drop({t}) \/ Forget(t) PROVE TInv'
    BY <1>0, <2>5, UsersTend
  <2>6. CASE Drop(Tracks) \/ StopStation \/ SetShuffle \/ OtherCommit \/ Crash
    BY <1>0, <2>6, UsersTend
  <2> QED BY <1>2, <2>1, <2>2, <2>3, <2>4, <2>5, <2>6 DEF Next
<1> QED BY <1>1, <1>2

\* A genre with more tracks than the history window never leaves its station with an
\* empty queue and nobody at work on it, whatever pops, refills and requests overlap, and
\* whatever fails while something is queued: whoever takes the last track brings the
\* next ones.
THEOREM NeverDry == Spec => []StationNeverDry
<1>1. TInv => StationNeverDry
  BY DEF TInv, Tended, StationNeverDry, Tending
<1> QED BY InitTInv, StepTInv, <1>1, PTL DEF Spec

-----------------------------------------------------------------------------
(* The library.  A form and a transaction are recursive functions, run over   *)
(* the libraries and over the lines of a form; first the induction that tells *)
(* what such a function computes.                                             *)

\* A set of natural numbers that is not empty has a least element.
LEMMA Least ==
  ASSUME NEW T \in SUBSET Nat, T # {}
  PROVE  \E n \in T : \A m \in T : n <= m
<1>1. IsWellFoundedOn(OpToRel(<, Nat), Nat)
  BY NatLessThanWellFounded
<1>2. \E n \in T : \A m \in T : ~(<<m, n>> \in OpToRel(<, Nat))
  BY <1>1, WFMin
<1>3. PICK n \in T : \A m \in T : ~(<<m, n>> \in OpToRel(<, Nat))
  BY <1>2
<1>4. \A m \in T : ~(m < n)
  BY <1>3 DEF OpToRel
<1> QED BY <1>4

\* What holds of 0, and of every number after one of which it holds, holds up to m.
LEMMA Induct ==
  ASSUME NEW m \in Nat, NEW S, 0 \in S,
         \A k \in 0 .. m : k + 1 <= m /\ k \in S => k + 1 \in S
  PROVE  0 .. m \subseteq S
<1> SUFFICES ASSUME NEW w \in 0 .. m, w \notin S PROVE FALSE
  OBVIOUS
<1> DEFINE T == {k \in 0 .. m : k \notin S}
<1>0. T \in SUBSET Nat
  OBVIOUS
<1>1. w \in T
  OBVIOUS
<1> HIDE DEF T
<1>2. PICK n \in T : \A j \in T : n <= j
  BY <1>0, <1>1, Least
<1>3. n \in 0 .. m /\ n \notin S
  BY <1>2 DEF T
<1>4. n # 0 /\ n - 1 \in 0 .. m /\ n - 1 + 1 = n
  BY <1>3
<1>5. n - 1 \in S
  <2> SUFFICES ASSUME n - 1 \notin S PROVE FALSE
    OBVIOUS
  <2>1. n - 1 \in T
    BY <1>4 DEF T
  <2> QED BY <1>2, <1>4, <2>1, <1>3
<1> QED BY <1>3, <1>4, <1>5

\* The runs of m steps that begin with z and take step k as F says.
Iterations(A, m, z, F) ==
  {g \in [0 .. m -> A] : g[0] = z /\ \A k \in 1 .. m : g[k] = F[<<g[k - 1], k>>]}

\* There is one, and it stays in A.
LEMMA Recursion ==
  ASSUME NEW A, NEW m \in Nat, NEW z \in A, NEW F \in [A \X (1 .. m) -> A]
  PROVE  \E g : g \in Iterations(A, m, z, F)
<1> DEFINE P(n) == \E g \in [0 .. n -> A] : g[0] = z /\ \A k \in 1 .. n : g[k] = F[<<g[k - 1], k>>]
           S == {n \in 0 .. m : P(n)}
<1>1. 0 \in S
  <2> DEFINE g0 == [k \in 0 .. 0 |-> z]
  <2>1. g0 \in [0 .. 0 -> A] /\ g0[0] = z /\ \A k \in 1 .. 0 : g0[k] = F[<<g0[k - 1], k>>]
    OBVIOUS
  <2>2. P(0)
    BY <2>1
  <2> QED BY <2>2
<1>2. ASSUME NEW n \in 0 .. m, n + 1 <= m, n \in S PROVE n + 1 \in S
  <2>1. PICK g \in [0 .. n -> A] : g[0] = z /\ \A k \in 1 .. n : g[k] = F[<<g[k - 1], k>>]
    BY <1>2
  <2> DEFINE h == [k \in 0 .. n + 1 |-> IF k = n + 1 THEN F[<<g[n], n + 1>>] ELSE g[k]]
  <2>0. g[n] \in A /\ n + 1 \in 1 .. m
    BY <1>2
  <2>2. h \in [0 .. n + 1 -> A]
    BY <2>0
  <2>3. h[n + 1] = F[<<g[n], n + 1>>] /\ \A i \in 0 .. n : h[i] = g[i]
    BY <1>2
  <2> HIDE DEF h
  <2>4. ASSUME NEW k \in 1 .. n + 1 PROVE h[k] = F[<<h[k - 1], k>>]
    <3>1. CASE k = n + 1
      <4>1. k - 1 = n /\ n \in 0 .. n
        BY <3>1
      <4> QED BY <2>3, <3>1, <4>1
    <3>2. CASE k # n + 1
      <4>1. k \in 1 .. n /\ k \in 0 .. n /\ k - 1 \in 0 .. n
        BY <3>2
      <4> QED BY <2>1, <2>3, <4>1
    <3> QED BY <3>1, <3>2
  <2>5. P(n + 1)
    <3>1. h[0] = z
      BY <2>1, <2>3
    <3> QED BY <2>2, <2>4, <3>1
  <2> QED BY <1>2, <2>5
<1> HIDE DEF S, P
<1>3. 0 .. m \subseteq S
  BY <1>1, <1>2, Induct, SMTT(30)
<1>4. P(m)
  BY <1>3 DEF S
<1> QED BY <1>4 DEF Iterations, P

-----------------------------------------------------------------------------
(* The form.                                                                  *)

\* The forms that name only libraries that have been created.
Lines == {s \in Seq(Entry) : \A k \in DOMAIN s : s[k].id \in Ids => s[k].id <= lastId}

\* A form is filled with the libraries that there are.
LEMMA FormTyped ==
  ASSUME LibraryTypeOK, Housed
  PROVE  Form \in Lines
<1> DEFINE Body(s, i) ==
      IF Present(i) THEN Append(s, [id |-> i, root |-> lib[i].root, on |-> lib[i].on]) ELSE s
    F == [p \in Lines \X (1 .. MaxIds) |-> Body(p[1], p[2])]
    G(g) == [i \in 0 .. MaxIds |-> IF i = 0 THEN <<>> ELSE Body(g[i - 1], i)]
    lines == CHOOSE g : g = G(g)
<1>1. ASSUME NEW s \in Lines, NEW i \in 1 .. MaxIds PROVE Body(s, i) \in Lines
  <2> DEFINE e == [id |-> i, root |-> lib[i].root, on |-> lib[i].on]
  <2>1. CASE Present(i)
    <3>1. i \in Ids /\ lib[i] \in Lib /\ i <= lastId
      BY <2>1 DEF LibraryTypeOK, Present, Ids, Housed
    <3>2. e \in Entry
      BY <3>1 DEF Entry, Lib
    <3>3. s \in Seq(Entry) /\ \A k \in DOMAIN s : s[k].id \in Ids => s[k].id <= lastId
      BY DEF Lines
    <3> DEFINE u == Append(s, e)
    <3>4. u \in Seq(Entry) /\ Len(u) = Len(s) + 1 /\ u[Len(s) + 1] = e /\ \A k \in 1 .. Len(s) : u[k] = s[k]
      BY <3>2, <3>3, AppendProperties
    <3>5. ASSUME NEW k \in DOMAIN u PROVE u[k].id \in Ids => u[k].id <= lastId
      <4>0. e.id = i
        OBVIOUS
      <4> HIDE DEF e, u
      <4>1. k \in 1 .. Len(s) + 1 /\ Len(s) \in Nat /\ DOMAIN s = 1 .. Len(s)
        BY <3>3, <3>4
      <4> QED BY <3>1, <3>3, <3>4, <4>1, <4>0
    <3> HIDE DEF u, e
    <3>6. u \in Lines
      BY <3>4, <3>5 DEF Lines
    <3> QED BY <3>6, <2>1 DEF u, e
  <2> QED BY <2>1
<1>2. <<>> \in Lines
  BY DEF Lines
<1>3. MaxIds \in Nat
  BY LibraryAssumption
<1>4. F \in [Lines \X (1 .. MaxIds) -> Lines]
  BY <1>1
<1>5. PICK g \in [0 .. MaxIds -> Lines] :
        g[0] = <<>> /\ \A k \in 1 .. MaxIds : g[k] = F[<<g[k - 1], k>>]
  <2> HIDE DEF F
  <2>1. \E g : g \in Iterations(Lines, MaxIds, <<>>, F)
    BY <1>2, <1>3, <1>4, Recursion
  <2> QED BY <2>1 DEF Iterations
<1>6. \A k \in 1 .. MaxIds : g[k] = Body(g[k - 1], k)
  <2> SUFFICES ASSUME NEW k \in 1 .. MaxIds PROVE g[k] = Body(g[k - 1], k)
    OBVIOUS
  <2>1. g[k - 1] \in Lines
    BY <1>3
  <2>2. <<g[k - 1], k>> \in Lines \X (1 .. MaxIds)
    BY <2>1
  <2>3. F[<<g[k - 1], k>>] = Body(g[k - 1], k)
    BY <2>2
  <2> QED BY <1>5, <2>3
<1>7. g = G(g)
  <2> HIDE DEF Body
  <2> QED BY <1>3, <1>5, <1>6
<1>8. Form = lines[MaxIds]
  BY DEF Form
<1>9. lines = G(lines)
  BY <1>7
<1>10. lines[0] = <<>> /\ \A k \in 1 .. MaxIds : lines[k] = Body(lines[k - 1], k)
  <2> HIDE DEF lines, Body
  <2> QED BY <1>9, <1>3
<1> DEFINE S == {k \in 0 .. MaxIds : lines[k] \in Lines}
<1>11. ASSUME NEW k \in 0 .. MaxIds, k + 1 <= MaxIds, k \in S PROVE k + 1 \in S
  <2> HIDE DEF lines, Body
  <2>1. k + 1 \in 1 .. MaxIds /\ (k + 1) - 1 = k
    BY <1>11, <1>3
  <2>2. lines[k + 1] = Body(lines[k], k + 1)
    BY <1>10, <2>1
  <2> QED BY <1>1, <1>11, <2>1, <2>2
<1>12. 0 \in S
  <2> HIDE DEF lines
  <2> QED BY <1>2, <1>3, <1>10
<1>13. 0 .. MaxIds \subseteq S
  <2> HIDE DEF S
  <2> QED BY <1>3, <1>11, <1>12, Induct
<1> HIDE DEF lines
<1> QED BY <1>3, <1>8, <1>13
-----------------------------------------------------------------------------
(* The transaction.                                                           *)

\* The tables that the lines of a form can lead to: numbers are given in order, what is
\* kept is there, and what was not there before has a new number or a line of the form.
TableState == [lib : [Ids -> Lib \cup {NoLib}], lastId : 0 .. MaxIds, kept : SUBSET Ids, ok : BOOLEAN]
Reached(t, form) ==
  /\ t \in TableState
  /\ lastId <= t.lastId
  /\ \A i \in Ids : t.lib[i] # NoLib =>
       i <= t.lastId /\ (Present(i) \/ i > lastId \/ \E k \in DOMAIN form : form[k].id = i)
  /\ \A i \in t.kept : t.lib[i] # NoLib

\* A row that is written, also one with the next number n, keeps to this.
LEMMA Placed ==
  ASSUME LibraryTypeOK, NEW form, NEW t, Reached(t, form), NEW e, e.root \in Roots, e.on \in BOOLEAN,
         NEW n \in 0 .. MaxIds, t.lastId <= n, NEW i \in Ids, i <= n,
         Present(i) \/ i > lastId \/ \E k \in DOMAIN form : form[k].id = i
  PROVE  Reached([Write(t, i, e) EXCEPT !.lastId = n], form)
<1> DEFINE l == [root |-> e.root, on |-> e.on]
           u == [Write(t, i, e) EXCEPT !.lastId = n]
<1>1. t \in TableState
  BY DEF Reached
<1>2. l \in Lib /\ l # NoLib
  BY LibraryAssumption DEF Lib, NoLib
<1> DEFINE v == [t EXCEPT !.lib[i] = l, !.kept = @ \cup {i}]
<1>0. u = [v EXCEPT !.lastId = n]
  BY DEF Write
<1> HIDE DEF l, u
<1>11. v \in TableState /\ v.lib = [t.lib EXCEPT ![i] = l] /\ v.kept = t.kept \cup {i}
  BY <1>1, <1>2 DEF TableState
<1> HIDE DEF v
<1>4. u \in TableState
  BY <1>0, <1>11 DEF TableState
<1>3. u.lib = [t.lib EXCEPT ![i] = l] /\ u.lastId = n /\ u.kept = t.kept \cup {i}
  BY <1>0, <1>11 DEF TableState
<1>5. u.lib[i] = l /\ \A k \in Ids \ {i} : u.lib[k] = t.lib[k]
  BY <1>1, <1>3 DEF TableState
<1>6. u.lastId = n /\ u.kept = t.kept \cup {i}
  BY <1>3
<1>7. lastId \in Nat /\ t.lastId \in Nat /\ n \in Nat /\ Ids \subseteq Nat
  BY <1>1, LibraryAssumption DEF LibraryTypeOK, TableState, Ids
<1>8. lastId <= u.lastId
  BY <1>6, <1>7 DEF Reached
<1>9. ASSUME NEW k \in Ids, u.lib[k] # NoLib
      PROVE k <= u.lastId /\ (Present(k) \/ k > lastId \/ \E m \in DOMAIN form : form[m].id = k)
  BY <1>5, <1>6, <1>7, <1>9 DEF Reached
<1>10. \A k \in u.kept : u.lib[k] # NoLib
  BY <1>1, <1>2, <1>5, <1>6 DEF Reached, TableState
<1> QED BY <1>4, <1>8, <1>9, <1>10 DEF Reached, u

LEMMA TableReached ==
  ASSUME LibraryTypeOK, Housed, NEW form
  PROVE  Reached(Table, form)
<1>1. Table \in TableState
  BY DEF Table, TableState, LibraryTypeOK
<1>2. \A i \in Ids : Table.lib[i] # NoLib => i <= Table.lastId /\ Present(i)
  BY DEF Table, LibraryTypeOK, Housed, Present, Ids
<1>3. lastId <= Table.lastId /\ Table.kept = {}
  BY DEF Table, LibraryTypeOK
<1> QED BY <1>1, <1>2, <1>3 DEF Reached

LEMMA Refused ==
  ASSUME NEW form, NEW t, Reached(t, form)
  PROVE  Reached([t EXCEPT !.ok = FALSE], form)
<1> DEFINE u == [t EXCEPT !.ok = FALSE]
<1>2. u \in TableState
  BY DEF Reached, TableState
<1>3. u.lib = t.lib /\ u.lastId = t.lastId /\ u.kept = t.kept
  BY DEF Reached, TableState
<1> HIDE DEF u
<1> QED BY <1>2, <1>3 DEF Reached, u

LEMMA InsertedReached ==
  ASSUME LibraryTypeOK, NEW form, NEW t, Reached(t, form), NEW e, e.root \in Roots, e.on \in BOOLEAN
  PROVE  Reached(Inserted(t, e), form)
<1>1. t.lastId \in 0 .. MaxIds /\ lastId <= t.lastId /\ lastId \in Nat
  BY DEF Reached, TableState, LibraryTypeOK
<1>2. CASE t.lastId = MaxIds
  BY <1>2, Refused DEF Inserted
<1>3. CASE t.lastId # MaxIds
  <2>1. t.lastId + 1 \in Ids /\ t.lastId + 1 \in 0 .. MaxIds /\ t.lastId + 1 > lastId
        /\ t.lastId <= t.lastId + 1 /\ t.lastId + 1 <= t.lastId + 1
    BY <1>1, <1>3, LibraryAssumption DEF Ids
  <2>2. Write(t, t.lastId + 1, e).lastId = t.lastId
    BY DEF Write, Reached, TableState
  <2>3. Inserted(t, e) = [Write(t, t.lastId + 1, e) EXCEPT !.lastId = t.lastId + 1]
    BY <1>3, <2>2 DEF Inserted
  <2>4. Reached([Write(t, t.lastId + 1, e) EXCEPT !.lastId = t.lastId + 1], form)
    BY <2>1, Placed
  <2> QED BY <2>3, <2>4
<1> QED BY <1>2, <1>3

LEMMA WriteReached ==
  ASSUME LibraryTypeOK, NEW form, NEW t, Reached(t, form), NEW e, e.root \in Roots, e.on \in BOOLEAN,
         NEW i \in Ids, i <= t.lastId,
         Present(i) \/ i > lastId \/ \E k \in DOMAIN form : form[k].id = i
  PROVE  Reached(Write(t, i, e), form)
<1>1. t.lastId \in 0 .. MaxIds /\ t.lastId <= t.lastId
  BY DEF Reached, TableState
<1>2. [Write(t, i, e) EXCEPT !.lastId = t.lastId] = Write(t, i, e)
  BY DEF Write, Reached, TableState
<1>3. Reached([Write(t, i, e) EXCEPT !.lastId = t.lastId], form)
  BY <1>1, Placed
<1> QED BY <1>2, <1>3

LEMMA PutReached ==
  ASSUME LibraryTypeOK, NEW form \in Lines, NEW t, Reached(t, form), NEW j \in DOMAIN form,
         NEW e, e = form[j]
  PROVE  Reached(PutEntry(t, e), form)
<1>0. form \in Seq(Entry)
  BY DEF Lines
<1>9. e \in Entry
  BY <1>0
<1>1. e.id \in Ids \cup {None} /\ e.root \in Roots /\ e.on \in BOOLEAN
  BY <1>9 DEF Entry
<1>2. e.id \in Ids => e.id <= lastId
  BY DEF Lines
<1>3. t \in TableState /\ lastId <= t.lastId /\ lastId \in Nat /\ t.lastId \in Nat /\ Ids \subseteq Nat
  BY DEF Reached, TableState, LibraryTypeOK, Ids
<1>5. CASE ~t.ok
  <2>1. PutEntry(t, e) = t
    BY <1>5 DEF PutEntry
  <2> QED BY <2>1
<1>6. CASE t.ok /\ e.id # None
  <2>0. e.id \in Ids
    BY <1>1, <1>6, Zenon
  <2>5. e.id \in Nat /\ e.id <= lastId
    BY <1>2, <1>3, <2>0
  <2>1. e.id <= t.lastId
    BY <1>3, <2>5
  <2>2. Reached(Write(t, e.id, e), form)
    BY <1>1, <2>0, <2>1, WriteReached
  <2>3. Reached([t EXCEPT !.ok = FALSE], form)
    BY Refused
  <2>4. PutEntry(t, e) = IF Holder(t, e.root) \subseteq {e.id} THEN Write(t, e.id, e) ELSE [t EXCEPT !.ok = FALSE]
    BY <1>6 DEF PutEntry
  <2> QED BY <2>2, <2>3, <2>4
<1>7. CASE t.ok /\ e.id = None /\ Holder(t, e.root) # {}
  <2> DEFINE i == CHOOSE i \in Holder(t, e.root) : TRUE
  <2>1. i \in Holder(t, e.root)
    BY <1>7
  <2> HIDE DEF i
  <2>2. i \in Ids /\ t.lib[i].root \in Roots
    BY <1>1, <2>1 DEF Holder
  <2>3. t.lib[i] # NoLib
    BY <2>2, LibraryAssumption DEF NoLib
  <2>4. i <= t.lastId /\ (Present(i) \/ i > lastId \/ \E k \in DOMAIN form : form[k].id = i)
    BY <2>2, <2>3 DEF Reached
  <2>5. Reached(Write(t, i, e), form)
    BY <1>1, <2>2, <2>4, WriteReached
  <2>6. PutEntry(t, e) = Write(t, i, e)
    BY <1>7 DEF PutEntry, i
  <2> QED BY <2>5, <2>6
<1>8. CASE t.ok /\ e.id = None /\ Holder(t, e.root) = {}
  <2>1. PutEntry(t, e) = Inserted(t, e)
    BY <1>8 DEF PutEntry
  <2> QED BY <1>1, <2>1, InsertedReached
<1> QED BY <1>5, <1>6, <1>7, <1>8

\* All the lines of a form, one after another.
LEMMA TransactionReached ==
  ASSUME LibraryTypeOK, Housed, NEW form \in Lines
  PROVE  Reached(Transaction(form), form)
<1> DEFINE n == Len(form)
           A == {t \in TableState : Reached(t, form)}
           F == [p \in A \X (1 .. n) |-> PutEntry(p[1], form[p[2]])]
           G(g) == [k \in 0 .. n |-> IF k = 0 THEN Table ELSE PutEntry(g[k - 1], form[k])]
           steps == CHOOSE g : g = G(g)
<1>0. n \in Nat /\ DOMAIN form = 1 .. n
  BY DEF Lines
<1>1. ASSUME NEW t \in A, NEW k \in 1 .. n PROVE PutEntry(t, form[k]) \in A
  <2>1. Reached(PutEntry(t, form[k]), form)
    BY <1>0, PutReached
  <2> QED BY <2>1 DEF Reached
<1>2. Table \in A
  BY TableReached DEF Reached
<1> HIDE DEF A, n
<1>4. F \in [A \X (1 .. n) -> A]
  BY <1>1
<1>5. PICK g \in [0 .. n -> A] : g[0] = Table /\ \A k \in 1 .. n : g[k] = F[<<g[k - 1], k>>]
  <2> HIDE DEF F
  <2>1. \E g : g \in Iterations(A, n, Table, F)
    BY <1>0, <1>2, <1>4, Recursion
  <2> QED BY <2>1 DEF Iterations
<1>6. \A k \in 1 .. n : g[k] = PutEntry(g[k - 1], form[k])
  <2> SUFFICES ASSUME NEW k \in 1 .. n PROVE g[k] = PutEntry(g[k - 1], form[k])
    OBVIOUS
  <2>1. g[k - 1] \in A
    BY <1>0
  <2>2. F[<<g[k - 1], k>>] = PutEntry(g[k - 1], form[k])
    BY <2>1
  <2> QED BY <1>5, <2>2
<1>7. g = G(g)
  BY <1>0, <1>5, <1>6
<1>8. Transaction(form) = steps[n]
  BY DEF Transaction, n
<1>9. steps = G(steps)
  BY <1>7
<1> HIDE DEF steps
<1>10. steps[0] = Table /\ \A k \in 1 .. n : steps[k] = PutEntry(steps[k - 1], form[k])
  BY <1>9, <1>0
<1> DEFINE S == {k \in 0 .. n : steps[k] \in A}
<1>11. ASSUME NEW k \in 0 .. n, k + 1 <= n, k \in S PROVE k + 1 \in S
  <2>1. k + 1 \in 1 .. n /\ (k + 1) - 1 = k
    BY <1>11, <1>0
  <2>2. steps[k + 1] = PutEntry(steps[k], form[k + 1])
    BY <1>10, <2>1
  <2> QED BY <1>1, <1>11, <2>1, <2>2
<1>12. 0 \in S
  BY <1>2, <1>0, <1>10
<1>13. 0 .. n \subseteq S
  <2> HIDE DEF S
  <2> QED BY <1>0, <1>11, <1>12, Induct
<1> QED BY <1>0, <1>8, <1>13 DEF A

\* Whatever is done to a form, it names no library that is yet to be created.
LEMMA WithoutLines ==
  ASSUME NEW form \in Lines, NEW k \in DOMAIN form
  PROVE  Without(form, k) \in Lines
<1> DEFINE n == Len(form)
           s1 == SubSeq(form, 1, k - 1)
           s2 == SubSeq(form, k + 1, n)
           w == s1 \o s2
<1>1. form \in Seq(Entry) /\ n \in Nat /\ DOMAIN form = 1 .. n /\ k \in 1 .. n
      /\ \A j \in 1 .. n : form[j] \in Entry /\ (form[j].id \in Ids => form[j].id <= lastId)
  BY DEF Lines
<1> HIDE DEF n
<1>2. \A j \in 1 .. k - 1 : form[j] \in Entry
  BY <1>1
<1>3. \A j \in k + 1 .. n : form[j] \in Entry
  BY <1>1
<1>4. s1 \in Seq(Entry) /\ Len(s1) = (IF 1 <= k - 1 THEN k - 1 - 1 + 1 ELSE 0)
      /\ \A j \in 1 .. k - 1 - 1 + 1 : s1[j] = form[1 + j - 1]
  <2>1. 1 \in Nat /\ k - 1 \in Int
    BY <1>1
  <2> QED BY <1>1, <1>2, <2>1, SubSeqProperties
<1>5. s2 \in Seq(Entry) /\ Len(s2) = (IF k + 1 <= n THEN n - (k + 1) + 1 ELSE 0)
      /\ \A j \in 1 .. n - (k + 1) + 1 : s2[j] = form[k + 1 + j - 1]
  <2>1. k + 1 \in Int /\ n \in Int
    BY <1>1
  <2> QED BY <1>1, <1>3, <2>1, SubSeqProperties
<1> HIDE DEF s1, s2
<1>6. w \in Seq(Entry) /\ Len(w) = Len(s1) + Len(s2)
      /\ \A j \in 1 .. Len(s1) + Len(s2) : w[j] = IF j <= Len(s1) THEN s1[j] ELSE s2[j - Len(s1)]
  BY <1>4, <1>5, ConcatProperties
<1>7. Len(s1) = k - 1 /\ Len(s2) = n - k
  BY <1>1, <1>4, <1>5
<1> HIDE DEF w
<1>8. ASSUME NEW j \in DOMAIN w PROVE \E m \in 1 .. n : w[j] = form[m]
  <2>1. j \in 1 .. n - 1
    BY <1>1, <1>6, <1>7
  <2>2. CASE j <= k - 1
    <3>1. w[j] = s1[j] /\ s1[j] = form[1 + j - 1] /\ 1 + j - 1 = j /\ j \in 1 .. n
      BY <1>1, <1>4, <1>6, <1>7, <2>1, <2>2
    <3> QED BY <3>1
  <2>3. CASE ~(j <= k - 1)
    <3> DEFINE i == j - (k - 1)
    <3>1. w[j] = s2[i]
      BY <1>1, <1>6, <1>7, <2>1, <2>3
    <3>2. i \in 1 .. n - (k + 1) + 1 /\ k + 1 + i - 1 = j + 1 /\ j + 1 \in 1 .. n
      BY <1>1, <2>1, <2>3
    <3> HIDE DEF i
    <3>3. s2[i] = form[k + 1 + i - 1]
      BY <1>5, <3>2
    <3> QED BY <3>1, <3>2, <3>3
  <2> QED BY <2>2, <2>3
<1>9. \A j \in DOMAIN w : w[j].id \in Ids => w[j].id <= lastId
  BY <1>1, <1>8
<1>10. w \in Lines
  BY <1>6, <1>9 DEF Lines
<1> QED BY <1>10 DEF w, s1, s2, n, Without

LEMMA EditsLines ==
  ASSUME LibraryTypeOK, NEW form \in Lines, NEW e \in Edits(form)
  PROVE  e \in Lines
<1>1. form \in Seq(Entry) /\ DOMAIN form = 1 .. Len(form) /\ Len(form) \in Nat
      /\ \A j \in DOMAIN form : form[j] \in Entry /\ (form[j].id \in Ids => form[j].id <= lastId)
  BY DEF Lines
<1>2. ASSUME NEW k \in DOMAIN form, NEW l \in Entry, l.id = form[k].id
      PROVE [form EXCEPT ![k] = l] \in Lines
  <2> DEFINE u == [form EXCEPT ![k] = l]
  <2>1. u \in Seq(Entry) /\ Len(u) = Len(form)
        /\ \A j \in 1 .. Len(form) : u[j] = IF j = k THEN l ELSE form[j]
    BY <1>1, ExceptSeq
  <2> HIDE DEF u
  <2>2. DOMAIN u = 1 .. Len(form)
    BY <1>1, <2>1
  <2>3. \A j \in DOMAIN u : u[j].id \in Ids => u[j].id <= lastId
    BY <1>1, <1>2, <2>1, <2>2
  <2>4. u \in Lines
    BY <2>1, <2>3 DEF Lines
  <2> QED BY <2>4 DEF u
<1>3. CASE e = form
  BY <1>3
<1>4. CASE e \in {Without(form, k) : k \in DOMAIN form}
  BY <1>4, WithoutLines
<1>5. CASE e \in {[form EXCEPT ![k].on = ~@] : k \in DOMAIN form}
  <2>1. PICK k \in DOMAIN form : e = [form EXCEPT ![k].on = ~@]
    BY <1>5
  <2> DEFINE l == [form[k] EXCEPT !.on = ~@]
  <2>2. form[k] \in Entry
    BY <1>1
  <2>3. l \in Entry /\ l.id = form[k].id
    BY <2>2 DEF Entry
  <2>4. e = [form EXCEPT ![k] = l]
    BY <2>1
  <2> HIDE DEF l
  <2> QED BY <1>2, <2>3, <2>4
<1>6. CASE e \in {[form EXCEPT ![k].root = r] : k \in DOMAIN form, r \in Roots}
  <2>1. PICK k \in DOMAIN form, r \in Roots : e = [form EXCEPT ![k].root = r]
    BY <1>6
  <2> DEFINE l == [form[k] EXCEPT !.root = r]
  <2>2. form[k] \in Entry
    BY <1>1
  <2>3. l \in Entry /\ l.id = form[k].id
    BY <2>2 DEF Entry
  <2>4. e = [form EXCEPT ![k] = l]
    BY <2>1
  <2> HIDE DEF l
  <2> QED BY <1>2, <2>3, <2>4
<1>7. CASE e \in {Append(form, [id |-> None, root |-> r, on |-> TRUE]) : r \in Roots}
  <2>1. PICK r \in Roots : e = Append(form, [id |-> None, root |-> r, on |-> TRUE])
    BY <1>7
  <2> DEFINE l == [id |-> None, root |-> r, on |-> TRUE]
  <2>2. l \in Entry /\ l.id = None
    BY DEF Entry
  <2>3. e = Append(form, l)
    BY <2>1
  <2> HIDE DEF l
  <2>4. e \in Seq(Entry) /\ Len(e) = Len(form) + 1 /\ e[Len(form) + 1] = l
        /\ \A j \in 1 .. Len(form) : e[j] = form[j]
    BY <1>1, <2>2, <2>3, AppendProperties
  <2>5. DOMAIN e = 1 .. Len(form) + 1
    BY <2>4, <1>1
  <2>6. None \notin Ids
    BY LibraryAssumption DEF Ids
  <2>7. \A j \in DOMAIN e : e[j].id \in Ids => e[j].id <= lastId
    BY <1>1, <2>2, <2>4, <2>5, <2>6
  <2> QED BY <2>4, <2>7 DEF Lines
<1> DEFINE Cut == {Without(form, k) : k \in DOMAIN form}
           Turned == {[form EXCEPT ![k].on = ~@] : k \in DOMAIN form}
           Moved == {[form EXCEPT ![k].root = r] : k \in DOMAIN form, r \in Roots}
           Grown == {Append(form, [id |-> None, root |-> r, on |-> TRUE]) : r \in Roots}
<1>8. Edits(form) = {form} \cup Cut \cup Turned \cup Moved \cup Grown
  BY DEF Edits
<1>9. e \in Cut => e \in Lines
  BY <1>4
<1>10. e \in Turned => e \in Lines
  BY <1>5
<1>11. e \in Moved => e \in Lines
  BY <1>6
<1>12. e \in Grown => e \in Lines
  BY <1>7
<1> HIDE DEF Cut, Turned, Moved, Grown
<1> QED BY <1>3, <1>8, <1>9, <1>10, <1>11, <1>12

-----------------------------------------------------------------------------
(* The invariant of the library, one operation after another.                 *)

LEMMA InitLibrary == LibraryInit => LibraryInv
<1> SUFFICES ASSUME LibraryInit PROVE LibraryInv
  OBVIOUS
<1> USE DEF LibraryInit
<1>0. 1 \in Ids /\ Ids \subseteq Nat
  BY LibraryAssumption DEF Ids
<1>1. NoSave \in SaveState /\ NoSave.form = <<>>
  BY DEF NoSave, SaveState
<1>9. scan \in ScanState
  <2>1. CommandLine \in Roots
    BY LibraryAssumption
  <2>2. scan = [at |-> "load", flag |-> FALSE, roots |-> {CommandLine}, id |-> None, left |-> {},
                bad |-> FALSE, seen |-> {}, jobs |-> {}, read |-> {}, done |-> {}]
    BY DEF NoScan
  <2> HIDE DEF LibraryInit
  <2> QED BY <2>1, <2>2 DEF ScanState
<1>2. lib \in [Ids -> Lib \cup {NoLib}]
  BY LibraryAssumption DEF Seeded, Lib
<1>3. LibraryTypeOK
  <2>1. lastId \in 0 .. MaxIds /\ flag \in BOOLEAN /\ queued \in SUBSET Rows
    <3>1. lastId = 1 /\ flag = FALSE /\ queued = {}
      OBVIOUS
    <3> HIDE DEF LibraryInit
    <3>2. 1 \in 0 .. MaxIds
      BY LibraryAssumption
    <3>3. flag \in BOOLEAN
      BY <3>1
    <3> QED BY <3>1, <3>2, <3>3
  <2>2. track \in [Rows -> Row \cup {NoRow}] /\ save \in [Admins -> SaveState]
    BY <1>1
  <2>3. there \in SUBSET Files /\ gone \in SUBSET Files
    BY LibraryAssumption
  <2>4. ver \in [Files -> Nat \ {0}]
    OBVIOUS
  <2>5. home \in [Ids -> SUBSET Roots]
    BY LibraryAssumption
  <2> QED BY <1>2, <1>9, <2>1, <2>2, <2>3, <2>4, <2>5 DEF LibraryTypeOK
<1>4. Tagged
  BY DEF Tagged, NoScan, Indexed
<1>5. Housed
  BY <1>0, <1>1, LibraryAssumption DEF Housed, NoScan, Indexed, Present, Seeded, NoLib
<1>6. Walks
  BY DEF Walks, NoScan
<1>7. Regular
  BY DEF Regular, NoScan, Indexed
<1>8. Undisturbed
  BY DEF Undisturbed, NoScan
<1> QED BY <1>3, <1>4, <1>5, <1>6, <1>7, <1>8 DEF LibraryInv

\* A step that changes nothing but a form, the queue and the counts.
LEMMA FormStep ==
  ASSUME LibraryInv, UNCHANGED <<config, flag, track, disk, scan, ghosts>>,
         save' \in [Admins -> SaveState], \A a \in Admins : save'[a].form \in Lines,
         queued' \in SUBSET Rows, saves' \in Nat, events' \in Nat
  PROVE  LibraryInv'
<1> USE DEF LibraryInv, config, disk, ghosts
<1>1. LibraryTypeOK'
  BY DEF LibraryTypeOK
<1>2. Tagged'
  BY DEF Tagged, Indexed
<1>3. \A a \in Admins : \A k \in DOMAIN save'[a].form :
        save'[a].form[k].id \in Ids => save'[a].form[k].id <= lastId
  BY DEF Lines
<1>4. Housed'
  BY <1>3 DEF Housed, Indexed, Present, Belongs
<1>5. Walks'
  BY DEF Walks
<1>6. Regular'
  BY DEF Regular, Indexed
<1>7. Undisturbed'
  BY DEF Undisturbed, Present, Current, Pending, Indexed
<1> QED BY <1>1, <1>2, <1>4, <1>5, <1>6, <1>7

LEMMA SaveForms ==
  ASSUME LibraryInv
  PROVE  /\ \A a \in Admins : save[a] \in SaveState /\ save[a].form \in Lines
         /\ NoSave \in SaveState /\ NoSave.form \in Lines
BY DEF LibraryInv, LibraryTypeOK, Housed, SaveState, NoSave, Lines

LEMMA OpenStep == ASSUME LibraryInv, NEW a \in Admins, Open(a) PROVE LibraryInv'
<1>1. Form \in Lines
  BY FormTyped DEF LibraryInv
<1> DEFINE next == [NoSave EXCEPT !.at = "form", !.form = Form]
<1>2. next \in SaveState /\ next.form = Form
  BY <1>1 DEF NoSave, SaveState, Lines
<1>3. save' = [save EXCEPT ![a] = next]
  BY DEF Open, SaveTo
<1> HIDE DEF next
<1>4. save' \in [Admins -> SaveState] /\ \A b \in Admins : save'[b].form \in Lines
  BY <1>1, <1>2, <1>3, SaveForms DEF LibraryInv, LibraryTypeOK
<1>5. UNCHANGED <<config, flag, track, disk, scan, ghosts>> /\ queued' \in SUBSET Rows /\ saves' \in Nat /\ events' \in Nat
  BY DEF Open, index, LibraryInv, LibraryTypeOK
<1> QED BY <1>4, <1>5, FormStep

LEMMA PreviousStep == ASSUME LibraryInv, NEW a \in Admins, Previous(a) PROVE LibraryInv'
<1> DEFINE next == [save[a] EXCEPT !.at = "flag", !.before = flag]
<1>2. next \in SaveState /\ next.form \in Lines
  BY SaveForms DEF SaveState, LibraryInv, LibraryTypeOK
<1>3. save' = [save EXCEPT ![a] = next]
  BY DEF Previous, SaveTo
<1> HIDE DEF next
<1>4. save' \in [Admins -> SaveState] /\ \A b \in Admins : save'[b].form \in Lines
  BY <1>2, <1>3, SaveForms DEF LibraryInv, LibraryTypeOK
<1>5. UNCHANGED <<config, flag, track, disk, scan, ghosts>> /\ queued' \in SUBSET Rows /\ saves' \in Nat /\ events' \in Nat
  BY DEF Previous, index, counts, LibraryInv, LibraryTypeOK
<1> QED BY <1>4, <1>5, FormStep

LEMMA GatherStep == ASSUME LibraryInv, NEW a \in Admins, Gather(a) PROVE LibraryInv'
<1> DEFINE next == IF EnabledRoots = {} THEN NoSave ELSE [NoSave EXCEPT !.at = "start", !.roots = EnabledRoots]
<1>1. EnabledRoots \in SUBSET Roots
  BY DEF EnabledRoots, LibraryInv, LibraryTypeOK, Lib, NoLib
<1>2. next \in SaveState /\ next.form \in Lines
  BY <1>1, SaveForms DEF SaveState, NoSave
<1>3. save' = [save EXCEPT ![a] = next]
  BY DEF Gather, SaveTo
<1> HIDE DEF next
<1>4. save' \in [Admins -> SaveState] /\ \A b \in Admins : save'[b].form \in Lines
  BY <1>2, <1>3, SaveForms DEF LibraryInv, LibraryTypeOK
<1>5. UNCHANGED <<config, flag, track, disk, scan, ghosts>> /\ queued' \in SUBSET Rows /\ saves' \in Nat /\ events' \in Nat
  BY DEF Gather, index, counts, LibraryInv, LibraryTypeOK
<1> QED BY <1>4, <1>5, FormStep

LEMMA QueueStep == ASSUME LibraryInv, NEW x \in Rows, Enqueue(x) \/ Play(x) PROVE LibraryInv'
<1>1. save' \in [Admins -> SaveState] /\ \A b \in Admins : save'[b].form \in Lines
  BY SaveForms DEF Enqueue, Play, LibraryInv, LibraryTypeOK
<1>2. UNCHANGED <<config, flag, track, disk, scan, ghosts>> /\ queued' \in SUBSET Rows /\ saves' \in Nat /\ events' \in Nat
  BY DEF Enqueue, Play, Event, counts, LibraryInv, LibraryTypeOK
<1> QED BY <1>1, <1>2, FormStep

LEMMA LibraryStutter == LibraryInv /\ UNCHANGED libraryVars => LibraryInv'
<1> SUFFICES ASSUME LibraryInv, UNCHANGED libraryVars PROVE LibraryInv'
  OBVIOUS
<1>1. save' \in [Admins -> SaveState] /\ \A b \in Admins : save'[b].form \in Lines
  BY SaveForms DEF libraryVars, LibraryInv, LibraryTypeOK
<1>2. UNCHANGED <<config, flag, track, disk, scan, ghosts>> /\ queued' \in SUBSET Rows /\ saves' \in Nat /\ events' \in Nat
  BY DEF libraryVars, index, counts, LibraryInv, LibraryTypeOK
<1> QED BY <1>1, <1>2, FormStep

\* A save: the libraries that stay keep their homes, those it creates have new numbers.
LEMMA SubmitStep == ASSUME LibraryInv, NEW a \in Admins, Submit(a) PROVE LibraryInv'
<1> USE DEF LibraryInv
<1>1. PICK form \in Edits(save[a].form), next \in {"before", "roots", "idle"}, f \in BOOLEAN :
        LET t == Transaction(form) IN
        IF Distinct(form) /\ t.ok
        THEN /\ lib' = DropOthers(t) /\ lastId' = t.lastId
             /\ home' = Homes(t, form)
             /\ clean' = (clean /\ lib' = lib)
             /\ SaveTo(a, IF next = "idle" THEN NoSave ELSE [NoSave EXCEPT !.at = next, !.flag = f /\ next = "before"])
             /\ UNCHANGED <<gone, stained>>
        ELSE SaveTo(a, NoSave) /\ UNCHANGED <<config, ghosts>>
  BY DEF Submit
<1>2. form \in Lines
  BY SaveForms, EditsLines
<1> DEFINE t == Transaction(form)
           line == IF next = "idle" THEN NoSave ELSE [NoSave EXCEPT !.at = next, !.flag = f /\ next = "before"]
<1>3. Reached(t, form)
  BY <1>2, TransactionReached
<1>4. UNCHANGED <<flag, track, queued, there, ver, scan, saves, events>>
  BY DEF Submit, index, disk, counts
<1>5. line \in SaveState /\ line.form \in Lines
  <2>1. (f /\ next = "before") \in BOOLEAN
    OBVIOUS
  <2> QED BY <2>1, SaveForms DEF NoSave, SaveState
<1> HIDE DEF t, line
<1>6. CASE SaveTo(a, NoSave) /\ UNCHANGED <<config, ghosts>>
  <2>1. save' \in [Admins -> SaveState] /\ \A b \in Admins : save'[b].form \in Lines
    BY <1>6, SaveForms DEF SaveTo, LibraryTypeOK
  <2>2. UNCHANGED <<config, flag, track, disk, scan, ghosts>> /\ queued' \in SUBSET Rows /\ saves' \in Nat /\ events' \in Nat
    BY <1>4, <1>6 DEF disk, LibraryTypeOK
  <2> QED BY <2>1, <2>2, FormStep
<1>7. CASE /\ lib' = DropOthers(t) /\ lastId' = t.lastId
           /\ home' = Homes(t, form)
           /\ clean' = (clean /\ lib' = lib)
           /\ SaveTo(a, line)
           /\ UNCHANGED <<gone, stained>>
  <2>0. t \in TableState /\ lastId <= lastId' /\ lastId \in Nat /\ lastId' \in 0 .. MaxIds /\ lastId' \in Nat
        /\ \A i \in Ids : i \in Nat
    BY <1>3, <1>7, LibraryAssumption DEF Reached, TableState, LibraryTypeOK, Ids
  <2>1. /\ lib' \in [Ids -> Lib \cup {NoLib}]
        /\ \A i \in Ids : lib'[i] = IF i \in t.kept THEN t.lib[i] ELSE NoLib
    BY <1>7, <2>0 DEF DropOthers, TableState
  <2>2. \A i \in t.kept : lib'[i] \in Lib /\ i \in Ids
    BY <1>3, <2>0, <2>1 DEF Reached, TableState
  <2>3. /\ home' \in [Ids -> SUBSET Roots]
        /\ \A i \in Ids : home[i] \subseteq home'[i]
        /\ \A i \in Ids \ t.kept : home'[i] = home[i]
        /\ \A i \in t.kept : t.lib[i].root \in home'[i]
    <3>1. \A i \in t.kept : t.lib[i].root \in Roots
      BY <2>1, <2>2 DEF Lib
    <3>2. \A i \in Ids : i \in t.kept => Present(i) \/ home[i] = {} \/ \E k \in DOMAIN form : form[k].id = i
      BY <1>3, <2>0 DEF Reached, Housed
    <3>3. home \in [Ids -> SUBSET Roots]
      BY DEF LibraryTypeOK
    <3>4. \A i \in Ids : home'[i] = IF i \notin t.kept THEN home[i]
            ELSE {t.lib[i].root} \cup IF Present(i) \/ \E k \in DOMAIN form : form[k].id = i THEN home[i] ELSE {}
      BY <1>7 DEF Homes
    <3>5. home' = [i \in Ids |-> home'[i]]
      BY <1>7 DEF Homes
    <3>6. \A i \in Ids : home'[i] \in SUBSET Roots
      <4> SUFFICES ASSUME NEW i \in Ids PROVE home'[i] \in SUBSET Roots
        OBVIOUS
      <4>1. home[i] \in SUBSET Roots
        BY <3>3
      <4>2. home'[i] \subseteq home[i] \/ (i \in t.kept /\ home'[i] \subseteq {t.lib[i].root} \cup home[i])
        BY <3>4
      <4> QED BY <3>1, <4>1, <4>2
    <3>7. home' \in [Ids -> SUBSET Roots]
      BY <3>5, <3>6
    <3> QED BY <2>2, <3>2, <3>4, <3>7
  <2>4. save' \in [Admins -> SaveState] /\ \A b \in Admins : save'[b].form \in Lines
    BY <1>5, <1>7, SaveForms DEF SaveTo, LibraryTypeOK
  <2>5. LibraryTypeOK'
    <3>1. clean' \in BOOLEAN
      BY <1>7 DEF LibraryTypeOK
    <3> QED BY <1>4, <1>7, <2>0, <2>1, <2>3, <2>4, <3>1 DEF LibraryTypeOK
  <2>6. Tagged'
    BY <1>4 DEF Tagged, Indexed
  <2>7. ASSUME NEW x \in Rows, Belongs(x) PROVE Belongs(x)'
    BY <2>0, <2>3, <2>7 DEF Belongs, Rows
  <2>8. Housed'
    <3>1. ASSUME NEW i \in Ids PROVE /\ i > lastId' => ~Present(i)' /\ home'[i] = {}
                                     /\ Present(i)' => lib'[i].root \in home'[i]
      <4>1. CASE i \in t.kept
        <5>1. i <= lastId'
          BY <1>3, <1>7, <4>1 DEF Reached
        <5>2. lib'[i].root \in home'[i]
          BY <2>1, <2>3, <4>1
        <5> QED BY <5>1, <5>2, <2>0
      <4>2. CASE i \notin t.kept
        BY <2>0, <2>1, <2>3, <4>2 DEF Present, Housed
      <4> QED BY <4>1, <4>2
    <3>2. ASSUME NEW b \in Admins, NEW k \in DOMAIN save'[b].form, save'[b].form[k].id \in Ids
          PROVE  save'[b].form[k].id <= lastId'
      <4>1. save'[b].form[k].id <= lastId
        BY <2>4, <3>2 DEF Lines
      <4>2. save'[b].form[k].id \in Nat
        BY <2>0, <3>2
      <4> QED BY <4>1, <4>2, <2>0
    <3>3. \A x \in Rows : Indexed(x)' => Belongs(x)'
      BY <1>4, <2>7 DEF Housed, Indexed
    <3>4. (\A j \in scan.jobs : j.row \in Rows) /\ \A r \in scan.read : r.job.row \in Rows
      BY DEF LibraryTypeOK, ScanState, Job
    <3>5. (\A j \in scan'.jobs : Belongs(j.row)') /\ \A r \in scan'.read : Belongs(r.job.row)'
      BY <1>4, <2>7, <3>4 DEF Housed
    <3> QED BY <3>1, <3>2, <3>3, <3>5 DEF Housed
  <2>9. Walks'
    <3>0. scan.id \in Ids \cup {None} /\ scan.done \subseteq Ids /\ None \notin Ids
      BY LibraryAssumption DEF LibraryTypeOK, ScanState, Ids
    <3>1. scan.id # None => scan.id <= lastId' /\ home[scan.id] \subseteq home'[scan.id]
      BY <2>0, <2>3, <3>0 DEF Walks
    <3>2. \A i \in scan.done : i <= lastId' /\ home[i] \subseteq home'[i]
      BY <2>0, <2>3, <3>0 DEF Walks
    <3> QED BY <1>4, <1>7, <3>1, <3>2 DEF Walks
  <2>10. Regular'
    BY <1>4, <1>7 DEF Regular, Indexed
  <2>11. Undisturbed'
    <3> SUFFICES ASSUME clean', scan'.at = "walk" PROVE Undisturbed'
      BY DEF Undisturbed
    <3>1. clean /\ UNCHANGED <<lib, flag, track, there, ver, scan, stained>>
      BY <1>4, <1>7
    <3> QED BY <3>1 DEF Undisturbed, Present, Current, Pending, Indexed
  <2> QED BY <2>5, <2>6, <2>8, <2>9, <2>10, <2>11
<1> QED BY <1>1, <1>6, <1>7 DEF t, line

\* The setting changes, and with it every stamp, unless another save came in between.
LEMMA SettingStep == ASSUME LibraryInv, NEW a \in Admins, Setting(a) PROVE LibraryInv'
<1> USE DEF LibraryInv
<1>0. PICK next \in {"roots", "idle"} :
        SaveTo(a, IF next = "idle" THEN NoSave ELSE [NoSave EXCEPT !.at = next])
  BY DEF Setting
<1> DEFINE line == IF next = "idle" THEN NoSave ELSE [NoSave EXCEPT !.at = next]
<1>1. line \in SaveState /\ line.form \in Lines
  BY SaveForms DEF NoSave, SaveState
<1> HIDE DEF line
<1>2. save' \in [Admins -> SaveState] /\ \A b \in Admins : save'[b].form \in Lines
  BY <1>0, <1>1, SaveForms DEF SaveTo, LibraryTypeOK, line
<1>3. UNCHANGED <<lib, lastId, queued, there, ver, scan, gone, home, saves, events>>
  BY DEF Setting, config, disk, counts
<1>4. save[a] \in SaveState
  BY DEF LibraryTypeOK
<1>5. flag' = save[a].flag /\ flag' \in BOOLEAN /\ clean' \in BOOLEAN /\ stained' \in BOOLEAN
  <2>1. flag' = save[a].flag /\ flag' \in BOOLEAN
    BY <1>4 DEF Setting, SaveState
  <2>2. stained' = (stained \/ save[a].before # flag \/ (flag' # flag /\ Scanning /\ scan.at # "load"))
        /\ clean' = (clean /\ flag' = flag)
    BY DEF Setting
  <2>3. stained' \in BOOLEAN
    BY <2>2, Zenon
  <2>4. clean' \in BOOLEAN
    BY <2>2, Zenon
  <2> QED BY <2>1, <2>3, <2>4
\* Every row is as it was, or as it was without its stamp.
<1>6. /\ track' \in [Rows -> Row \cup {NoRow}]
      /\ \A x \in Rows : /\ track'[x].tags = track[x].tags /\ track'[x].grouped = track[x].grouped
                         /\ Indexed(x)' <=> Indexed(x)
                         /\ track'[x].stamp \in {0, track[x].stamp}
      /\ save[a].before # save[a].flag => \A x \in Rows : track'[x].stamp = 0
      /\ save[a].before = save[a].flag => track' = track
  <2>1. track \in [Rows -> Row \cup {NoRow}]
    BY DEF LibraryTypeOK
  <2>2. CASE save[a].before = save[a].flag
    <3>1. track' = track
      BY <2>2 DEF Setting
    <3> QED BY <2>1, <2>2, <3>1 DEF Indexed
  <2>3. CASE save[a].before # save[a].flag
    <3>1. track' = [x \in Rows |-> Reset(x)]
      BY <2>3 DEF Setting
    <3>2. ASSUME NEW x \in Rows
          PROVE  /\ Reset(x) \in Row \cup {NoRow} /\ Reset(x).tags = track[x].tags
                 /\ Reset(x).grouped = track[x].grouped /\ Reset(x).stamp = 0
                 /\ Reset(x) # NoRow <=> Indexed(x)
      <4>1. CASE Indexed(x)
        <5>1. track[x] \in Row
          BY <2>1, <4>1 DEF Indexed
        <5>2. Reset(x) = [track[x] EXCEPT !.stamp = 0]
          BY <4>1 DEF Reset
        <5>3. Reset(x) \in Row /\ Reset(x).tags = track[x].tags
              /\ Reset(x).grouped = track[x].grouped /\ Reset(x).stamp = 0
          BY <5>1, <5>2 DEF Row
        <5>4. Reset(x).tags # 0
          BY <5>1, <5>3 DEF Row
        <5> QED BY <4>1, <5>3, <5>4 DEF NoRow
      <4>2. CASE ~Indexed(x)
        BY <4>2 DEF Reset, Indexed, NoRow
      <4> QED BY <4>1, <4>2
    <3> QED BY <2>3, <3>1, <3>2 DEF Indexed
  <2> QED BY <2>2, <2>3
<1>7. LibraryTypeOK'
  BY <1>2, <1>3, <1>5, <1>6 DEF LibraryTypeOK
<1>8. Tagged'
  <2>1. \A x \in Rows : track[x] \in Row \cup {NoRow}
    BY DEF LibraryTypeOK
  <2>2. ASSUME NEW x \in Rows, Indexed(x)'
        PROVE  track'[x].stamp <= track'[x].tags /\ track'[x].tags <= ver'[x[2]]
    BY <1>3, <1>6, <2>1, <2>2 DEF Tagged, Indexed, Row
  <2> QED BY <1>3, <2>2 DEF Tagged
<1>9. Housed'
  <2>1. \A b \in Admins : \A k \in DOMAIN save'[b].form :
          save'[b].form[k].id \in Ids => save'[b].form[k].id <= lastId
    BY <1>2 DEF Lines
  <2> QED BY <2>1, <1>3, <1>6 DEF Housed, Present, Belongs
<1>10. Walks'
  BY <1>3 DEF Walks
<1>11. Regular'
  <2> SUFFICES ASSUME ~stained' PROVE Regular'
    BY DEF Regular
  <2>1. ~stained /\ save[a].before = flag /\ (flag' = flag \/ ~(Scanning /\ scan.at # "load"))
    BY DEF Setting
  <2>2. ASSUME NEW x \in Rows, Indexed(x)', track'[x].stamp # 0 PROVE track'[x].grouped = flag'
    BY <1>5, <1>6, <2>1, <2>2 DEF Regular
  <2>3. scan'.at = "walk" => scan'.flag = flag'
    BY <1>3, <2>1 DEF Regular, Scanning
  <2> QED BY <2>2, <2>3 DEF Regular
<1>12. Undisturbed'
  <2> SUFFICES ASSUME clean', scan'.at = "walk" PROVE Undisturbed'
    BY DEF Undisturbed
  <2>1. clean /\ flag' = flag /\ (~stained' => ~stained)
    BY DEF Setting
  <2>2. scan.seen \subseteq Rows
    BY DEF LibraryTypeOK, ScanState
  <2>3. \A x \in Rows : Current(x) => Current(x)'
    BY <1>3, <1>6, <2>1 DEF Current, Rows
  <2>4. \A x \in Rows : Pending(x)' <=> Pending(x)
    BY <1>3 DEF Pending
  <2> QED BY <1>3, <2>1, <2>2, <2>3, <2>4 DEF Undisturbed, Present
<1> QED BY <1>7, <1>8, <1>9, <1>10, <1>11, <1>12

\* A scan is launched, or the program starts anew.
LEMMA LaunchedStep ==
  ASSUME LibraryInv, NEW roots \in SUBSET Roots, Launched(roots),
         UNCHANGED <<config, flag, index, disk, home, stained>>,
         save' \in [Admins -> SaveState], \A b \in Admins : save'[b].form \in Lines,
         saves' \in Nat, events' \in Nat
  PROVE  LibraryInv'
<1> USE DEF LibraryInv, config, index, disk
<1>1. scan' = [at |-> "load", flag |-> FALSE, roots |-> roots, id |-> None, left |-> {},
               bad |-> FALSE, seen |-> {}, jobs |-> {}, read |-> {}, done |-> {}]
      /\ gone' = Files \ there /\ clean' = TRUE
  BY DEF Launched, NoScan
<1>2. scan' \in ScanState
  <2> HIDE DEF LibraryInv
  <2> QED BY <1>1 DEF ScanState
<1>3. LibraryTypeOK'
  BY <1>1, <1>2 DEF LibraryTypeOK
<1>4. Tagged'
  BY <1>1 DEF Tagged, Indexed
<1>5. \A b \in Admins : \A k \in DOMAIN save'[b].form :
        save'[b].form[k].id \in Ids => save'[b].form[k].id <= lastId
  BY DEF Lines
<1>6. Housed'
  BY <1>1, <1>5 DEF Housed, Present, Indexed, Belongs
<1>7. Walks'
  BY <1>1 DEF Walks
<1>8. Regular'
  BY <1>1 DEF Regular, Indexed
<1>9. Undisturbed'
  BY <1>1 DEF Undisturbed
<1> QED BY <1>3, <1>4, <1>6, <1>7, <1>8, <1>9

LEMMA LaunchStep == ASSUME LibraryInv, NEW a \in Admins, Launch(a) PROVE LibraryInv'
<1>1. save' \in [Admins -> SaveState] /\ \A b \in Admins : save'[b].form \in Lines
  BY SaveForms DEF Launch, SaveTo, LibraryInv, LibraryTypeOK
<1>2. CASE Scanning
  <2>1. UNCHANGED <<config, flag, track, disk, scan, ghosts>> /\ queued' \in SUBSET Rows /\ saves' \in Nat /\ events' \in Nat
    BY <1>2 DEF Launch, index, counts, ghosts, LibraryInv, LibraryTypeOK
  <2> QED BY <1>1, <2>1, FormStep
<1>3. CASE ~Scanning
  <2>1. save[a].roots \in SUBSET Roots
    BY DEF LibraryInv, LibraryTypeOK, SaveState
  <2>2. saves' \in Nat /\ events' \in Nat
    BY DEF Launch, counts, LibraryInv, LibraryTypeOK
  <2> QED BY <1>1, <1>3, <2>1, <2>2, LaunchedStep DEF Launch
<1> QED BY <1>2, <1>3

LEMMA BootStep == ASSUME LibraryInv, Boot PROVE LibraryInv'
<1> USE DEF LibraryInv
<1>1. save' \in [Admins -> SaveState] /\ \A b \in Admins : save'[b].form \in Lines
  BY SaveForms DEF Boot
<1>2. EnabledRoots \in SUBSET Roots
  BY DEF EnabledRoots, LibraryTypeOK, Lib, NoLib
<1>3. saves' \in Nat /\ events' \in Nat
  BY DEF Boot, Event, LibraryTypeOK
<1>4. UNCHANGED <<config, flag, index, disk, home, stained>>
  BY DEF Boot
<1>5. CASE EnabledRoots # {}
  BY <1>1, <1>2, <1>3, <1>4, <1>5, LaunchedStep DEF Boot
<1>6. CASE EnabledRoots = {}
  <2>1. scan' = NoScan /\ UNCHANGED <<gone, clean>>
    BY <1>6 DEF Boot
  <2>2. UNCHANGED <<lib, lastId, flag, track, queued, there, ver, home, stained>>
    BY <1>4 DEF config, index, disk
  <2>3. NoScan \in ScanState
    BY DEF NoScan, ScanState
  <2>4. LibraryTypeOK'
    BY <1>1, <1>3, <2>1, <2>2, <2>3 DEF LibraryTypeOK
  <2>5. Tagged'
    BY <2>1, <2>2 DEF Tagged, Indexed, NoScan
  <2>6. \A b \in Admins : \A k \in DOMAIN save'[b].form :
          save'[b].form[k].id \in Ids => save'[b].form[k].id <= lastId
    BY <1>1 DEF Lines
  <2>7. Housed'
    BY <2>1, <2>2, <2>6 DEF Housed, Present, Indexed, Belongs, NoScan
  <2>8. Walks'
    BY <2>1, <2>2 DEF Walks, NoScan
  <2>9. Regular'
    BY <2>1, <2>2 DEF Regular, Indexed, NoScan
  <2>10. Undisturbed'
    BY <2>1, <2>2 DEF Undisturbed, NoScan
  <2> QED BY <2>4, <2>5, <2>7, <2>8, <2>9, <2>10
<1> QED BY <1>5, <1>6

\* The types of the scan, and what it says of the rows it is about.
LEMMA ScanTypes ==
  ASSUME LibraryInv
  PROVE  /\ scan \in ScanState /\ None \notin Ids
         /\ scan.id \in Ids \cup {None} /\ scan.left \in SUBSET Files /\ scan.seen \in SUBSET Rows
         /\ scan.done \in SUBSET Ids /\ scan.roots \in SUBSET Roots
         /\ \A j \in scan.jobs : j \in Job /\ j.row \in Rows /\ j.stamp \in Nat \ {0}
         /\ \A r \in scan.read : r.job \in Job /\ r.job.row \in Rows /\ r.job.stamp \in Nat \ {0} /\ r.tags \in Nat \ {0}
         /\ \A x \in Rows : x[1] \in Ids /\ x[2] \in Files
         /\ \A f \in Files : ver[f] \in Nat \ {0}
         /\ \A x \in Rows : track[x] \in Row \cup {NoRow}
         /\ lastId \in Nat /\ \A i \in Ids : i \in Nat
BY LibraryAssumption DEF LibraryInv, LibraryTypeOK, ScanState, Job, Ids, Rows

LEMMA LoadStep == ASSUME LibraryInv, Load PROVE LibraryInv'
<1> USE DEF LibraryInv
<1>1. scan.at = "load" /\ scan' = [scan EXCEPT !.at = "walk", !.flag = flag]
  BY DEF Load
<1>2. UNCHANGED <<lib, lastId, flag, track, queued, there, ver, save, gone, clean, home, stained, saves, events>>
  BY DEF Load, config, index, disk, ghosts, counts
<1>3. /\ scan' \in ScanState /\ scan'.at = "walk" /\ scan'.flag = flag
      /\ scan'.id = scan.id /\ scan'.left = scan.left /\ scan'.bad = scan.bad /\ scan'.seen = scan.seen
      /\ scan'.jobs = scan.jobs /\ scan'.read = scan.read /\ scan'.done = scan.done
  BY <1>1, ScanTypes DEF ScanState, LibraryTypeOK
<1>4. scan.id = None /\ scan.seen = {} /\ scan.jobs = {} /\ scan.read = {} /\ scan.done = {}
  BY <1>1 DEF Walks
<1>5. LibraryTypeOK'
  BY <1>2, <1>3 DEF LibraryTypeOK
<1>6. Tagged'
  BY <1>2, <1>3 DEF Tagged, Indexed
<1>7. Housed'
  BY <1>2, <1>3 DEF Housed, Present, Indexed, Belongs
<1>8. Walks'
  BY <1>1, <1>2, <1>3, <1>4 DEF Walks
<1>9. Regular'
  BY <1>2, <1>3 DEF Regular, Indexed
<1>10. Undisturbed'
  BY <1>2, <1>3, <1>4 DEF Undisturbed
<1> QED BY <1>5, <1>6, <1>7, <1>8, <1>9, <1>10

\* A step that changes nothing but the scan, whose rows stay where they belong.
LEMMA ScanStep ==
  ASSUME LibraryInv, UNCHANGED <<config, flag, track, disk, save, home, stained>>,
         queued' = queued, saves' \in Nat, events' \in Nat, gone' = gone, clean' \in BOOLEAN,
         scan' \in ScanState, scan'.at = "walk", scan.at = "walk", scan'.flag = scan.flag,
         \A j \in scan'.jobs : j.stamp <= ver[j.row[2]] /\ Belongs(j.row),
         \A r \in scan'.read : r.job.stamp <= r.tags /\ r.tags <= ver[r.job.row[2]] /\ Belongs(r.job.row)
  PROVE  LibraryTypeOK' /\ Tagged' /\ Housed' /\ Regular'
<1> USE DEF LibraryInv, config, disk
<1>1. LibraryTypeOK'
  BY DEF LibraryTypeOK
<1>2. Tagged'
  BY DEF Tagged, Indexed
<1>3. Housed'
  BY DEF Housed, Present, Indexed, Belongs
<1>4. Regular'
  BY DEF Regular, Indexed
<1> QED BY <1>1, <1>2, <1>3, <1>4

\* A file that is skipped has a current row: its stamp is the file's, so its tags are.
LEMMA VisitStep == ASSUME LibraryInv, NEW f \in Files, Visit(f) PROVE LibraryInv'
<1> USE DEF LibraryInv
<1>0. scan.at = "walk" /\ scan.id # None /\ f \in scan.left
  BY DEF Visit
<1>10. scan.id \in Ids /\ <<scan.id, f>> \in Rows
  BY <1>0, ScanTypes DEF Rows
<1>11. PICK x \in Rows : x = <<scan.id, f>>
  BY <1>10
<1>3. x[1] = scan.id /\ x[2] = f
  BY <1>11
<1>12. [row |-> x, stamp |-> ver[f]] \in Job
  BY ScanTypes DEF Job
<1>13. PICK j \in Job : j = [row |-> x, stamp |-> ver[f]]
  BY <1>12
<1>4. j.row = x /\ j.stamp = ver[f] /\ ver[f] \in Nat \ {0}
  BY <1>13, ScanTypes
<1> DEFINE skipped == Indexed(x) /\ track[x].stamp = ver[f] /\ ~scan.flag
<1>1. scan' = IF f \notin there THEN [scan EXCEPT !.left = @ \ {f}]
              ELSE [scan EXCEPT !.left = @ \ {f}, !.seen = @ \cup {x},
                      !.jobs = IF skipped THEN @ ELSE @ \cup {j}]
  BY <1>11, <1>13 DEF Visit
<1>2. UNCHANGED <<config, flag, track, disk, save, home, stained>> /\ queued' = queued /\ saves' = saves
      /\ events' = events /\ gone' = gone /\ clean' = clean
  BY DEF Visit, index, ghosts, counts
<1>5. Belongs(x)
  <2>1. PICK r \in home[scan.id] : scan.left \subseteq Under[r]
    BY <1>0 DEF Walks
  <2> QED BY <1>0, <1>3, <2>1 DEF Belongs, Walks
<1> HIDE DEF skipped
<1>6. /\ scan' \in ScanState /\ scan'.at = "walk" /\ scan'.flag = scan.flag /\ scan'.id = scan.id
      /\ scan'.bad = scan.bad /\ scan'.left = scan.left \ {f} /\ scan'.read = scan.read /\ scan'.done = scan.done
      /\ scan'.seen = IF f \in there THEN scan.seen \cup {x} ELSE scan.seen
      /\ scan'.jobs = IF f \in there /\ ~skipped THEN scan.jobs \cup {j} ELSE scan.jobs
  <2> DEFINE left == scan.left \ {f}
             seen == scan.seen \cup {x}
             jobs == scan.jobs \cup {j}
  <2>1. scan \in ScanState /\ left \in SUBSET Files /\ seen \in SUBSET Rows
    BY ScanTypes
  <2>2. jobs \in SUBSET Job
    BY <2>1 DEF ScanState
  <2>3. CASE f \notin there
    <3>1. scan' = [scan EXCEPT !.left = left]
      BY <1>1, <2>3
    <3> HIDE DEF LibraryInv, left
    <3>2. scan' \in ScanState /\ scan' = [scan EXCEPT !.left = left]
      BY <2>1, <3>1 DEF ScanState
    <3> QED BY <1>0, <2>1, <2>3, <3>2 DEF ScanState, left
  <2>4. CASE f \in there /\ skipped
    <3>1. scan' = [scan EXCEPT !.left = left, !.seen = seen]
      BY <1>1, <2>4, <2>1 DEF ScanState
    <3> HIDE DEF LibraryInv, left, seen
    <3>2. /\ scan' \in ScanState /\ scan'.at = scan.at /\ scan'.flag = scan.flag /\ scan'.id = scan.id
          /\ scan'.bad = scan.bad /\ scan'.left = left /\ scan'.read = scan.read /\ scan'.done = scan.done
          /\ scan'.seen = seen /\ scan'.jobs = scan.jobs
      BY <2>1, <3>1 DEF ScanState
    <3> QED BY <1>0, <2>4, <3>2 DEF left, seen
  <2>5. CASE f \in there /\ ~skipped
    <3>1. scan' = [scan EXCEPT !.left = left, !.seen = seen, !.jobs = jobs]
      BY <1>1, <2>5
    <3> HIDE DEF LibraryInv, left, seen, jobs
    <3>2. /\ scan' \in ScanState /\ scan'.at = scan.at /\ scan'.flag = scan.flag /\ scan'.id = scan.id
          /\ scan'.bad = scan.bad /\ scan'.left = left /\ scan'.read = scan.read /\ scan'.done = scan.done
          /\ scan'.seen = seen /\ scan'.jobs = jobs
      BY <2>1, <2>2, <3>1 DEF ScanState
    <3> QED BY <1>0, <2>5, <3>2 DEF left, seen, jobs
  <2> QED BY <2>3, <2>4, <2>5
<1>7. LibraryTypeOK' /\ Tagged' /\ Housed' /\ Regular'
  <2>1. \A k \in scan'.jobs : k.stamp <= ver[k.row[2]] /\ Belongs(k.row)
    BY <1>3, <1>4, <1>5, <1>6 DEF Tagged, Housed
  <2>2. \A r \in scan'.read : r.job.stamp <= r.tags /\ r.tags <= ver[r.job.row[2]] /\ Belongs(r.job.row)
    BY <1>6 DEF Tagged, Housed
  <2>3. saves' \in Nat /\ events' \in Nat /\ clean' \in BOOLEAN
    BY <1>2 DEF LibraryTypeOK
  <2> QED BY <1>0, <1>2, <1>6, <2>1, <2>2, <2>3, ScanStep
<1>8. Walks'
  <2>1. UNCHANGED <<lastId, there, gone, home>>
    BY <1>2 DEF config, disk
  <2>2. PICK r \in home[scan.id] :
          /\ scan.left \subseteq Under[r]
          /\ \A g \in Under[r] : g \in scan.left \cup gone \/ <<scan.id, g>> \in scan.seen \/ scan.bad
    BY <1>0 DEF Walks
  <2>3. f \in there \/ f \in gone
    BY <1>0 DEF Walks
  <2>4. \A g \in Under[r] : g \in scan'.left \cup gone \/ <<scan.id, g>> \in scan'.seen \/ scan.bad
    BY <1>6, <2>2, <2>3, <1>11
  <2>5. scan'.left \subseteq Under[r]
    BY <1>6, <2>2
  <2>6. \A i \in scan.done : i <= lastId /\ \E q \in home[i] : \A g \in Under[q] : g \in gone \/ <<i, g>> \in scan'.seen
    BY <1>6 DEF Walks
  <2>7. \E q \in home[scan.id] : /\ scan'.left \subseteq Under[q]
             /\ \A g \in Under[q] : g \in scan'.left \cup gone \/ <<scan.id, g>> \in scan'.seen \/ scan.bad
    BY <2>4, <2>5
  <2> QED BY <1>0, <1>6, <2>1, <2>6, <2>7 DEF Walks
<1>9. Undisturbed'
  <2> SUFFICES ASSUME clean' PROVE Undisturbed'
    BY DEF Undisturbed
  <2>1. UNCHANGED <<lib, flag, track, there, ver, stained>> /\ clean
    BY <1>2 DEF config, disk
  <2>2. \A y \in Rows : Current(y) => Current(y)'
    BY <2>1 DEF Current, Indexed
  <2>3. \A y \in Rows : Pending(y) => Pending(y)'
    BY <1>6 DEF Pending
  <2>4. Present(scan.id) /\ ~scan.bad /\ scan.left \subseteq Under[lib[scan.id].root]
    BY <1>0, <2>1 DEF Undisturbed
  <2>5. f \in there => Pending(x)' \/ Current(x)'
    <3>1. CASE f \in there /\ ~skipped
      BY <1>4, <1>6, <3>1 DEF Pending
    <3>2. CASE f \in there /\ skipped
      <4>1. Indexed(x) /\ track[x].stamp = ver[f] /\ ~scan.flag
        BY <3>2 DEF skipped
      <4>2. track[x].tags = ver[x[2]]
        <5>1. track[x] \in Row
          BY <1>3, <4>1, ScanTypes DEF Indexed
        <5>2. track[x].stamp <= track[x].tags /\ track[x].tags <= ver[f]
          BY <1>3, <4>1 DEF Tagged
        <5> QED BY <1>3, <1>4, <4>1, <5>1, <5>2 DEF Row
      <4>3. ~stained => track[x].grouped = flag
        BY <1>3, <1>4, <4>1 DEF Regular
      <4> QED BY <1>3, <2>2, <4>1, <4>2, <4>3 DEF Current
    <3> QED BY <3>1, <3>2
  <2>6. ASSUME NEW y \in scan'.seen
        PROVE  Present(y[1])' /\ y[2] \in there' \cap Under[lib'[y[1]].root] /\ (Pending(y)' \/ Current(y)')
    <3>1. CASE y \in scan.seen
      BY <1>0, <2>1, <2>2, <2>3, <3>1, ScanTypes DEF Undisturbed, Present
    <3>2. CASE y \notin scan.seen
      <4>1. y = x /\ f \in there
        BY <1>6, <3>2
      <4> QED BY <1>0, <1>3, <2>1, <2>4, <2>5, <4>1 DEF Present
    <3> QED BY <3>1, <3>2
  <2>7. \A k \in scan'.jobs : k.row \in scan'.seen
    BY <1>0, <1>4, <1>6, <2>1 DEF Undisturbed
  <2>8. \A r \in scan'.read : r.job.row \in scan'.seen /\ r.tags = ver'[r.job.row[2]]
    BY <1>0, <1>6, <2>1 DEF Undisturbed
  <2>9. \A g \in there \cap Under[lib[scan.id].root] : g \in scan'.left \/ <<scan.id, g>> \in scan'.seen
    BY <1>0, <1>6, <2>1, <1>11 DEF Undisturbed
  <2>10. \A i \in scan.done :
           Present(i) /\ \A g \in there \cap Under[lib[i].root] : <<i, g>> \in scan'.seen
    BY <1>0, <1>6, <2>1 DEF Undisturbed
  <2>11. scan'.flag = flag'
    BY <1>0, <1>6, <2>1 DEF Undisturbed
  <2> QED BY <1>6, <2>1, <2>4, <2>6, <2>7, <2>8, <2>9, <2>10, <2>11 DEF Undisturbed, Present
<1> QED BY <1>7, <1>8, <1>9

LEMMA UnreadableStep == ASSUME LibraryInv, NEW f \in Files, Unreadable(f) PROVE LibraryInv'
<1> USE DEF LibraryInv
<1>1. scan.at = "walk" /\ scan.id # None /\ f \in scan.left /\ clean' = FALSE
      /\ \/ scan' = [scan EXCEPT !.left = @ \ {f}, !.bad = TRUE, !.seen = @ \cup {<<scan.id, f>>}]
         \/ scan' = [scan EXCEPT !.left = {}, !.bad = TRUE]
  BY DEF Unreadable, Disturbed
<1>2. UNCHANGED <<config, flag, track, disk, save, home, stained>> /\ queued' = queued /\ saves' = saves
      /\ events' = events + 1 /\ gone' = gone
  BY DEF Unreadable, Event, index, counts
<1>3. <<scan.id, f>> \in Rows
  BY <1>1, ScanTypes DEF Rows
<1>4. /\ scan' \in ScanState /\ scan'.at = "walk" /\ scan'.flag = scan.flag /\ scan'.id = scan.id
      /\ scan'.bad = TRUE /\ scan'.left \subseteq scan.left /\ scan'.read = scan.read /\ scan'.done = scan.done
      /\ scan.seen \subseteq scan'.seen /\ scan'.jobs = scan.jobs
  <2> DEFINE left == scan.left \ {f}
             seen == scan.seen \cup {<<scan.id, f>>}
  <2>1. scan \in ScanState /\ left \in SUBSET Files /\ seen \in SUBSET Rows
        /\ left \subseteq scan.left /\ scan.seen \subseteq seen
    BY <1>3, ScanTypes
  <2>2. CASE scan' = [scan EXCEPT !.left = left, !.bad = TRUE, !.seen = seen]
    <3> HIDE DEF LibraryInv, left, seen
    <3> QED BY <1>1, <2>1, <2>2 DEF ScanState
  <2>3. CASE scan' = [scan EXCEPT !.left = {}, !.bad = TRUE]
    <3> HIDE DEF LibraryInv
    <3> QED BY <1>1, <2>1, <2>3 DEF ScanState
  <2> QED BY <1>1, <2>2, <2>3
<1>5. LibraryTypeOK' /\ Tagged' /\ Housed' /\ Regular'
  <2>1. \A k \in scan'.jobs : k.stamp <= ver[k.row[2]] /\ Belongs(k.row)
    BY <1>4 DEF Tagged, Housed
  <2>2. \A r \in scan'.read : r.job.stamp <= r.tags /\ r.tags <= ver[r.job.row[2]] /\ Belongs(r.job.row)
    BY <1>4 DEF Tagged, Housed
  <2>3. saves' \in Nat /\ events' \in Nat
    BY <1>2 DEF LibraryTypeOK
  <2>4. clean' \in BOOLEAN
    BY <1>1
  <2> QED BY <1>1, <1>2, <1>4, <2>1, <2>2, <2>3, <2>4, ScanStep
<1>6. Walks'
  <2>1. UNCHANGED <<lastId, there, gone, home>>
    BY <1>2 DEF config, disk
  <2> QED BY <1>1, <1>4, <2>1 DEF Walks
<1>7. Undisturbed'
  BY <1>1 DEF Undisturbed
<1> QED BY <1>5, <1>6, <1>7

LEMMA WalkedStep == ASSUME LibraryInv, Walked PROVE LibraryInv'
<1> USE DEF LibraryInv
<1>1. scan.at = "walk" /\ scan.id # None /\ scan.left = {}
      /\ scan' = [scan EXCEPT !.id = None, !.done = IF scan.bad THEN @ ELSE @ \cup {scan.id}]
  BY DEF Walked
<1>2. UNCHANGED <<config, flag, track, disk, save, home, stained>> /\ queued' = queued /\ saves' = saves
      /\ events' = events /\ gone' = gone /\ clean' = clean
  BY DEF Walked, index, ghosts, counts
<1>3. /\ scan' \in ScanState /\ scan'.at = "walk" /\ scan'.flag = scan.flag /\ scan'.id = None
      /\ scan'.read = scan.read /\ scan'.done = IF scan.bad THEN scan.done ELSE scan.done \cup {scan.id}
      /\ scan'.seen = scan.seen /\ scan'.jobs = scan.jobs
  <2>1. scan \in ScanState /\ scan.id \in Ids
    BY <1>1, ScanTypes
  <2>2. CASE scan.bad
    <3>1. scan' = [scan EXCEPT !.id = None, !.done = @]
      BY <1>1, <2>2
    <3> QED BY <1>1, <2>1, <2>2, <3>1 DEF ScanState
  <2>3. CASE ~scan.bad
    <3> DEFINE done == scan.done \cup {scan.id}
    <3>1. scan' = [scan EXCEPT !.id = None, !.done = done]
      BY <1>1, <2>3
    <3>2. done \in SUBSET Ids
      BY <2>1, ScanTypes
    <3> HIDE DEF LibraryInv, done
    <3>3. /\ scan' \in ScanState /\ scan'.at = scan.at /\ scan'.flag = scan.flag /\ scan'.id = None
          /\ scan'.read = scan.read /\ scan'.done = done /\ scan'.seen = scan.seen /\ scan'.jobs = scan.jobs
      BY <2>1, <3>1, <3>2 DEF ScanState
    <3> QED BY <1>1, <2>3, <3>3 DEF done
  <2> QED BY <2>2, <2>3
<1>4. LibraryTypeOK' /\ Tagged' /\ Housed' /\ Regular'
  <2>1. \A k \in scan'.jobs : k.stamp <= ver[k.row[2]] /\ Belongs(k.row)
    BY <1>3 DEF Tagged, Housed
  <2>2. \A r \in scan'.read : r.job.stamp <= r.tags /\ r.tags <= ver[r.job.row[2]] /\ Belongs(r.job.row)
    BY <1>3 DEF Tagged, Housed
  <2>3. saves' \in Nat /\ events' \in Nat /\ clean' \in BOOLEAN
    BY <1>2 DEF LibraryTypeOK
  <2> QED BY <1>1, <1>2, <1>3, <2>1, <2>2, <2>3, ScanStep
<1>5. Walks'
  <2>1. UNCHANGED <<lastId, there, gone, home>>
    BY <1>2 DEF config, disk
  <2>2. ~scan.bad => scan.id <= lastId /\ \E r \in home[scan.id] : \A f \in Under[r] : f \in gone \/ <<scan.id, f>> \in scan.seen
    BY <1>1 DEF Walks
  <2>3. \A i \in scan'.done : i <= lastId /\ \E r \in home[i] : \A f \in Under[r] : f \in gone \/ <<i, f>> \in scan.seen
    BY <1>3, <2>2 DEF Walks
  <2> QED BY <1>1, <1>3, <2>1, <2>3 DEF Walks
<1>6. Undisturbed'
  <2> SUFFICES ASSUME clean' PROVE Undisturbed'
    BY DEF Undisturbed
  <2>1. UNCHANGED <<lib, flag, track, there, ver, stained>> /\ clean
    BY <1>2 DEF config, disk
  <2>2. \A y \in Rows : (Current(y) => Current(y)') /\ (Pending(y) => Pending(y)')
    BY <1>3, <2>1 DEF Current, Indexed, Pending
  <2>3. \A i \in scan'.done : Present(i) /\ \A f \in there \cap Under[lib[i].root] : <<i, f>> \in scan.seen
    BY <1>1, <1>3, <2>1 DEF Undisturbed
  <2> QED BY <1>1, <1>3, <2>1, <2>2, <2>3, ScanTypes DEF Undisturbed, Present
<1> QED BY <1>4, <1>5, <1>6

\* A job becomes a result; an undisturbed scan drops none.
LEMMA ReadTagsStep == ASSUME LibraryInv, NEW j \in scan.jobs, ReadTags(j) PROVE LibraryInv'
<1> USE DEF LibraryInv
<1>0. j \in Job /\ j.row \in Rows /\ j.stamp \in Nat \ {0} /\ j.row[2] \in Files
  BY ScanTypes
<1>1. PICK f \in Files : f = j.row[2]
  BY <1>0
<1>2. [job |-> j, tags |-> ver[f]] \in [job : Job, tags : Nat \ {0}]
  BY <1>0, ScanTypes
<1>3. PICK r \in [job : Job, tags : Nat \ {0}] : r = [job |-> j, tags |-> ver[f]]
  BY <1>2
<1>4. r.job = j /\ r.tags = ver[f]
  BY <1>3
<1>5. scan.at = "walk" /\ UNCHANGED <<config, flag, track, disk, save, home, stained>> /\ queued' = queued
      /\ saves' = saves /\ gone' = gone
  BY DEF ReadTags, index
<1> DEFINE jobs == scan.jobs \ {j}
           read == scan.read \cup {r}
<1>6. \/ f \in there /\ scan' = [scan EXCEPT !.jobs = jobs, !.read = read] /\ UNCHANGED <<clean, events>>
      \/ scan' = [scan EXCEPT !.jobs = jobs] /\ f \in there /\ events' = events + 1 /\ clean' = FALSE
      \/ scan' = [scan EXCEPT !.jobs = jobs] /\ f \notin there /\ UNCHANGED <<clean, events>>
  BY <1>1, <1>3 DEF ReadTags, Event, Disturbed
<1>7. scan \in ScanState /\ jobs \in SUBSET Job /\ read \in SUBSET [job : Job, tags : Nat \ {0}]
  BY ScanTypes DEF ScanState
<1> HIDE DEF jobs, read
<1>8. /\ scan' \in ScanState /\ scan'.at = scan.at /\ scan'.flag = scan.flag /\ scan'.id = scan.id
      /\ scan'.bad = scan.bad /\ scan'.left = scan.left /\ scan'.done = scan.done
      /\ scan'.seen = scan.seen /\ scan'.jobs = jobs
      /\ (scan'.read = read /\ f \in there) \/ (scan'.read = scan.read /\ (f \in there => clean' = FALSE))
  <2>1. CASE f \in there /\ scan' = [scan EXCEPT !.jobs = jobs, !.read = read]
    <3> HIDE DEF LibraryInv
    <3> QED BY <1>7, <2>1 DEF ScanState
  <2>2. CASE scan' = [scan EXCEPT !.jobs = jobs] /\ (f \in there => clean' = FALSE)
    <3> HIDE DEF LibraryInv
    <3> QED BY <1>7, <2>2 DEF ScanState
  <2> QED BY <1>6, <2>1, <2>2
<1>9. events' \in Nat /\ clean' \in BOOLEAN /\ (clean' => clean)
  <2>1. events \in Nat /\ clean \in BOOLEAN
    BY DEF LibraryTypeOK
  <2>2. events' \in Nat
    BY <1>6, <2>1
  <2>3. clean' = clean \/ clean' = FALSE
    BY <1>6
  <2>4. clean' \in BOOLEAN
    BY <2>1, <2>3
  <2>5. clean' => clean
    BY <2>3, Zenon
  <2> QED BY <2>2, <2>4, <2>5
<1>10. LibraryTypeOK' /\ Tagged' /\ Housed' /\ Regular'
  <2>1. \A k \in scan'.jobs : k.stamp <= ver[k.row[2]] /\ Belongs(k.row)
    BY <1>8 DEF Tagged, Housed, jobs
  <2>2. r.job.stamp <= r.tags /\ r.tags <= ver[r.job.row[2]] /\ Belongs(r.job.row)
    <3>1. j.stamp <= ver[f] /\ Belongs(j.row)
      BY <1>1 DEF Tagged, Housed
    <3>2. ver[f] \in Nat
      BY ScanTypes
    <3> QED BY <1>1, <1>4, <3>1, <3>2
  <2>3. \A q \in scan'.read : q.job.stamp <= q.tags /\ q.tags <= ver[q.job.row[2]] /\ Belongs(q.job.row)
    BY <1>8, <2>2 DEF Tagged, Housed, read
  <2>4. saves' \in Nat
    BY <1>5 DEF LibraryTypeOK
  <2> QED BY <1>5, <1>8, <1>9, <2>1, <2>3, <2>4, ScanStep
<1>11. Walks'
  <2>1. UNCHANGED <<lastId, there, gone, home>>
    BY <1>5 DEF config, disk
  <2> QED BY <1>5, <1>8, <2>1 DEF Walks
<1>12. Undisturbed'
  <2> SUFFICES ASSUME clean' PROVE Undisturbed'
    BY DEF Undisturbed
  <2>1. UNCHANGED <<lib, flag, track, there, ver, stained>> /\ clean
    BY <1>5, <1>9 DEF config, disk
  <2>2. j.row \in scan.seen /\ f \in there
    BY <1>0, <1>1, <1>5, <2>1 DEF Undisturbed
  <2>3. scan'.read = scan.read \cup {r}
    BY <1>8, <2>2 DEF read
  <2>4. \A y \in Rows : Current(y) => Current(y)'
    BY <2>1 DEF Current, Indexed
  <2>5. ASSUME NEW y \in Rows, Pending(y) PROVE Pending(y)'
    <3>1. CASE y = j.row
      BY <1>4, <2>3, <3>1 DEF Pending
    <3>2. CASE y # j.row
      BY <1>8, <2>3, <2>5, <3>2 DEF Pending, jobs
    <3> QED BY <3>1, <3>2
  <2>6. \A y \in scan.seen : /\ Present(y[1]) /\ y[2] \in there \cap Under[lib[y[1]].root]
                             /\ Pending(y)' \/ Current(y)'
    BY <1>5, <2>1, <2>4, <2>5, ScanTypes DEF Undisturbed
  <2>7. \A k \in scan'.jobs : k.row \in scan.seen
    BY <1>5, <1>8, <2>1 DEF Undisturbed, jobs
  <2>8. \A q \in scan'.read : q.job.row \in scan.seen /\ q.tags = ver[q.job.row[2]]
    BY <1>1, <1>4, <1>5, <2>1, <2>2, <2>3 DEF Undisturbed
  <2> QED BY <1>5, <1>8, <2>1, <2>6, <2>7, <2>8 DEF Undisturbed, Present
<1> QED BY <1>10, <1>11, <1>12

LEMMA UpsertStep == ASSUME LibraryInv, NEW r \in scan.read, Upsert(r) PROVE LibraryInv'
<1> USE DEF LibraryInv
<1>0. /\ r.job.row \in Rows /\ r.job.stamp \in Nat \ {0} /\ r.tags \in Nat \ {0}
      /\ r.job.stamp <= r.tags /\ r.tags <= ver[r.job.row[2]] /\ Belongs(r.job.row)
  BY ScanTypes DEF Tagged, Housed
<1>1. PICK x \in Rows : x = r.job.row
  BY <1>0
<1>2. scan.at = "walk" /\ scan.id = None /\ scan.roots = {} /\ scan.jobs = {}
  BY DEF Upsert, WalkOver
<1>3. UNCHANGED <<lib, lastId, flag, there, ver, save, home, stained, queued, saves, gone>>
  BY DEF Upsert, config, disk
<1> DEFINE read == scan.read \ {r}
<1>4. scan' = [scan EXCEPT !.read = read]
  BY DEF Upsert
<1>5. scan \in ScanState /\ read \in SUBSET [job : Job, tags : Nat \ {0}]
  BY ScanTypes DEF ScanState
<1> HIDE DEF read
<1>6. /\ scan' \in ScanState /\ scan'.at = scan.at /\ scan'.flag = scan.flag /\ scan'.id = scan.id
      /\ scan'.bad = scan.bad /\ scan'.left = scan.left /\ scan'.done = scan.done
      /\ scan'.seen = scan.seen /\ scan'.jobs = {} /\ scan'.read = read
  <2> HIDE DEF LibraryInv
  <2> QED BY <1>2, <1>4, <1>5 DEF ScanState
<1>7. PICK row \in Row : row = [stamp |-> r.job.stamp, tags |-> r.tags, grouped |-> scan.flag]
  <2>1. scan.flag \in BOOLEAN
    BY <1>5 DEF ScanState
  <2> QED BY <1>0, <2>1 DEF Row
<1>8. row.stamp = r.job.stamp /\ row.tags = r.tags /\ row.grouped = scan.flag /\ row # NoRow
  BY <1>0, <1>7 DEF NoRow
<1>9. \/ track' = [track EXCEPT ![x] = row] /\ UNCHANGED <<clean, events>>
      \/ track' = track /\ events' = events + 1 /\ clean' = FALSE
  BY <1>1, <1>7 DEF Upsert, Stored, Event, Disturbed
<1>10. /\ track' \in [Rows -> Row \cup {NoRow}]
       /\ \A y \in Rows : track'[y] = track[y] \/ (y = x /\ track'[y] = row)
       /\ clean' => track'[x] = row
       /\ events' \in Nat /\ clean' \in BOOLEAN /\ (clean' => clean)
  <2>1. track \in [Rows -> Row \cup {NoRow}] /\ events \in Nat /\ clean \in BOOLEAN
    BY DEF LibraryTypeOK
  <2>2. CASE track' = [track EXCEPT ![x] = row] /\ UNCHANGED <<clean, events>>
    BY <2>1, <2>2
  <2>3. CASE track' = track /\ events' = events + 1 /\ clean' = FALSE
    <3>1. events' \in Nat
      BY <2>1, <2>3
    <3>2. track' \in [Rows -> Row \cup {NoRow}] /\ \A y \in Rows : track'[y] = track[y]
      BY <2>1, <2>3
    <3>3. clean' \in BOOLEAN
      BY <2>3
    <3>4. ~clean'
      BY <2>3
    <3> QED BY <3>1, <3>2, <3>3, <3>4
  <2> QED BY <1>9, <2>2, <2>3
<1>11. LibraryTypeOK'
  BY <1>3, <1>6, <1>10 DEF LibraryTypeOK
<1>12. Tagged'
  BY <1>0, <1>1, <1>3, <1>6, <1>8, <1>10 DEF Tagged, Indexed, read
<1>13. Housed'
  <2>1. \A y \in Rows : Indexed(y)' => Belongs(y)
    BY <1>0, <1>1, <1>10 DEF Housed, Indexed
  <2> QED BY <1>3, <1>6, <2>1 DEF Housed, Present, Belongs, read
<1>14. Walks'
  BY <1>2, <1>3, <1>6 DEF Walks
<1>15. Regular'
  <2> SUFFICES ASSUME ~stained PROVE Regular'
    BY <1>3 DEF Regular
  <2>1. row.grouped = flag
    BY <1>2, <1>8 DEF Regular
  <2>2. \A y \in Rows : Indexed(y)' /\ track'[y].stamp # 0 => track'[y].grouped = flag
    BY <1>10, <2>1 DEF Regular, Indexed
  <2> QED BY <1>3, <1>6, <2>2 DEF Regular
<1>16. Undisturbed'
  <2> SUFFICES ASSUME clean' PROVE Undisturbed'
    BY DEF Undisturbed
  <2>1. clean
    BY <1>10
  <2>2. r.tags = ver[x[2]] /\ scan.flag = flag
    BY <1>1, <1>2, <2>1 DEF Undisturbed
  <2>3. Current(x)'
    BY <1>3, <1>8, <1>10, <2>2 DEF Current, Indexed
  <2>4. \A y \in Rows : y # x /\ Current(y) => Current(y)'
    BY <1>3, <1>10 DEF Current, Indexed
  <2>5. \A y \in Rows : y # x /\ Pending(y) => Pending(y)'
    BY <1>1, <1>2, <1>6 DEF Pending, read
  <2>6. \A y \in scan.seen : /\ Present(y[1]) /\ y[2] \in there \cap Under[lib[y[1]].root]
                             /\ Pending(y)' \/ Current(y)'
    BY <1>2, <2>1, <2>3, <2>4, <2>5, ScanTypes DEF Undisturbed
  <2>7. \A q \in scan'.read : q.job.row \in scan.seen /\ q.tags = ver[q.job.row[2]]
    BY <1>2, <1>6, <2>1 DEF Undisturbed, read
  <2> QED BY <1>2, <1>3, <1>6, <2>1, <2>2, <2>6, <2>7 DEF Undisturbed, Present
<1> QED BY <1>11, <1>12, <1>13, <1>14, <1>15, <1>16

\* What is pruned the scan has not seen.
LEMMA PruneStep == ASSUME LibraryInv, NEW i \in Ids, Prune(i) PROVE LibraryInv'
<1> USE DEF LibraryInv
<1> DEFINE drop == {x \in Rows : x[1] = i /\ Indexed(x) /\ x \notin scan.seen}
           done == scan.done \ {i}
<1>1. scan.at = "walk" /\ scan.jobs = {} /\ scan.read = {} /\ i \in scan.done
  BY DEF Prune, WalkOver
<1>2. UNCHANGED <<lib, lastId, flag, there, ver, save, home, stained, queued, saves, events, gone>>
  BY DEF Prune, config, disk, counts
<1>3. scan' = [scan EXCEPT !.done = done]
  BY DEF Prune
<1>4. scan \in ScanState /\ done \in SUBSET Ids
  BY ScanTypes
<1>5. \/ track' = [x \in Rows |-> IF x \in drop THEN NoRow ELSE track[x]] /\ clean' = clean
      \/ track' = track /\ clean' = FALSE
  BY DEF Prune, Disturbed
<1> HIDE DEF done
<1>6. /\ scan' \in ScanState /\ scan'.at = scan.at /\ scan'.flag = scan.flag /\ scan'.id = scan.id
      /\ scan'.bad = scan.bad /\ scan'.left = scan.left /\ scan'.done = done
      /\ scan'.seen = scan.seen /\ scan'.jobs = {} /\ scan'.read = {}
  <2> HIDE DEF LibraryInv
  <2> QED BY <1>1, <1>3, <1>4 DEF ScanState
<1>7. /\ track' \in [Rows -> Row \cup {NoRow}]
      /\ \A x \in Rows : track'[x] = track[x] \/ (track'[x] = NoRow /\ x \notin scan.seen)
  <2>1. track \in [Rows -> Row \cup {NoRow}]
    BY DEF LibraryTypeOK
  <2>2. CASE track' = [x \in Rows |-> IF x \in drop THEN NoRow ELSE track[x]]
    BY <2>1, <2>2
  <2>3. CASE track' = track
    BY <2>1, <2>3
  <2> QED BY <1>5, <2>2, <2>3
<1> HIDE DEF drop
<1>8. clean' \in BOOLEAN
  <2>1. clean \in BOOLEAN
    BY DEF LibraryTypeOK
  <2> QED BY <1>5, <2>1
<1>9. clean' => clean
  BY <1>5, Zenon
<1>10. LibraryTypeOK'
  BY <1>2, <1>6, <1>7, <1>8 DEF LibraryTypeOK
<1>11. Tagged'
  BY <1>2, <1>6, <1>7 DEF Tagged, Indexed
<1>12. Housed'
  BY <1>2, <1>6, <1>7 DEF Housed, Present, Belongs, Indexed
<1>13. Walks'
  BY <1>1, <1>2, <1>6 DEF Walks, done
<1>14. Regular'
  BY <1>2, <1>6, <1>7 DEF Regular, Indexed
<1>15. Undisturbed'
  <2> SUFFICES ASSUME clean' PROVE Undisturbed'
    BY DEF Undisturbed
  <2>1. clean
    BY <1>9
  <2>2. \A x \in scan.seen : Current(x) => Current(x)'
    BY <1>2, <1>7, ScanTypes DEF Current, Indexed
  <2>3. \A x \in scan.seen : /\ Present(x[1]) /\ x[2] \in there \cap Under[lib[x[1]].root]
                             /\ Pending(x)' \/ Current(x)'
    BY <1>1, <2>1, <2>2 DEF Undisturbed, Pending
  <2> QED BY <1>1, <1>2, <1>6, <2>1, <2>3 DEF Undisturbed, Present, done
<1> QED BY <1>10, <1>11, <1>12, <1>13, <1>14, <1>15

LEMMA ScanDoneStep == ASSUME LibraryInv, ScanDone PROVE LibraryInv'
<1> USE DEF LibraryInv
<1>1. scan' = NoScan
  BY DEF ScanDone
<1>2. UNCHANGED <<lib, lastId, flag, track, queued, there, ver, save, gone, clean, home, stained, saves, events>>
  BY DEF ScanDone, config, index, disk, ghosts, counts
<1>3. NoScan \in ScanState
  BY DEF NoScan, ScanState
<1>4. LibraryTypeOK'
  BY <1>1, <1>2, <1>3 DEF LibraryTypeOK
<1>5. Tagged'
  BY <1>1, <1>2 DEF Tagged, Indexed, NoScan
<1>6. Housed'
  BY <1>1, <1>2 DEF Housed, Present, Indexed, Belongs, NoScan
<1>7. Walks'
  BY <1>1, <1>2 DEF Walks, NoScan
<1>8. Regular'
  BY <1>1, <1>2 DEF Regular, Indexed, NoScan
<1>9. Undisturbed'
  BY <1>1 DEF Undisturbed, NoScan
<1> QED BY <1>4, <1>5, <1>6, <1>7, <1>8, <1>9

\* A file is written, disappears or comes back.
LEMMA ChangeStep ==
  ASSUME LibraryInv, NEW f \in Files, Rewrite(f) \/ Lose(f) \/ Restore(f)
  PROVE  LibraryInv'
<1> USE DEF LibraryInv
<1>1. UNCHANGED <<lib, lastId, flag, track, queued, scan, save, home, stained, saves>>
      /\ clean' = FALSE /\ events' = events + 1
  BY DEF Rewrite, Lose, Restore, Change, Event, Disturbed, config, index
<1>2. /\ there' \in SUBSET Files /\ gone' \in SUBSET Files /\ ver' \in [Files -> Nat \ {0}]
      /\ \A g \in Files : ver[g] <= ver'[g]
      /\ Files \ there \subseteq gone => Files \ there' \subseteq gone'
      /\ gone \subseteq gone'
  <2>1. there \in SUBSET Files /\ gone \in SUBSET Files /\ ver \in [Files -> Nat \ {0}]
    BY DEF LibraryTypeOK
  <2>2. CASE Rewrite(f)
    BY <2>1, <2>2 DEF Rewrite
  <2>3. CASE Lose(f)
    BY <2>1, <2>3 DEF Lose
  <2>4. CASE Restore(f)
    BY <2>1, <2>4 DEF Restore
  <2> QED BY <2>2, <2>3, <2>4
<1>3. LibraryTypeOK'
  <2>1. clean' \in BOOLEAN
    BY <1>1
  <2> QED BY <1>1, <1>2, <2>1 DEF LibraryTypeOK
<1>4. Tagged'
  <2>1. \A j \in scan.jobs : j.stamp <= ver'[j.row[2]]
    BY <1>2, ScanTypes DEF Tagged
  <2>2. \A r \in scan.read : r.job.stamp <= r.tags /\ r.tags <= ver'[r.job.row[2]]
    BY <1>2, ScanTypes DEF Tagged
  <2>3. ASSUME NEW x \in Rows, Indexed(x)
        PROVE  track[x].stamp <= track[x].tags /\ track[x].tags <= ver'[x[2]]
    <3>1. track[x] \in Row
      BY <2>3, ScanTypes DEF Indexed
    <3> QED BY <1>2, <2>3, <3>1, ScanTypes DEF Tagged, Row
  <2> QED BY <1>1, <2>1, <2>2, <2>3 DEF Tagged, Indexed
<1>5. Housed'
  BY <1>1 DEF Housed, Present, Indexed, Belongs
<1>6. Walks'
  BY <1>1, <1>2 DEF Walks
<1>7. Regular'
  BY <1>1 DEF Regular, Indexed
<1>8. Undisturbed'
  BY <1>1 DEF Undisturbed
<1> QED BY <1>3, <1>4, <1>5, <1>6, <1>7, <1>8

\* A folder is begun, with the library that has it or a new one.
LEMMA FolderStep == ASSUME LibraryInv, NEW r \in Roots, Folder(r) PROVE LibraryInv'
<1> USE DEF LibraryInv
<1> DEFINE new == Holder(Table, r) = {}
           t == IF new THEN Inserted(Table, [root |-> r, on |-> TRUE]) ELSE Table
           c == CHOOSE k \in Holder(t, r) : TRUE
<1>1. /\ scan.at = "walk" /\ scan.id = None /\ r \in scan.roots
      /\ t.ok /\ lib' = t.lib /\ lastId' = t.lastId
      /\ home' = IF new THEN [home EXCEPT ![c] = {r}] ELSE home
      /\ scan' = [scan EXCEPT !.roots = @ \ {r}, !.id = c, !.left = Under[r], !.bad = FALSE]
  BY DEF Folder
<1>2. UNCHANGED <<flag, track, queued, there, ver, save, gone, clean, stained, saves, events>>
  BY DEF Folder, index, disk, counts
<1>3. Table.lib = lib /\ Table.lastId = lastId /\ Table.kept = {} /\ Table.ok = TRUE
  BY DEF Table
<1>4. lib \in [Ids -> Lib \cup {NoLib}] /\ lastId \in 0 .. MaxIds /\ lastId \in Nat /\ MaxIds \in Nat
      /\ home \in [Ids -> SUBSET Roots]
  BY LibraryAssumption DEF LibraryTypeOK
\* What has become of the libraries: i is the one that is walked.
<1>5. \E i \in Ids :
        /\ c = i /\ i <= lastId' /\ lib'[i] \in Lib /\ lib'[i].root = r
        /\ lib' \in [Ids -> Lib \cup {NoLib}] /\ lastId' \in 0 .. MaxIds /\ lastId <= lastId'
        /\ home' \in [Ids -> SUBSET Roots] /\ r \in home'[i]
        /\ \A k \in Ids : k # i \/ k <= lastId => lib'[k] = lib[k] /\ home'[k] = home[k]
        /\ Present(i) \/ (~Present(i) /\ lastId < i /\ home'[i] = {r})
  <2>1. CASE ~new
    <3>1. t = Table /\ lib' = lib /\ lastId' = lastId /\ home' = home
      BY <1>1, <1>3, <2>1
    <3>2. c \in Holder(Table, r)
      BY <2>1, <3>1
    <3> HIDE DEF c, t, new
    <3>3. c \in Ids /\ lib[c].root = r
      BY <1>3, <3>2 DEF Holder
    <3>4. Present(c) /\ lib[c] \in Lib
      BY <1>4, <3>3, LibraryAssumption DEF Present, NoLib
    <3>5. c <= lastId /\ r \in home[c]
      BY <1>4, <3>3, <3>4, ScanTypes DEF Housed
    <3> QED BY <1>4, <3>1, <3>3, <3>4, <3>5
  <2>2. CASE new
    <3> DEFINE e == [root |-> r, on |-> TRUE]
               n == lastId + 1
    <3>1. t = Inserted(Table, e)
      BY <2>2
    <3>2. lastId # MaxIds
      <4> SUFFICES ASSUME lastId = MaxIds PROVE FALSE
        OBVIOUS
      <4>1. t = [Table EXCEPT !.ok = FALSE]
        BY <1>3, <3>1 DEF Inserted
      <4>2. t.ok = FALSE
        BY <4>1 DEF Table
      <4> HIDE DEF t, e, n, new
      <4> QED BY <1>1, <4>2
    <3>3. n \in Ids /\ n \in 0 .. MaxIds /\ n \in Nat /\ lastId < n
      BY <1>4, <3>2 DEF Ids
    <3>4. t.lib = [lib EXCEPT ![n] = [root |-> e.root, on |-> e.on]] /\ t.lastId = n
      BY <1>3, <3>1, <3>2 DEF Inserted, Write, Table
    <3>5. [root |-> e.root, on |-> e.on] \in Lib /\ [root |-> e.root, on |-> e.on].root = r
      BY DEF Lib
    <3> HIDE DEF n, e, t
    <3>6. lib' \in [Ids -> Lib \cup {NoLib}] /\ lib'[n] \in Lib /\ lib'[n].root = r
          /\ \A k \in Ids \ {n} : lib'[k] = lib[k]
      BY <1>1, <1>4, <3>3, <3>4, <3>5
    <3>7. ASSUME NEW k \in Ids, lib'[k].root = r PROVE k = n
      <4> SUFFICES ASSUME k # n PROVE FALSE
        OBVIOUS
      <4>1. lib[k].root = r
        BY <3>6, <3>7
      <4> QED BY <1>3, <2>2, <4>1 DEF Holder
    <3>8. Holder(t, r) = {n}
      BY <1>1, <3>3, <3>6, <3>7 DEF Holder
    <3>9. c = n
      BY <3>8
    <3> HIDE DEF c
    <3>10. home' = [home EXCEPT ![n] = {r}]
      BY <1>1, <2>2, <3>9
    <3>11. home' \in [Ids -> SUBSET Roots] /\ home'[n] = {r} /\ \A k \in Ids \ {n} : home'[k] = home[k]
      BY <1>4, <3>3, <3>10
    <3>12. ~Present(n)
      BY <3>3 DEF Housed
    <3>13. lastId' = n /\ lastId <= n
      BY <1>1, <1>4, <3>3, <3>4
    <3>14. \A k \in Ids : k # n \/ k <= lastId => lib'[k] = lib[k] /\ home'[k] = home[k]
      <4>1. ~(n <= lastId)
        BY <1>4, <3>3
      <4> QED BY <3>6, <3>11, <4>1
    <3>15. n <= lastId'
      BY <3>3, <3>13
    <3> QED BY <3>3, <3>6, <3>9, <3>11, <3>12, <3>13, <3>14, <3>15
  <2> QED BY <2>1, <2>2
<1>6. PICK i \in Ids :
        /\ c = i /\ i <= lastId' /\ lib'[i] \in Lib /\ lib'[i].root = r
        /\ lib' \in [Ids -> Lib \cup {NoLib}] /\ lastId' \in 0 .. MaxIds /\ lastId <= lastId'
        /\ home' \in [Ids -> SUBSET Roots] /\ r \in home'[i]
        /\ \A k \in Ids : k # i \/ k <= lastId => lib'[k] = lib[k] /\ home'[k] = home[k]
        /\ Present(i) \/ (~Present(i) /\ lastId < i /\ home'[i] = {r})
  BY <1>5
<1>7. lib'[i] # NoLib /\ lastId' \in Nat
  BY <1>4, <1>6, LibraryAssumption DEF Lib, NoLib
<1>8. scan' = [scan EXCEPT !.roots = @ \ {r}, !.id = i, !.left = Under[r], !.bad = FALSE]
  BY <1>1, <1>6
<1> HIDE DEF new, t, c
<1>9. /\ scan' \in ScanState /\ scan'.at = "walk" /\ scan'.flag = scan.flag /\ scan'.id = i
      /\ scan'.bad = FALSE /\ scan'.left = Under[r] /\ scan'.done = scan.done
      /\ scan'.seen = scan.seen /\ scan'.jobs = scan.jobs /\ scan'.read = scan.read
  <2> DEFINE roots == scan.roots \ {r}
  <2>1. scan \in ScanState /\ roots \in SUBSET Roots /\ Under[r] \in SUBSET Files
    BY ScanTypes, LibraryAssumption
  <2>2. scan' = [scan EXCEPT !.roots = roots, !.id = i, !.left = Under[r], !.bad = FALSE]
    BY <1>8
  <2> HIDE DEF LibraryInv, roots
  <2> QED BY <1>1, <2>1, <2>2 DEF ScanState
\* Libraries that exist stay as they are, and so does what belongs to one.
<1>10. \A k \in Ids : Present(k) => lib'[k] = lib[k] /\ home'[k] = home[k]
  <2>1. \A k \in Ids : Present(k) => k <= lastId
    BY <1>4, ScanTypes DEF Housed
  <2> QED BY <1>6, <2>1
<1>11. \A k \in Ids : k <= lastId => k <= lastId' /\ home'[k] = home[k]
  BY <1>4, <1>6, <1>7, ScanTypes
<1>12. \A x \in Rows : Belongs(x) => Belongs(x)'
  BY <1>11, ScanTypes DEF Belongs
<1>13. LibraryTypeOK'
  BY <1>2, <1>6, <1>9 DEF LibraryTypeOK
<1>14. Tagged'
  BY <1>2, <1>9 DEF Tagged, Indexed
<1>15. Housed'
  <2>1. ASSUME NEW k \in Ids
        PROVE  /\ k > lastId' => ~Present(k)' /\ home'[k] = {}
               /\ Present(k)' => lib'[k].root \in home'[k]
    <3>1. CASE k = i
      BY <1>6, <1>7, <3>1, ScanTypes DEF Present
    <3>2. CASE k # i
      <4>1. lib'[k] = lib[k] /\ home'[k] = home[k]
        BY <1>6, <3>2
      <4>2. k > lastId' => k > lastId
        BY <1>4, <1>6, <1>7, ScanTypes
      <4> QED BY <4>1, <4>2 DEF Housed, Present
    <3> QED BY <3>1, <3>2
  <2>2. ASSUME NEW b \in Admins, NEW k \in DOMAIN save'[b].form, save'[b].form[k].id \in Ids
        PROVE  save'[b].form[k].id <= lastId'
    <3>1. save[b].form[k].id <= lastId /\ save[b].form[k].id \in Ids
      BY <1>2, <2>2 DEF Housed
    <3> QED BY <1>2, <1>11, <3>1
  <2>3. \A x \in Rows : Indexed(x)' => Belongs(x)'
    BY <1>2, <1>12 DEF Housed, Indexed
  <2>4. \A j \in scan'.jobs : Belongs(j.row)'
    BY <1>9, <1>12, ScanTypes DEF Housed
  <2>5. \A q \in scan'.read : Belongs(q.job.row)'
    BY <1>9, <1>12, ScanTypes DEF Housed
  <2> QED BY <2>1, <2>2, <2>3, <2>4, <2>5 DEF Housed
<1>16. Walks'
  <2>1. \A k \in scan.done : k \in Ids /\ k <= lastId' /\ home'[k] = home[k]
    BY <1>11, ScanTypes DEF Walks
  <2>2. \A k \in scan'.done :
          k <= lastId' /\ \E q \in home'[k] : \A f \in Under[q] : f \in gone' \/ <<k, f>> \in scan'.seen
    BY <1>2, <1>9, <2>1 DEF Walks
  <2> QED BY <1>1, <1>2, <1>6, <1>9, <2>2 DEF Walks
<1>17. Regular'
  BY <1>1, <1>2, <1>9 DEF Regular, Indexed
<1>18. Undisturbed'
  <2> SUFFICES ASSUME clean' PROVE Undisturbed'
    BY DEF Undisturbed
  <2>1. clean
    BY <1>2
  <2>2. \A x \in Rows : (Current(x) => Current(x)') /\ (Pending(x) => Pending(x)')
    BY <1>2, <1>9 DEF Current, Indexed, Pending
  <2>3. \A x \in scan.seen : /\ Present(x[1])' /\ x[2] \in there \cap Under[lib'[x[1]].root]
                             /\ Pending(x)' \/ Current(x)'
    BY <1>1, <1>10, <2>1, <2>2, ScanTypes DEF Undisturbed, Present
  <2>4. \A k \in scan.done : Present(k)' /\ \A f \in there \cap Under[lib'[k].root] : <<k, f>> \in scan.seen
    BY <1>1, <1>10, <2>1, ScanTypes DEF Undisturbed, Present
  <2>5. Present(i)' /\ scan'.left \subseteq Under[lib'[i].root] /\ ~scan'.bad
        /\ \A f \in there \cap Under[lib'[i].root] : f \in scan'.left
    BY <1>6, <1>7, <1>9 DEF Present
  <2> QED BY <1>1, <1>2, <1>9, <2>1, <2>3, <2>4, <2>5 DEF Undisturbed
<1> QED BY <1>13, <1>14, <1>15, <1>16, <1>17, <1>18

-----------------------------------------------------------------------------
LEMMA StepLibrary == LibraryInv /\ [LibraryNext]_libraryVars => LibraryInv'
<1> SUFFICES ASSUME LibraryInv, [LibraryNext]_libraryVars PROVE LibraryInv'
  OBVIOUS
<1>1. ASSUME NEW a \in Admins,
             Open(a) \/ Submit(a) \/ Previous(a) \/ Setting(a) \/ Gather(a) \/ Launch(a)
      PROVE  LibraryInv'
  BY <1>1, OpenStep, SubmitStep, PreviousStep, SettingStep, GatherStep, LaunchStep
<1>2. CASE Boot \/ Load \/ Walked \/ ScanDone
  BY <1>2, BootStep, LoadStep, WalkedStep, ScanDoneStep
<1>3. ASSUME NEW r \in Roots, Folder(r) PROVE LibraryInv'
  BY <1>3, FolderStep
<1>4. ASSUME NEW f \in Files, Visit(f) \/ Unreadable(f) \/ Rewrite(f) \/ Lose(f) \/ Restore(f)
      PROVE  LibraryInv'
  BY <1>4, VisitStep, UnreadableStep, ChangeStep
<1>5. ASSUME NEW j \in scan.jobs, ReadTags(j) PROVE LibraryInv'
  BY <1>5, ReadTagsStep
<1>6. ASSUME NEW r \in scan.read, Upsert(r) PROVE LibraryInv'
  BY <1>6, UpsertStep
<1>7. ASSUME NEW i \in Ids, Prune(i) PROVE LibraryInv'
  BY <1>7, PruneStep
<1>8. ASSUME NEW x \in Rows, Enqueue(x) \/ Play(x) PROVE LibraryInv'
  BY <1>8, QueueStep
<1>9. CASE UNCHANGED libraryVars
  BY <1>9, LibraryStutter
<1> QED BY <1>1, <1>2, <1>3, <1>4, <1>5, <1>6, <1>7, <1>8, <1>9 DEF LibraryNext

LEMMA LibrarySafe == LibrarySpec => []LibraryInv
BY InitLibrary, StepLibrary, PTL DEF LibrarySpec

\* Every variable keeps its type, for any number of libraries, files and administrators.
THEOREM LibraryTyped == LibrarySpec => []LibraryTypeOK
<1>1. LibraryInv => LibraryTypeOK
  BY DEF LibraryInv
<1> QED BY <1>1, LibrarySafe, PTL

\* A file that the next scan may skip, because its row has the stamp of the file, has been
\* read in this version, however saves, rewrites, crashes and scans interleave.
THEOREM SkipsSoundly == LibrarySpec => []SkipSound
<1>1. ASSUME LibraryInv PROVE SkipSound
  <2> SUFFICES ASSUME NEW x \in Rows, Indexed(x), track[x].stamp = ver[x[2]]
               PROVE  track[x].tags = ver[x[2]]
    BY DEF SkipSound
  <2>1. track[x] \in Row /\ ver[x[2]] \in Nat
    BY <1>1, ScanTypes DEF Indexed
  <2>2. track[x].stamp <= track[x].tags /\ track[x].tags <= ver[x[2]]
    BY <1>1 DEF LibraryInv, Tagged
  <2> QED BY <2>1, <2>2 DEF Row
<1> QED BY <1>1, LibrarySafe, PTL

\* A library that no administrator has given another folder holds only files of its folder.
THEOREM OwnFilesOnly == LibrarySpec => []NoStrangers
<1>1. LibraryInv => NoStrangers
  BY DEF LibraryInv, Housed, Belongs, NoStrangers, Settled
<1> QED BY <1>1, LibrarySafe, PTL

\* Only the end of a scan deletes a row, and only it takes a library from the walked ones.
LEMMA OnlyPrunes ==
  ASSUME LibraryInv, [LibraryNext]_libraryVars, NEW x \in Rows, Indexed(x), ~Indexed(x)'
  PROVE  \E i \in Ids : Prune(i)
<1> USE DEF LibraryInv
<1>1. UNCHANGED track => FALSE
  BY DEF Indexed
<1>2. ASSUME NEW a \in Admins, Setting(a) PROVE FALSE
  <2>1. track[x] \in Row
    BY ScanTypes DEF Indexed
  <2>2. [track[x] EXCEPT !.stamp = 0].tags = track[x].tags /\ track[x].tags # 0
    BY <2>1 DEF Row
  <2>3. [track[x] EXCEPT !.stamp = 0] # NoRow
    BY <2>2 DEF NoRow
  <2>4. Reset(x) # NoRow
    BY <2>3 DEF Reset
  <2>5. track'[x] = track[x] \/ track'[x] = Reset(x)
    BY <1>2 DEF Setting
  <2> QED BY <2>4, <2>5 DEF Indexed
<1>3. ASSUME NEW r \in scan.read, Upsert(r) PROVE FALSE
  <2>1. track' = track \/ track' = [track EXCEPT ![r.job.row] = Stored(r)]
    BY <1>3 DEF Upsert
  <2>2. Stored(r).tags # 0
    BY ScanTypes DEF Stored
  <2>3. Stored(r) # NoRow
    BY <2>2 DEF NoRow
  <2>4. track \in [Rows -> Row \cup {NoRow}]
    BY DEF LibraryTypeOK
  <2>5. track'[x] = track[x] \/ track'[x] = Stored(r)
    BY <2>1, <2>4
  <2> QED BY <2>3, <2>5 DEF Indexed
<1>4. ASSUME NEW a \in Admins, Open(a) \/ Submit(a) \/ Previous(a) \/ Gather(a) \/ Launch(a) PROVE FALSE
  BY <1>1, <1>4 DEF Open, Submit, Previous, Gather, Launch, index
<1>5. Boot \/ Load \/ Walked \/ ScanDone => FALSE
  BY <1>1 DEF Boot, Load, Walked, ScanDone, index
<1>6. ASSUME NEW r \in Roots, Folder(r) PROVE FALSE
  BY <1>1, <1>6 DEF Folder, index
<1>7. ASSUME NEW f \in Files, Visit(f) \/ Unreadable(f) \/ Rewrite(f) \/ Lose(f) \/ Restore(f) PROVE FALSE
  BY <1>1, <1>7 DEF Visit, Unreadable, Rewrite, Lose, Restore, Change, index
<1>8. ASSUME NEW j \in scan.jobs, ReadTags(j) PROVE FALSE
  BY <1>1, <1>8 DEF ReadTags, index
<1>9. ASSUME NEW y \in Rows, Enqueue(y) \/ Play(y) PROVE FALSE
  BY <1>1, <1>9 DEF Enqueue, Play
<1>10. UNCHANGED libraryVars => FALSE
  BY <1>1 DEF libraryVars, index
<1> QED BY <1>2, <1>3, <1>4, <1>5, <1>6, <1>7, <1>8, <1>9, <1>10 DEF LibraryNext

\* A row that is deleted is that of a file which was missing at some time since the scan
\* began, or which is not below the folder of its library.
THEOREM TracksKept == LibrarySpec => KeepsPresent
<1> DEFINE Kept == \A x \in Rows : Indexed(x) /\ ~Indexed(x)' =>
             \/ x[2] \in gone \/ ~Settled(x[1])
             \/ x[2] \notin Under[lib[x[1]].root]
<1>1. ASSUME LibraryInv, [LibraryNext]_libraryVars PROVE Kept
  <2> SUFFICES ASSUME NEW x \in Rows, Indexed(x), ~Indexed(x)', Settled(x[1]), x[2] \in Under[lib[x[1]].root]
               PROVE  x[2] \in gone
    OBVIOUS
  <2>1. PICK i \in Ids : Prune(i)
    BY <1>1, OnlyPrunes
  <2>2. i \in scan.done /\ (x[1] = i /\ x \notin scan.seen)
    <3>1. track' = track \/ track' = [y \in Rows |-> IF y \in {z \in Rows : z[1] = i /\ Indexed(z) /\ z \notin scan.seen} THEN NoRow ELSE track[y]]
      BY <2>1 DEF Prune
    <3>2. x[1] = i /\ x \notin scan.seen
      BY <3>1 DEF Indexed
    <3> QED BY <2>1, <3>2 DEF Prune
  <2>3. PICK r \in home[i] : \A f \in Under[r] : f \in gone \/ <<i, f>> \in scan.seen
    BY <1>1, <2>2 DEF LibraryInv, Walks
  <2>4. r = lib[x[1]].root
    BY <2>2, <2>3 DEF Settled
  <2>5. x = <<i, x[2]>>
    BY <2>2 DEF Rows
  <2> QED BY <2>2, <2>3, <2>4, <2>5
<1>2. ASSUME LibraryInv, [LibraryNext]_libraryVars PROVE [Kept]_libraryVars
  BY <1>1, <1>2
<1>3. LibrarySpec => [][Kept]_libraryVars
  BY <1>2, LibrarySafe, PTL DEF LibrarySpec
<1> QED BY <1>3 DEF KeepsPresent

\* Who prunes a library, and in what state.
LEMMA PruneTakes ==
  ASSUME LibraryInv, [LibraryNext]_libraryVars, NEW i \in Ids, Pruned(i)
  PROVE  Prune(i)
<1> USE DEF LibraryInv
<1>1. scan'.at = "walk" /\ i \in scan.done /\ i \notin scan'.done
  BY DEF Pruned
<1>2. scan'.done = scan.done => FALSE
  BY <1>1
<1>3. scan \in ScanState
  BY ScanTypes
<1>4. ASSUME NEW a \in Admins,
             Open(a) \/ Submit(a) \/ Previous(a) \/ Setting(a) \/ Gather(a) \/ Launch(a) PROVE FALSE
  <2>1. scan' = scan \/ scan'.at = "load"
    BY <1>4 DEF Open, Submit, Previous, Setting, Gather, Launch, Launched, NoScan
  <2> QED BY <1>1, <2>1
<1>5. CASE Boot \/ ScanDone
  <2> DEFINE launched == [NoScan EXCEPT !.at = "load", !.roots = EnabledRoots]
  <2>1. NoScan.at = "idle" /\ launched.at = "load"
    BY DEF NoScan
  <2>2. scan' = NoScan \/ scan' = launched
    BY <1>5 DEF Boot, ScanDone, Launched
  <2> HIDE DEF launched
  <2> QED BY <1>1, <2>1, <2>2
<1>6. CASE Load
  BY <1>1, <1>3, <1>6 DEF Load, ScanState
<1>7. CASE Walked
  <2> DEFINE done == IF scan.bad THEN scan.done ELSE scan.done \cup {scan.id}
  <2>1. scan' = [scan EXCEPT !.id = None, !.done = done]
    BY <1>3, <1>7 DEF Walked, ScanState
  <2>2. scan.done \subseteq done
    OBVIOUS
  <2> HIDE DEF done, LibraryInv
  <2>3. scan'.done = done
    BY <1>3, <2>1 DEF ScanState
  <2> QED BY <1>1, <2>2, <2>3
<1>8. ASSUME NEW r \in Roots, Folder(r) PROVE FALSE
  <2> HIDE DEF LibraryInv
  <2>1. PICK id : scan' = [scan EXCEPT !.roots = @ \ {r}, !.id = id, !.left = Under[r], !.bad = FALSE]
    BY <1>8 DEF Folder
  <2> QED BY <1>2, <1>3, <2>1 DEF ScanState
<1>9. ASSUME NEW f \in Files, Visit(f) PROVE FALSE
  <2>1. PICK jobs : scan' = [scan EXCEPT !.left = @ \ {f}]
          \/ scan' = [scan EXCEPT !.left = @ \ {f}, !.seen = @ \cup {<<scan.id, f>>}, !.jobs = jobs]
    BY <1>9 DEF Visit
  <2> HIDE DEF LibraryInv
  <2> QED BY <1>2, <1>3, <2>1 DEF ScanState
<1>10. ASSUME NEW f \in Files, Unreadable(f) PROVE FALSE
  <2> HIDE DEF LibraryInv
  <2> QED BY <1>2, <1>3, <1>10 DEF Unreadable, ScanState
<1>11. ASSUME NEW f \in Files, Rewrite(f) \/ Lose(f) \/ Restore(f) PROVE FALSE
  BY <1>2, <1>11 DEF Rewrite, Lose, Restore, Change
<1>12. ASSUME NEW j \in scan.jobs, ReadTags(j) PROVE FALSE
  <2> HIDE DEF LibraryInv
  <2> QED BY <1>2, <1>3, <1>12 DEF ReadTags, ScanState
<1>13. ASSUME NEW r \in scan.read, Upsert(r) PROVE FALSE
  <2> HIDE DEF LibraryInv
  <2> QED BY <1>2, <1>3, <1>13 DEF Upsert, ScanState
<1>14. ASSUME NEW k \in Ids, Prune(k) PROVE k = i
  <2> DEFINE done == scan.done \ {k}
  <2>1. scan' = [scan EXCEPT !.done = done]
    BY <1>14 DEF Prune
  <2> HIDE DEF done, LibraryInv
  <2>2. scan'.done = done
    BY <1>3, <2>1 DEF ScanState
  <2> QED BY <1>1, <2>2 DEF done
<1>15. ASSUME NEW y \in Rows, Enqueue(y) \/ Play(y) PROVE FALSE
  BY <1>2, <1>15 DEF Enqueue, Play
<1>16. UNCHANGED libraryVars => FALSE
  BY <1>2 DEF libraryVars
<1> HIDE DEF LibraryInv
<1> QED BY <1>4, <1>5, <1>6, <1>7, <1>8, <1>9, <1>10, <1>11, <1>12, <1>13, <1>14, <1>15, <1>16 DEF LibraryNext

\* A library that a scan prunes with nothing having disturbed it is exactly its folder.
THEOREM ScansExact == LibrarySpec => CleanScan
<1> DEFINE Good == \A i \in Ids : Pruned(i) /\ clean' => Exact(i)'
<1>1. ASSUME LibraryInv, [LibraryNext]_libraryVars PROVE Good
  <2> SUFFICES ASSUME NEW i \in Ids, Pruned(i), clean' PROVE Exact(i)'
    OBVIOUS
  <2> USE <1>1
  <2>1. Prune(i)
    BY PruneTakes
  <2>2. scan.at = "walk" /\ scan.jobs = {} /\ scan.read = {} /\ i \in scan.done
        /\ UNCHANGED <<lib, flag, there, ver, stained>>
    BY <2>1 DEF Prune, WalkOver, config, disk
  <2>3. clean /\ track' = [x \in Rows |-> IF x[1] = i /\ Indexed(x) /\ x \notin scan.seen THEN NoRow ELSE track[x]]
    <3> DEFINE drop == {x \in Rows : x[1] = i /\ Indexed(x) /\ x \notin scan.seen}
    <3>1. clean /\ track' = [x \in Rows |-> IF x \in drop THEN NoRow ELSE track[x]]
      BY <2>1 DEF Prune, Disturbed
    <3> QED BY <3>1
  <2>4. ASSUME NEW x \in scan.seen
        PROVE  x[2] \in there \cap Under[lib[x[1]].root] /\ Current(x)
    BY <2>2, <2>3 DEF LibraryInv, Undisturbed, Pending
  <2>5. \A f \in there \cap Under[lib[i].root] : <<i, f>> \in scan.seen
    BY <2>2, <2>3 DEF LibraryInv, Undisturbed
  <2>6. ASSUME NEW x \in Rows, x[1] = i
        PROVE  /\ Indexed(x)' <=> x[2] \in there \cap Under[lib[i].root]
               /\ Indexed(x)' => track'[x].tags = ver[x[2]] /\ (~stained => track'[x].grouped = flag)
    <3>1. x = <<i, x[2]>>
      BY <2>6 DEF Rows
    <3>2. CASE x \in scan.seen
      BY <2>3, <2>4, <2>6, <3>2 DEF Current, Indexed
    <3>3. CASE x \notin scan.seen
      BY <2>3, <2>5, <2>6, <3>1, <3>3 DEF Indexed
    <3> QED BY <3>2, <3>3
  <2> QED BY <2>2, <2>6 DEF Exact
<1>2. ASSUME LibraryInv, [LibraryNext]_libraryVars PROVE [Good]_libraryVars
  BY <1>1, <1>2
<1>3. LibrarySpec => [][Good]_libraryVars
  BY <1>2, LibrarySafe, PTL DEF LibrarySpec
<1> QED BY <1>3 DEF CleanScan
=============================================================================
