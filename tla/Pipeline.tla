------------------------------ MODULE Pipeline ------------------------------
(***************************************************************************)
(* The life of shared-stream pipelines (internal/api/pipeline.go): started *)
(* lazily by the first handler that tunes in, torn down by the reaper once *)
(* idle or by an admin's delete, and unwound at shutdown.  One action is   *)
(* one critical section of Server.pipesMu, of a fan-out's mutex, or one    *)
(* store call; everything between two of them may interleave.  A fan-out   *)
(* is here only its closed flag and the handlers registered on it: FanOut  *)
(* models what is inside.                                                  *)
(***************************************************************************)
EXTENDS Naturals, FiniteSets

CONSTANTS
  Streams,    \* ids of the admin-created shared streams
  House,      \* the always-on stream
  Pipes,      \* identities for pipelines: the bound on how many are ever built
  HousePipe,  \* the pipeline registered for House at boot
  NoPipe,
  Handlers,   \* goroutines serving GET /stream/<id>.mp3 or the SSE endpoint
  Audio,      \* those that are audio listeners; the others are SSE subscribers
  Deleters,   \* goroutines serving DELETE of a stream
  Attempts,   \* attach's retry limit (3)
  Requested,  \* the stream ids clients ask for: a bound on Arrive
  Signals     \* whether SIGINT / SIGTERM may arrive

ASSUME PipelineAssumption ==
  /\ House \notin Streams
  /\ HousePipe \notin Pipes /\ NoPipe \notin Pipes /\ HousePipe # NoPipe
  /\ Audio \subseteq Handlers
  /\ Deleters \cap Pipes = {} /\ NoPipe \notin Deleters /\ IsFiniteSet(Pipes)
  /\ Attempts \in Nat \ {0}
  /\ Requested \subseteq Streams \cup {House}
  /\ Signals \in BOOLEAN

AllStreams == Streams \cup {House}
AllPipes == Pipes \cup {HousePipe}
Stoppers == Deleters \cup Pipes  \* a pipeline's name also names its reaper

VARIABLES
  row,        \* row[s]: the stream's row in the store: "none", "shared" or "gone"
  pipes,      \* Server.pipes: pipes[s] is s's pipeline, or NoPipe
  built,      \* built[p]: the stream p was built for; House for a p not yet built
  hubClosed,  \* pipelines whose Hub is closed
  busClosed,  \* pipelines whose Bus is closed
  cancelled,  \* pipelines whose context stopPipeline cancelled
  audience,   \* audience[p]: handlers registered on p's Hub or Bus
  run,        \* run[p]: where the goroutine of Hub.Run is (house's is main's own)
  reap,       \* reap[p]: where p's reaper is
  step,       \* step[x]: where stopper x is in deleteStream / stopPipeline
  target,     \* target[x]: the stream id it was called with
  victim,     \* victim[x]: the pipeline it took out of the map
  taker,      \* taker[p]: the stopper that took p out of the map, a history variable
  pc,         \* pc[h]: where handler h is in attach and in its loop
  want,       \* want[h]: the stream id of its request
  got,        \* got[h]: the pipeline it holds
  tries,      \* tries[h]: attach's attempt counter
  told,       \* SSE handlers a stream-closed event was published to
  wg,         \* Server.pipeWG's counter
  main        \* main's shutdown: "up", "stopping", "clean" once the wait succeeded

hvars == <<pc, want, got, tries>>
svars == <<step, target, victim, taker>>
vars == <<row, pipes, built, hubClosed, busClosed, cancelled, audience, run,
          reap, svars, hvars, told, wg, main>>

Phases == {"out", "lookup", "readRow", "ensure", "spawn", "register", "check", "on"}
Steps == {"idle", "take", "publish", "hub", "bus", "cancel", "row"}
Holding == {"publish", "hub", "bus", "cancel"}  \* stopPipeline, past the map delete

PipeTypes ==
  /\ row \in [AllStreams -> {"none", "shared", "gone"}]
  /\ pipes \in [AllStreams -> AllPipes \cup {NoPipe}]
  /\ built \in [AllPipes -> AllStreams]
  /\ hubClosed \in SUBSET AllPipes
  /\ busClosed \in SUBSET AllPipes
  /\ cancelled \in SUBSET AllPipes

RunTypes ==
  /\ run \in [Pipes -> {"off", "top", "playing", "returned"}]
  /\ reap \in [Pipes -> {"off", "fresh", "idle", "stopping", "done"}]
  /\ wg \in Nat
  /\ main \in {"up", "stopping", "clean"}

StopTypes ==
  /\ step \in [Stoppers -> Steps]
  /\ target \in [Stoppers -> AllStreams]
  /\ victim \in [Stoppers -> AllPipes \cup {NoPipe}]
  /\ taker \in [Pipes -> Stoppers \cup {NoPipe}]

HandlerTypes ==
  /\ audience \in [AllPipes -> SUBSET Handlers]
  /\ pc \in [Handlers -> Phases]
  /\ want \in [Handlers -> AllStreams]
  /\ got \in [Handlers -> AllPipes \cup {NoPipe}]
  /\ tries \in [Handlers -> 0 .. Attempts - 1]
  /\ told \in SUBSET Handlers

TypeOK == PipeTypes /\ RunTypes /\ StopTypes /\ HandlerTypes

\* main: house's pipeline is built, running and registered before anyone connects.
Init ==
  /\ row = [s \in AllStreams |-> IF s = House THEN "shared" ELSE "none"]
  /\ pipes = [s \in AllStreams |-> IF s = House THEN HousePipe ELSE NoPipe]
  /\ built = [p \in AllPipes |-> House]
  /\ hubClosed = {} /\ busClosed = {} /\ cancelled = {}
  /\ audience = [p \in AllPipes |-> {}]
  /\ run = [p \in Pipes |-> "off"]
  /\ reap = [p \in Pipes |-> "off"]
  /\ step = [x \in Stoppers |-> "idle"]
  /\ target = [x \in Stoppers |-> House]
  /\ victim = [x \in Stoppers |-> NoPipe]
  /\ pc = [h \in Handlers |-> "out"]
  /\ want = [h \in Handlers |-> House]
  /\ got = [h \in Handlers |-> NoPipe]
  /\ tries = [h \in Handlers |-> 0]
  /\ told = {}
  /\ taker = [p \in Pipes |-> NoPipe]
  /\ wg = 0
  /\ main = "up"

\* Mutant of CtxDone: pipelines hang off a context that shutdown does not end.
CtxDoneOwn(p) == p \in cancelled

Dead(p) == p \in hubClosed \/ p \in busClosed
FanOutClosed(h, p) == IF h \in Audio THEN p \in hubClosed ELSE p \in busClosed
CtxDone(p) == p \in cancelled \/ main # "up"
Unbuilt == {p \in Pipes : built[p] = House}

-----------------------------------------------------------------------------
(* Handlers: attach, ensurePipeline and the streaming loop.                 *)

Goto(h, to) == pc' = [pc EXCEPT ![h] = to]

\* The request ends, and with it everything its goroutine held.
Exit(h) ==
  /\ Goto(h, "out")
  /\ want' = [want EXCEPT ![h] = House]
  /\ got' = [got EXCEPT ![h] = NoPipe]
  /\ tries' = [tries EXCEPT ![h] = 0]
  /\ told' = told \ {h}

Arrive(h, s) ==
  /\ pc[h] = "out"
  /\ Goto(h, "lookup")
  /\ want' = [want EXCEPT ![h] = s]
  /\ UNCHANGED <<row, pipes, built, hubClosed, busClosed, cancelled, audience,
                 run, reap, svars, got, tries, told, wg, main>>

\* ensurePipeline's fast path: a registered pipeline that is not dead.
Lookup(h) ==
  /\ pc[h] = "lookup"
  /\ LET p == pipes[want[h]] IN
       IF p # NoPipe /\ ~Dead(p)
       THEN Goto(h, "register") /\ got' = [got EXCEPT ![h] = p]
       ELSE Goto(h, "readRow") /\ UNCHANGED got
  /\ UNCHANGED <<row, pipes, built, hubClosed, busClosed, cancelled, audience,
                 run, reap, svars, want, tries, told, wg, main>>

\* isSharedStream, read outside the lock; a missing row is the handler's 404.
ReadRow(h) ==
  /\ pc[h] = "readRow"
  /\ IF row[want[h]] = "shared"
     THEN Goto(h, "ensure") /\ UNCHANGED <<want, got, tries, told>>
     ELSE Exit(h)
  /\ UNCHANGED <<row, pipes, built, hubClosed, busClosed, cancelled, audience,
                 run, reap, svars, wg, main>>

\* Mutant of Ensure: no double check, every racing handler builds and registers.
EnsureNoDoubleCheck(h) ==
  /\ pc[h] = "ensure"
  /\ \/ /\ \E p \in Unbuilt :
             /\ built' = [built EXCEPT ![p] = want[h]]
             /\ pipes' = [pipes EXCEPT ![want[h]] = p]
             /\ got' = [got EXCEPT ![h] = p]
        /\ Goto(h, "spawn")
        /\ UNCHANGED <<want, tries, told>>
     \/ /\ Unbuilt = {}
        /\ pipes' = [pipes EXCEPT ![want[h]] = NoPipe]
        /\ Exit(h)
        /\ UNCHANGED built
  /\ UNCHANGED <<row, hubClosed, busClosed, cancelled, audience, run, reap,
                 svars, wg, main>>

\* The double check under the lock: another handler won, or build and register;
\* a factory that hands back nothing (here: the bound on pipelines) is a 404.
Ensure(h) ==
  /\ pc[h] = "ensure"
  /\ LET q == pipes[want[h]] IN
       \/ /\ q # NoPipe /\ ~Dead(q)
          /\ got' = [got EXCEPT ![h] = q]
          /\ Goto(h, "register")
          /\ UNCHANGED <<pipes, built, want, tries, told>>
       \/ /\ q = NoPipe \/ Dead(q)
          /\ \E p \in Unbuilt :
               /\ built' = [built EXCEPT ![p] = want[h]]
               /\ pipes' = [pipes EXCEPT ![want[h]] = p]
               /\ got' = [got EXCEPT ![h] = p]
          /\ Goto(h, "spawn")
          /\ UNCHANGED <<want, tries, told>>
       \/ /\ q = NoPipe \/ Dead(q)
          /\ Unbuilt = {}
          /\ pipes' = [pipes EXCEPT ![want[h]] = NoPipe]
          /\ Exit(h)
          /\ UNCHANGED built
  /\ UNCHANGED <<row, hubClosed, busClosed, cancelled, audience, run, reap,
                 svars, wg, main>>

\* Mutant of Spawn: two goroutines, counted as one.
SpawnCountsOne(h) ==
  /\ pc[h] = "spawn"
  /\ run' = [run EXCEPT ![got[h]] = "top"]
  /\ reap' = [reap EXCEPT ![got[h]] = "fresh"]
  /\ wg' = wg + 1
  /\ Goto(h, "register")
  /\ UNCHANGED <<row, pipes, built, hubClosed, busClosed, cancelled, audience,
                 svars, want, got, tries, told, main>>

\* After the unlock: count the two goroutines, start Hub.Run and the reaper.
Spawn(h) ==
  /\ pc[h] = "spawn"
  /\ run' = [run EXCEPT ![got[h]] = "top"]
  /\ reap' = [reap EXCEPT ![got[h]] = "fresh"]
  /\ wg' = wg + 2
  /\ Goto(h, "register")
  /\ UNCHANGED <<row, pipes, built, hubClosed, busClosed, cancelled, audience,
                 svars, want, got, tries, told, main>>

\* Hub.Listen or Bus.Subscribe: a closed fan-out registers nothing.
Register(h) ==
  /\ pc[h] = "register"
  /\ audience' = IF FanOutClosed(h, got[h]) THEN audience
                 ELSE [audience EXCEPT ![got[h]] = @ \cup {h}]
  /\ Goto(h, "check")
  /\ UNCHANGED <<row, pipes, built, hubClosed, busClosed, cancelled, run, reap,
                 svars, want, got, tries, told, wg, main>>

\* register's Closed() check: on, or stop() and the next of attach's attempts.
Check(h) ==
  /\ pc[h] = "check"
  /\ \/ /\ ~FanOutClosed(h, got[h])
        /\ Goto(h, "on")
        /\ UNCHANGED <<audience, want, got, tries, told>>
     \/ /\ FanOutClosed(h, got[h])
        /\ audience' = [audience EXCEPT ![got[h]] = @ \ {h}]
        /\ IF tries[h] + 1 = Attempts
           THEN Exit(h)
           ELSE /\ Goto(h, "lookup")
                /\ tries' = [tries EXCEPT ![h] = @ + 1]
                /\ got' = [got EXCEPT ![h] = NoPipe]
                /\ told' = told \ {h}
                /\ UNCHANGED want
  /\ UNCHANGED <<row, pipes, built, hubClosed, busClosed, cancelled, run, reap,
                 svars, wg, main>>

\* The client goes away: the deferred cancel unregisters.
Leave(h) ==
  /\ pc[h] = "on"
  /\ Exit(h)
  /\ audience' = [audience EXCEPT ![got[h]] = @ \ {h}]
  /\ UNCHANGED <<row, pipes, built, hubClosed, busClosed, cancelled, run, reap,
                 svars, wg, main>>

\* The fan-out closed the handler's channel: the loop returns.
Dropped(h) ==
  /\ pc[h] = "on"
  /\ h \notin audience[got[h]]
  /\ Exit(h)
  /\ UNCHANGED <<row, pipes, built, hubClosed, busClosed, cancelled, audience,
                 run, reap, svars, wg, main>>

-----------------------------------------------------------------------------
(* Streams come and go; stopPipeline runs for a delete or for a reaper.     *)

CreateStream(s) ==
  /\ row[s] = "none"
  /\ row' = [row EXCEPT ![s] = "shared"]
  /\ UNCHANGED <<pipes, built, hubClosed, busClosed, cancelled, audience, run,
                 reap, svars, hvars, told, wg, main>>

\* deleteStream refuses house before anything else.
DeleteStream(d, s) ==
  /\ step[d] = "idle"
  /\ s # House
  /\ step' = [step EXCEPT ![d] = "take"]
  /\ target' = [target EXCEPT ![d] = s]
  /\ UNCHANGED <<row, pipes, built, hubClosed, busClosed, cancelled, audience,
                 run, reap, victim, taker, hvars, told, wg, main>>

\* Leaving stopPipeline: a delete goes on to the row, a reaper's goroutine ends.
Return(x) ==
  /\ step' = [step EXCEPT ![x] = IF x \in Deleters THEN "row" ELSE "idle"]
  /\ target' = IF x \in Deleters THEN target ELSE [target EXCEPT ![x] = House]
  /\ victim' = [victim EXCEPT ![x] = NoPipe]
  /\ reap' = IF x \in Deleters THEN reap ELSE [reap EXCEPT ![x] = "done"]
  /\ wg' = IF x \in Deleters THEN wg ELSE wg - 1

\* Mutant of TakeOut: the map entry is left behind.
TakeOutKeepsEntry(x) ==
  /\ step[x] = "take"
  /\ LET p == pipes[target[x]] IN
       IF p = NoPipe \/ p = HousePipe
       THEN Return(x) /\ UNCHANGED taker
       ELSE /\ victim' = [victim EXCEPT ![x] = p]
            /\ taker' = [taker EXCEPT ![p] = x]
            /\ step' = [step EXCEPT ![x] = "publish"]
            /\ UNCHANGED <<target, reap, wg>>
  /\ UNCHANGED <<row, pipes, built, hubClosed, busClosed, cancelled, audience,
                 run, hvars, told, main>>

\* stopPipeline looks the id up, not the pipeline it was decided for.
TakeOut(x) ==
  /\ step[x] = "take"
  /\ LET p == pipes[target[x]] IN
       IF p = NoPipe \/ p = HousePipe
       THEN Return(x) /\ UNCHANGED <<pipes, taker>>
       ELSE /\ pipes' = [pipes EXCEPT ![target[x]] = NoPipe]
            /\ victim' = [victim EXCEPT ![x] = p]
            /\ taker' = [taker EXCEPT ![p] = x]
            /\ step' = [step EXCEPT ![x] = "publish"]
            /\ UNCHANGED <<target, reap, wg>>
  /\ UNCHANGED <<row, built, hubClosed, busClosed, cancelled, audience, run,
                 hvars, told, main>>

PublishClosed(x) ==
  /\ step[x] = "publish"
  /\ told' = told \cup (audience[victim[x]] \ Audio)
  /\ step' = [step EXCEPT ![x] = "hub"]
  /\ UNCHANGED <<row, pipes, built, hubClosed, busClosed, cancelled, audience,
                 run, reap, target, victim, taker, hvars, wg, main>>

\* Mutant of CloseHub: marks the hub closed, closes nobody's channel.
CloseHubForgetsListeners(x) ==
  /\ step[x] = "hub"
  /\ hubClosed' = hubClosed \cup {victim[x]}
  /\ step' = [step EXCEPT ![x] = "bus"]
  /\ UNCHANGED <<row, pipes, built, busClosed, cancelled, audience, run, reap,
                 target, victim, taker, hvars, told, wg, main>>

CloseHub(x) ==
  /\ step[x] = "hub"
  /\ hubClosed' = hubClosed \cup {victim[x]}
  /\ audience' = [audience EXCEPT ![victim[x]] = @ \ Audio]
  /\ step' = [step EXCEPT ![x] = "bus"]
  /\ UNCHANGED <<row, pipes, built, busClosed, cancelled, run, reap, target,
                 victim, taker, hvars, told, wg, main>>

CloseBus(x) ==
  /\ step[x] = "bus"
  /\ busClosed' = busClosed \cup {victim[x]}
  /\ audience' = [audience EXCEPT ![victim[x]] = @ \cap Audio]
  /\ step' = [step EXCEPT ![x] = "cancel"]
  /\ UNCHANGED <<row, pipes, built, hubClosed, cancelled, run, reap, target,
                 victim, taker, hvars, told, wg, main>>

\* Mutant of CancelPipe: the hub and bus are closed, the context lives on.
CancelPipeForgotten(x) ==
  /\ step[x] = "cancel"
  /\ Return(x)
  /\ UNCHANGED <<row, pipes, built, hubClosed, busClosed, cancelled, audience,
                 run, taker, hvars, told, main>>

CancelPipe(x) ==
  /\ step[x] = "cancel"
  /\ cancelled' = cancelled \cup {victim[x]}
  /\ Return(x)
  /\ UNCHANGED <<row, pipes, built, hubClosed, busClosed, audience, run, taker,
                 hvars, told, main>>

\* store.DeleteStream, the last thing deleteStream does; if it fails, the row stays, and
\* the stream is up for the next listener.
DropRow(d) ==
  /\ step[d] = "row"
  /\ \/ row' = [row EXCEPT ![target[d]] = IF @ = "shared" THEN "gone" ELSE @]
     \/ UNCHANGED row
  /\ step' = [step EXCEPT ![d] = "idle"]
  /\ target' = [target EXCEPT ![d] = House]
  /\ UNCHANGED <<pipes, built, hubClosed, busClosed, cancelled, audience, run,
                 reap, victim, taker, hvars, told, wg, main>>

-----------------------------------------------------------------------------
(* The two goroutines of a pipeline, and main's shutdown.                   *)

Ticking(p) == reap[p] \in {"fresh", "idle"}

\* A tick that finds somebody tuned in restarts the idle clock, the first idle
\* tick starts it, later ones wait for the ttl.
Tick(p) ==
  /\ Ticking(p)
  /\ reap' = [reap EXCEPT ![p] = IF audience[p] # {} THEN "fresh" ELSE "idle"]
  /\ UNCHANGED <<row, pipes, built, hubClosed, busClosed, cancelled, audience,
                 run, svars, hvars, told, wg, main>>

\* The tick at which the ttl is up: the counts are read here, the stop is later.
Expire(p) ==
  /\ reap[p] = "idle" /\ audience[p] = {}
  /\ reap' = [reap EXCEPT ![p] = "stopping"]
  /\ step' = [step EXCEPT ![p] = "take"]
  /\ target' = [target EXCEPT ![p] = built[p]]
  /\ UNCHANGED <<row, pipes, built, hubClosed, busClosed, cancelled, audience,
                 run, victim, taker, hvars, told, wg, main>>

ReaperExit(p) ==
  /\ Ticking(p) /\ CtxDone(p)
  /\ reap' = [reap EXCEPT ![p] = "done"]
  /\ wg' = wg - 1
  /\ UNCHANGED <<row, pipes, built, hubClosed, busClosed, cancelled, audience,
                 run, svars, hvars, told, main>>

\* Hub.Run: the context check and the listener gate, then next() and play(), from
\* which it comes back when the track ends or play sees the context done.
RunLoop(p) ==
  /\ \/ run[p] = "top" /\ ~CtxDone(p) /\ audience[p] \cap Audio # {}
        /\ run' = [run EXCEPT ![p] = "playing"] /\ UNCHANGED wg
     \/ run[p] = "top" /\ CtxDone(p)
        /\ run' = [run EXCEPT ![p] = "returned"] /\ wg' = wg - 1
     \/ run[p] = "playing" /\ run' = [run EXCEPT ![p] = "top"] /\ UNCHANGED wg
  /\ UNCHANGED <<row, pipes, built, hubClosed, busClosed, cancelled, audience,
                 reap, svars, hvars, told, main>>

\* SIGINT: the root context ends; then WaitForPipelines finds the counter at zero
\* (or times out and the process exits, which is the same as taking no more steps).
Shutdown ==
  /\ \/ main = "up" /\ Signals /\ main' = "stopping"
     \/ main = "stopping" /\ wg = 0 /\ main' = "clean"
  /\ UNCHANGED <<row, pipes, built, hubClosed, busClosed, cancelled, audience,
                 run, reap, svars, hvars, told, wg>>

-----------------------------------------------------------------------------
Handle(h) ==
  \/ Lookup(h) \/ ReadRow(h) \/ Ensure(h) \/ Spawn(h) \/ Register(h) \/ Check(h)
  \/ Dropped(h)

StopStep(x) ==
  TakeOut(x) \/ PublishClosed(x) \/ CloseHub(x) \/ CloseBus(x) \/ CancelPipe(x)

Next ==
  \/ \E h \in Handlers : Handle(h) \/ Leave(h) \/ \E s \in Requested : Arrive(h, s)
  \/ \E s \in Streams : CreateStream(s)
  \/ \E d \in Deleters : DropRow(d) \/ \E s \in AllStreams : DeleteStream(d, s)
  \/ \E x \in Stoppers : StopStep(x)
  \/ \E p \in Pipes : Tick(p) \/ Expire(p) \/ ReaperExit(p) \/ RunLoop(p)
  \/ Shutdown

\* Goroutines that can run do run; ticks keep coming, and an idle pipeline's ttl
\* runs out.  Clients, admins and signals owe nothing.
Fairness ==
  /\ \A h \in Handlers : WF_vars(Handle(h))
  /\ \A d \in Deleters : WF_vars(DropRow(d))
  /\ \A x \in Stoppers : WF_vars(StopStep(x))
  /\ \A p \in Pipes : /\ WF_vars(Tick(p)) /\ WF_vars(Expire(p))
                      /\ WF_vars(ReaperExit(p)) /\ WF_vars(RunLoop(p))

Spec == Init /\ [][Next]_vars /\ Fairness

-----------------------------------------------------------------------------
\* A pipeline in the map is live: nobody who is handed one by ensurePipeline is
\* served by a corpse (pipeline.go:92-94), and house's is there for good.
RegisteredAlive ==
  /\ pipes[House] = HousePipe
  /\ \A s \in AllStreams :
       LET p == pipes[s] IN
         p # NoPipe => built[p] = s /\ ~Dead(p) /\ p \notin cancelled

\* No encoder leaks: a pipeline that is not cancelled is in the map, where its
\* reaper or a delete finds it, or in the hands of the one stopPipeline that
\* took it out and is about to cancel it.
Accounted ==
  \A p \in Pipes :
    built[p] # House /\ p \notin cancelled =>
      \/ pipes[built[p]] = p
      \/ \E x \in Stoppers : step[x] \in Holding /\ victim[x] = p

\* A delete has taken a pipeline of s out of the map.
Struck(s) == \E p \in Pipes : built[p] = s /\ taker[p] \in Deleters

\* stopPipeline is keyed by stream id, so a reaper may stop a successor registered under
\* the same id, whose listeners lose it.  That happens only to a reaper whose own pipeline
\* another stopper has taken out, after a delete that struck the stream (and perhaps
\* failed to drop its row, streamadmin.go:96): reapers alone, however they are late,
\* never stop each other's pipelines.
StaleReaper ==
  \A p \in Pipes :
    step[p] \in Holding /\ victim[p] # p =>
      taker[p] \notin {NoPipe, p} /\ Struck(target[p])

\* When WaitForPipelines reports success no lazily started hub is, or will be,
\* inside play(), though handlers may still be starting pipelines: a hub that
\* was not counted yet sees the ended root context first.
CleanExit == main = "clean" => \A p \in Pipes : run[p] # "playing"

Running == {p \in Pipes : run[p] \notin {"off", "returned"}}
Reaping == {p \in Pipes : reap[p] \notin {"off", "done"}}

\* The WaitGroup counts exactly the goroutines that have not returned: it never
\* goes negative (a panic) and is not left above zero (a hung shutdown).
Counted == wg = Cardinality(Running) + Cardinality(Reaping)

\* A handler on a pipeline that was torn down gets out of its loop.
ReleasedOnTeardown ==
  \A h \in Handlers : (pc[h] = "on" /\ got[h] \in cancelled) ~> (pc[h] = "out")

\* An idle pipeline costs nothing for long: unless somebody tunes in, its hub
\* goroutine returns, which kills its ffmpeg child.
IdleReaped ==
  \A p \in Pipes : Ticking(p) ~> (audience[p] # {} \/ run[p] = "returned")

-----------------------------------------------------------------------------
(* The inductive invariant of PipelineProofs.                               *)

\* A pipeline taken out of the map is held by one stopper, until it is cancelled.
Exclusive ==
  \A x \in Stoppers : step[x] \in Holding =>
    /\ victim[x] \in Pipes
    /\ built[victim[x]] # House
    /\ pipes[built[victim[x]]] # victim[x]
    /\ \A y \in Stoppers \ {x} : step[y] \in Holding => victim[y] # victim[x]

\* A pipeline not yet built has no history, and one in the map has not been taken out.
Pristine ==
  \A p \in Pipes :
    /\ built[p] = House => /\ p \notin hubClosed \cup busClosed \cup cancelled
                           /\ run[p] = "off" /\ reap[p] = "off"
    /\ built[p] = House \/ pipes[built[p]] = p => taker[p] = NoPipe

\* Between ensurePipeline's unlock and its two go statements, one handler each.
Spawning ==
  \A h \in Handlers :
    pc[h] = "spawn" => /\ got[h] \in Pipes /\ built[got[h]] # House
                       /\ run[got[h]] = "off" /\ reap[got[h]] = "off"
                       /\ \A g \in Handlers \ {h} : pc[g] = "spawn" => got[g] # got[h]

\* A reaper that is stopping does it for the stream its pipeline was built for.
Reapers ==
  \A p \in Pipes :
    /\ step[p] # "row"
    /\ step[p] # "idle" <=> reap[p] = "stopping"
    /\ step[p] # "idle" => target[p] = built[p]

\* A pipeline out of the map whose reaper is still up was taken out by that reaper,
\* which is at it, or by another stopper after a delete.
Orphaned ==
  \A p \in Pipes :
    built[p] # House /\ reap[p] # "done" /\ pipes[built[p]] # p =>
      \/ step[p] \in Holding /\ victim[p] = p
      \/ taker[p] \notin {NoPipe, p} /\ Struck(built[p])

IInv ==
  /\ TypeOK /\ RegisteredAlive /\ Accounted /\ StaleReaper /\ CleanExit /\ Counted
  /\ Exclusive /\ Pristine /\ Spawning /\ Reapers /\ Orphaned

-----------------------------------------------------------------------------
(* What a comment of the repository says, and the code does not do.         *)

\* pipeline.go:85 "the double-check below makes the race harmless": once a stream's
\* delete is done, no pipeline is registered for it.
NoPipelineForDeleted ==
  \A s \in Streams :
    row[s] = "gone" /\ (\A x \in Stoppers : step[x] = "idle") => pipes[s] = NoPipe
=============================================================================
