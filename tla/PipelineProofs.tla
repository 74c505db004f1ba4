--------------------------- MODULE PipelineProofs ---------------------------
(***************************************************************************)
(* For any number of streams, handlers, deletes and pipelines: what the    *)
(* registry of pipeline.go hands out is alive, no encoder is lost track    *)
(* of, the WaitGroup counts the goroutines exactly, and a clean shutdown   *)
(* is clean.  The invariant proved inductive is IInv of Pipeline.          *)
(* And for any number of clients and any buffer size: a fan-out of one of  *)
(* those pipelines never panics, loses no channel and keeps its feeds in   *)
(* order, and every step of it is a step of LossyFeed.                     *)
(***************************************************************************)
EXTENDS Pipeline, FanOut, TLAPS, FiniteSetTheorems

-----------------------------------------------------------------------------
(* The counting behind Counted.                                             *)

\* Subsets of Pipes are finite, so their cardinalities are natural numbers.
LEMMA PipesFinite ==
  ASSUME NEW S \in SUBSET Pipes
  PROVE  IsFiniteSet(S) /\ Cardinality(S) \in Nat
<1>1. IsFiniteSet(S)
  BY PipelineAssumption, FS_Subset
<1> QED
  BY <1>1, FS_CardinalityType

\* One goroutine more, one goroutine fewer.
LEMMA CountUp ==
  ASSUME NEW S \in SUBSET Pipes, NEW p \in Pipes, p \notin S
  PROVE  Cardinality(S \cup {p}) = Cardinality(S) + 1
  BY PipesFinite, FS_AddElement

LEMMA CountDown ==
  ASSUME NEW S \in SUBSET Pipes, NEW p \in S
  PROVE  Cardinality(S \ {p}) = Cardinality(S) - 1 /\ Cardinality(S) >= 1
<1>1. S \ {p} \in SUBSET Pipes /\ p \in Pipes /\ p \notin S \ {p} /\ (S \ {p}) \cup {p} = S
  OBVIOUS
<1>2. Cardinality((S \ {p}) \cup {p}) = Cardinality(S \ {p}) + 1
  BY <1>1, CountUp
<1>3. Cardinality(S \ {p}) \in Nat /\ Cardinality(S) \in Nat
  BY <1>1, PipesFinite
<1> QED
  BY <1>1, <1>2, <1>3

\* A reaper's goroutine that ends takes itself off the count.
LEMMA ReaperDone ==
  ASSUME TypeOK, Counted, NEW p \in Pipes, p \in Reaping,
         reap' = [reap EXCEPT ![p] = "done"], wg' = wg - 1, run' = run
  PROVE  Counted' /\ wg' \in Nat
<1>1. Reaping' = Reaping \ {p} /\ Running' = Running
  BY DEF TypeOK, RunTypes, Reaping, Running
<1>2. Reaping \in SUBSET Pipes /\ Running \in SUBSET Pipes
  BY DEF Reaping, Running
<1>3. Cardinality(Reaping \ {p}) = Cardinality(Reaping) - 1 /\ Cardinality(Reaping) >= 1
  BY <1>2, CountDown
<1>4. Cardinality(Reaping) \in Nat /\ Cardinality(Running) \in Nat
  BY <1>2, PipesFinite
<1>5. wg = Cardinality(Running) + Cardinality(Reaping)
  BY DEF Counted
<1>6. wg' = Cardinality(Running) + Cardinality(Reaping \ {p}) /\ wg' \in Nat
  BY <1>3, <1>4, <1>5
<1> QED
  BY <1>1, <1>6 DEF Counted

\* A step that moves no goroutine in or out leaves the count right.
LEMMA SameCount ==
  ASSUME Counted, wg' = wg, Running' = Running, Reaping' = Reaping
  PROVE  Counted'
  BY DEF Counted

-----------------------------------------------------------------------------
(* What a handler does in private: only the type of its own variables and   *)
(* the claims on a pipeline it has yet to spawn can be disturbed.           *)

LEMMA HandlerFrame ==
  ASSUME IInv,
         UNCHANGED <<row, pipes, built, hubClosed, busClosed, cancelled, run, reap,
                     svars, wg, main>>
  PROVE  /\ PipeTypes' /\ RunTypes' /\ StopTypes'
         /\ RegisteredAlive' /\ Accounted' /\ StaleReaper' /\ CleanExit' /\ Counted'
         /\ Exclusive' /\ Pristine' /\ Reapers' /\ Orphaned'
<1> USE DEF IInv, TypeOK, svars
<1>0. PipeTypes' /\ RunTypes' /\ StopTypes' BY DEF PipeTypes, RunTypes, StopTypes
<1>1. RegisteredAlive' BY DEF RegisteredAlive, Dead
<1>2. Accounted' BY DEF Accounted
<1>3. StaleReaper' BY DEF StaleReaper, Struck
<1>4. CleanExit' BY DEF CleanExit
<1>5. Counted' BY DEF Counted, Running, Reaping
<1>6. Exclusive' BY DEF Exclusive
<1>7. Pristine' BY DEF Pristine
<1>8. Reapers' BY DEF Reapers
<1>9. Orphaned' BY DEF Orphaned, Struck
<1> QED BY <1>0, <1>1, <1>2, <1>3, <1>4, <1>5, <1>6, <1>7, <1>8, <1>9

\* One lemma per action: it preserves every conjunct of the invariant.
LEMMA StepArrive ==
  ASSUME IInv, NEW h \in Handlers, NEW s \in Requested, Arrive(h, s)
  PROVE  IInv'
<1> USE PipelineAssumption DEF IInv, TypeOK, AllStreams, AllPipes, Stoppers, Holding
<1>1. /\ PipeTypes' /\ RunTypes' /\ StopTypes'
      /\ RegisteredAlive' /\ Accounted' /\ StaleReaper' /\ CleanExit' /\ Counted'
      /\ Exclusive' /\ Pristine' /\ Reapers' /\ Orphaned'
  BY HandlerFrame DEF Arrive, Goto, svars
<1>2. HandlerTypes'
  BY DEF Arrive, Goto, svars, PipeTypes, HandlerTypes, Phases
<1>3. Spawning'
  BY DEF Arrive, Goto, svars, Spawning, PipeTypes, RunTypes, HandlerTypes
<1> QED
  BY <1>1, <1>2, <1>3

LEMMA StepLookup ==
  ASSUME IInv, NEW h \in Handlers, Lookup(h)
  PROVE  IInv'
<1> USE PipelineAssumption DEF IInv, TypeOK, AllStreams, AllPipes, Stoppers, Holding
<1>1. /\ PipeTypes' /\ RunTypes' /\ StopTypes'
      /\ RegisteredAlive' /\ Accounted' /\ StaleReaper' /\ CleanExit' /\ Counted'
      /\ Exclusive' /\ Pristine' /\ Reapers' /\ Orphaned'
  BY HandlerFrame DEF Lookup, Goto, svars
<1>2. HandlerTypes'
  BY DEF Lookup, Goto, svars, PipeTypes, HandlerTypes, Phases
<1>3. Spawning'
  BY DEF Lookup, Goto, svars, Spawning, PipeTypes, RunTypes, HandlerTypes
<1> QED
  BY <1>1, <1>2, <1>3

LEMMA StepReadRow ==
  ASSUME IInv, NEW h \in Handlers, ReadRow(h)
  PROVE  IInv'
<1> USE PipelineAssumption DEF IInv, TypeOK, AllStreams, AllPipes, Stoppers, Holding
<1>1. /\ PipeTypes' /\ RunTypes' /\ StopTypes'
      /\ RegisteredAlive' /\ Accounted' /\ StaleReaper' /\ CleanExit' /\ Counted'
      /\ Exclusive' /\ Pristine' /\ Reapers' /\ Orphaned'
  BY HandlerFrame DEF ReadRow, Goto, Exit, svars
<1>2. HandlerTypes'
  BY DEF ReadRow, Goto, Exit, svars, PipeTypes, HandlerTypes, Phases
<1>3. Spawning'
  BY DEF ReadRow, Goto, Exit, svars, Spawning, PipeTypes, RunTypes, HandlerTypes
<1> QED
  BY <1>1, <1>2, <1>3

LEMMA StepRegister ==
  ASSUME IInv, NEW h \in Handlers, Register(h)
  PROVE  IInv'
<1> USE PipelineAssumption DEF IInv, TypeOK, AllStreams, AllPipes, Stoppers, Holding
<1>1. /\ PipeTypes' /\ RunTypes' /\ StopTypes'
      /\ RegisteredAlive' /\ Accounted' /\ StaleReaper' /\ CleanExit' /\ Counted'
      /\ Exclusive' /\ Pristine' /\ Reapers' /\ Orphaned'
  BY HandlerFrame DEF Register, Goto, svars
<1>2. HandlerTypes'
  BY DEF Register, Goto, svars, PipeTypes, HandlerTypes, Phases
<1>3. Spawning'
  BY DEF Register, Goto, svars, Spawning, PipeTypes, RunTypes, HandlerTypes
<1> QED
  BY <1>1, <1>2, <1>3

LEMMA StepCheck ==
  ASSUME IInv, NEW h \in Handlers, Check(h)
  PROVE  IInv'
<1> USE PipelineAssumption DEF IInv, TypeOK, AllStreams, AllPipes, Stoppers, Holding
<1>1. /\ PipeTypes' /\ RunTypes' /\ StopTypes'
      /\ RegisteredAlive' /\ Accounted' /\ StaleReaper' /\ CleanExit' /\ Counted'
      /\ Exclusive' /\ Pristine' /\ Reapers' /\ Orphaned'
  BY HandlerFrame DEF Check, Goto, Exit, svars
<1>2. HandlerTypes'
  <2>1. audience' \in [AllPipes -> SUBSET Handlers]
    BY DEF Check, HandlerTypes
  <2>2. /\ pc' \in [Handlers -> Phases] /\ got' \in [Handlers -> AllPipes \cup {NoPipe}]
        /\ told' \in SUBSET Handlers
    BY DEF Check, Goto, Exit, HandlerTypes, Phases
  <2>3. want' \in [Handlers -> AllStreams]
    BY DEF Check, Exit, HandlerTypes
  <2>4. tries' \in [Handlers -> 0 .. Attempts - 1]
    <3>1. tries \in [Handlers -> 0 .. Attempts - 1]
      BY DEF HandlerTypes
    <3>2. CASE tries' = tries
      BY <3>1, <3>2
    <3>3. CASE tries' = [tries EXCEPT ![h] = 0]
      <4>1. 0 \in 0 .. Attempts - 1
        OBVIOUS
      <4> QED BY <3>1, <3>3, <4>1
    <3>4. CASE tries[h] + 1 # Attempts /\ tries' = [tries EXCEPT ![h] = @ + 1]
      <4>1. Attempts \in Nat /\ tries[h] \in 0 .. Attempts - 1
        BY <3>1
      <4>2. tries[h] + 1 \in 0 .. Attempts - 1
        BY <3>4, <4>1
      <4> QED BY <3>1, <3>4, <4>2
    <3> QED BY <3>2, <3>3, <3>4 DEF Check, Exit
  <2> QED BY <2>1, <2>2, <2>3, <2>4 DEF HandlerTypes
<1>3. Spawning'
  BY DEF Check, Goto, Exit, svars, Spawning, PipeTypes, RunTypes, HandlerTypes
<1> QED
  BY <1>1, <1>2, <1>3

LEMMA StepLeave ==
  ASSUME IInv, NEW h \in Handlers, Leave(h)
  PROVE  IInv'
<1> USE PipelineAssumption DEF IInv, TypeOK, AllStreams, AllPipes, Stoppers, Holding
<1>1. /\ PipeTypes' /\ RunTypes' /\ StopTypes'
      /\ RegisteredAlive' /\ Accounted' /\ StaleReaper' /\ CleanExit' /\ Counted'
      /\ Exclusive' /\ Pristine' /\ Reapers' /\ Orphaned'
  BY HandlerFrame DEF Leave, Goto, Exit, svars
<1>2. HandlerTypes'
  <2>1. audience' \in [AllPipes -> SUBSET Handlers]
    BY DEF Leave, HandlerTypes
  <2>2. 0 \in 0 .. Attempts - 1
    OBVIOUS
  <2> QED BY <2>1, <2>2 DEF Leave, Goto, Exit, HandlerTypes, Phases
<1>3. Spawning'
  BY DEF Leave, Goto, Exit, svars, Spawning, PipeTypes, RunTypes, HandlerTypes
<1> QED
  BY <1>1, <1>2, <1>3

LEMMA StepDropped ==
  ASSUME IInv, NEW h \in Handlers, Dropped(h)
  PROVE  IInv'
<1> USE PipelineAssumption DEF IInv, TypeOK, AllStreams, AllPipes, Stoppers, Holding
<1>1. /\ PipeTypes' /\ RunTypes' /\ StopTypes'
      /\ RegisteredAlive' /\ Accounted' /\ StaleReaper' /\ CleanExit' /\ Counted'
      /\ Exclusive' /\ Pristine' /\ Reapers' /\ Orphaned'
  BY HandlerFrame DEF Dropped, Goto, Exit, svars
<1>2. HandlerTypes'
  BY DEF Dropped, Goto, Exit, svars, PipeTypes, HandlerTypes, Phases
<1>3. Spawning'
  BY DEF Dropped, Goto, Exit, svars, Spawning, PipeTypes, RunTypes, HandlerTypes
<1> QED
  BY <1>1, <1>2, <1>3

\* Only a stream whose map entry is empty gets a pipeline, one that was not built before.
LEMMA StepEnsure ==
  ASSUME IInv, NEW h \in Handlers, Ensure(h)
  PROVE  IInv'
<1> USE PipelineAssumption DEF IInv, TypeOK, AllStreams, AllPipes, Stoppers, Holding
<1> DEFINE q == pipes[want[h]]
<1>0. /\ want[h] \in Streams \cup {House}
      /\ q \in Pipes \cup {HousePipe, NoPipe}
      /\ q # NoPipe => ~Dead(q)
  BY DEF Ensure, HandlerTypes, PipeTypes, Spawning, RegisteredAlive
<1>1. CASE q # NoPipe
  <2>1. /\ UNCHANGED <<row, pipes, built, hubClosed, busClosed, cancelled, audience, run,
                       reap, svars, want, tries, told, wg, main>>
        /\ got' = [got EXCEPT ![h] = q] /\ pc' = [pc EXCEPT ![h] = "register"]
    BY <1>0, <1>1 DEF Ensure, Goto
  <2>2. HandlerTypes' BY <1>0, <2>1 DEF HandlerTypes, Phases
  <2>3. Spawning' BY <2>1 DEF Spawning, HandlerTypes
  <2> QED BY <2>1, <2>2, <2>3, HandlerFrame
<1>2. CASE q = NoPipe /\ Unbuilt = {}
  <2>1. /\ UNCHANGED <<row, built, hubClosed, busClosed, cancelled, audience, run, reap,
                       svars, wg, main>>
        /\ pipes' = [pipes EXCEPT ![want[h]] = NoPipe] /\ Exit(h)
    BY <1>2 DEF Ensure
  <2>2. pipes' = pipes BY <1>0, <1>2, <2>1 DEF PipeTypes
  <2>3. HandlerTypes' BY <2>1 DEF HandlerTypes, Phases, Exit, Goto
  <2>4. Spawning' BY <2>1 DEF Spawning, HandlerTypes, Exit, Goto
  <2> QED BY <2>1, <2>2, <2>3, <2>4, HandlerFrame
<1>3. CASE q = NoPipe /\ Unbuilt # {}
  <2>1. PICK p \in Unbuilt : /\ built' = [built EXCEPT ![p] = want[h]]
                             /\ pipes' = [pipes EXCEPT ![want[h]] = p]
                             /\ got' = [got EXCEPT ![h] = p]
                             /\ pc' = [pc EXCEPT ![h] = "spawn"]
                             /\ UNCHANGED <<row, hubClosed, busClosed, cancelled, audience,
                                            run, reap, svars, want, tries, told, wg, main>>
    BY <1>3 DEF Ensure, Goto
  <2>2. /\ p \in Pipes /\ built[p] = House /\ p # HousePipe /\ p # NoPipe
        /\ p \notin hubClosed /\ p \notin busClosed /\ p \notin cancelled
        /\ run[p] = "off" /\ reap[p] = "off" /\ step[p] = "idle" /\ taker[p] = NoPipe
    BY DEF Unbuilt, Pristine, Reapers
  <2>3. want[h] # House /\ want[h] \in Streams
    BY <1>0, <1>3 DEF RegisteredAlive
  <2>4. \A s \in AllStreams : pipes[s] # p
    BY <2>2 DEF RegisteredAlive, PipeTypes
  <2>5. /\ built' \in [AllPipes -> AllStreams] /\ pipes' \in [AllStreams -> AllPipes \cup {NoPipe}]
        /\ built'[p] = want[h] /\ pipes'[want[h]] = p
        /\ \A r \in AllPipes \ {p} : built'[r] = built[r]
        /\ \A s \in AllStreams \ {want[h]} : pipes'[s] = pipes[s]
    BY <1>0, <2>1, <2>2 DEF PipeTypes
  <2>6. \A x \in Stoppers : step[x] \in Holding =>
          victim[x] # p /\ victim[x] \in AllPipes /\ built'[victim[x]] = built[victim[x]]
    BY <2>2, <2>5 DEF Exclusive
  <2> HIDE DEF q
  <2>7. TypeOK'
    <3>1. PipeTypes' BY <2>1, <2>5 DEF PipeTypes
    <3>2. RunTypes' /\ StopTypes' BY <2>1 DEF RunTypes, StopTypes, svars
    <3>3. HandlerTypes' BY <2>1, <2>2 DEF HandlerTypes, Phases
    <3> QED BY <3>1, <3>2, <3>3
  <2>8. RegisteredAlive'
    BY <1>0, <2>1, <2>2, <2>3, <2>4, <2>5 DEF RegisteredAlive, Dead, PipeTypes
  <2>9. Accounted'
    <3> SUFFICES ASSUME NEW r \in Pipes, built'[r] # House, r \notin cancelled
                 PROVE  \/ pipes'[built'[r]] = r
                        \/ \E x \in Stoppers : step[x] \in Holding /\ victim[x] = r
      BY <2>1 DEF Accounted, svars
    <3>1. CASE r = p BY <2>5, <3>1
    <3>2. CASE r # p
      <4>1. built'[r] = built[r] BY <2>5, <3>2
      <4>2. pipes[built[r]] # r => \E x \in Stoppers : step[x] \in Holding /\ victim[x] = r
        BY <4>1 DEF Accounted
      <4>3. pipes[built[r]] = r => built[r] # want[h] /\ built[r] \in AllStreams
        BY <1>3 DEF PipeTypes, q
      <4> QED BY <2>5, <4>1, <4>2, <4>3
    <3> QED BY <3>1, <3>2
  <2>s. \A s \in AllStreams : Struck(s) => Struck(s)'
    BY <2>1, <2>2, <2>5 DEF Struck, svars
  <2>10. StaleReaper' BY <2>1, <2>s DEF StaleReaper, StopTypes, svars
  <2>11. CleanExit' /\ Counted'
    BY <2>1 DEF CleanExit, Counted, Running, Reaping
  <2>12. Exclusive'
    <3>1. \A x \in Stoppers : step[x] \in Holding => pipes'[built[victim[x]]] # victim[x]
      BY <2>5, <2>6 DEF Exclusive, PipeTypes
    <3> QED BY <2>1, <2>6, <3>1 DEF Exclusive, svars
  <2>13. Pristine'
    <3>1. ASSUME NEW r \in Pipes, built'[r] = House \/ pipes'[built'[r]] = r
          PROVE  taker[r] = NoPipe
      <4>1. CASE r = p BY <2>2, <4>1
      <4>2. CASE r # p
        <5>1. built'[r] = built[r] /\ built[r] \in AllStreams
          BY <2>5, <4>2 DEF PipeTypes
        <5>2. built[r] = House \/ pipes[built[r]] = r
          BY <2>5, <3>1, <4>2, <5>1
        <5> QED BY <5>2 DEF Pristine
      <4> QED BY <4>1, <4>2
    <3> QED BY <1>0, <2>1, <2>2, <2>3, <2>5, <3>1 DEF Pristine, svars
  <2>14. Spawning'
    BY <1>0, <2>1, <2>2, <2>3, <2>5 DEF Spawning, HandlerTypes
  <2>15. Reapers' BY <2>1, <2>2, <2>5 DEF Reapers, svars
  <2>16. Orphaned'
    <3> SUFFICES ASSUME NEW r \in Pipes, built'[r] # House, reap[r] # "done",
                        pipes'[built'[r]] # r
                 PROVE  \/ step[r] \in Holding /\ victim[r] = r
                        \/ taker[r] \notin {NoPipe, r} /\ Struck(built[r])'
      BY <2>1 DEF Orphaned, svars
    <3>1. r # p BY <2>5
    <3>2. built'[r] = built[r] BY <2>5, <3>1
    <3>3. pipes[built[r]] # r
      BY <1>3, <2>5, <3>1, <3>2 DEF PipeTypes, q
    <3>4. built[r] \in AllStreams
      BY DEF PipeTypes
    <3> QED BY <2>s, <3>2, <3>3, <3>4 DEF Orphaned
  <2> QED
    BY <2>7, <2>8, <2>9, <2>10, <2>11, <2>12, <2>13, <2>14, <2>15, <2>16
<1> QED BY <1>1, <1>2, <1>3

LEMMA StepSpawn ==
  ASSUME IInv, NEW h \in Handlers, Spawn(h)
  PROVE  IInv'
<1> USE PipelineAssumption DEF IInv, TypeOK, AllStreams, AllPipes, Stoppers, Holding
<1>0. /\ got[h] \in Pipes /\ built[got[h]] # House /\ run[got[h]] = "off" /\ reap[got[h]] = "off"
      /\ step[got[h]] = "idle"
  BY DEF Spawn, Spawning, Reapers
<1>a. /\ run' = [run EXCEPT ![got[h]] = "top"] /\ reap' = [reap EXCEPT ![got[h]] = "fresh"]
      /\ wg' = wg + 2 /\ pc' = [pc EXCEPT ![h] = "register"]
      /\ UNCHANGED <<row, pipes, built, hubClosed, busClosed, cancelled, audience, step,
                     target, victim, taker, want, got, tries, told, main>>
  BY DEF Spawn, Goto, svars
<1>1. TypeOK'
  <2>1. PipeTypes'
    BY <1>a DEF PipeTypes
  <2>2. RunTypes'
    BY <1>0, <1>a DEF RunTypes
  <2>3. StopTypes'
    BY <1>a DEF StopTypes
  <2>4. HandlerTypes'
    BY <1>a DEF HandlerTypes, Phases
  <2> QED BY <2>1, <2>2, <2>3, <2>4
<1>2. RegisteredAlive'
  BY <1>0, <1>a DEF RegisteredAlive, Dead
<1>3. Accounted'
  BY <1>0, <1>a DEF Accounted
<1>4. StaleReaper'
  BY <1>0, <1>a DEF StaleReaper, Struck
<1>5. CleanExit'
  BY <1>0, <1>a DEF CleanExit, RunTypes
<1>6. Counted'
  <2>1. Running' = Running \cup {got[h]} /\ Reaping' = Reaping \cup {got[h]}
    BY <1>0, <1>a DEF Running, Reaping, RunTypes
  <2>2. /\ Running \in SUBSET Pipes /\ Reaping \in SUBSET Pipes
        /\ got[h] \notin Running /\ got[h] \notin Reaping
    BY <1>0 DEF Running, Reaping
  <2>3. /\ Cardinality(Running \cup {got[h]}) = Cardinality(Running) + 1
        /\ Cardinality(Reaping \cup {got[h]}) = Cardinality(Reaping) + 1
    BY <1>0, <2>2, CountUp
  <2>4. /\ Cardinality(Running) \in Nat /\ Cardinality(Reaping) \in Nat
        /\ wg = Cardinality(Running) + Cardinality(Reaping)
    BY <2>2, PipesFinite DEF Counted
  <2>5. wg' = Cardinality(Running \cup {got[h]}) + Cardinality(Reaping \cup {got[h]})
    BY <1>a, <2>3, <2>4
  <2> QED BY <2>1, <2>5 DEF Counted
<1>7. Exclusive'
  BY <1>0, <1>a DEF Exclusive
<1>8. Pristine'
  BY <1>0, <1>a DEF Pristine, RunTypes
<1>9. Spawning'
  <2> SUFFICES ASSUME NEW g \in Handlers
               PROVE  pc'[g] = "spawn" =>
                           /\ got[g] \in Pipes /\ built[got[g]] # House
                           /\ run'[got[g]] = "off" /\ reap'[got[g]] = "off"
                           /\ \A k \in Handlers \ {g} : pc'[k] = "spawn" => got[k] # got[g]
    BY <1>a DEF Spawning
  <2>1. pc'[h] = "register" /\ \A k \in Handlers \ {h} : pc'[k] = pc[k]
    BY <1>a DEF HandlerTypes
  <2>2. pc[h] = "spawn"
    BY DEF Spawn
  <2>3. g # h /\ pc[g] = "spawn" => got[g] # got[h]
    BY <2>2 DEF Spawning
  <2> QED BY <1>0, <1>a, <2>1, <2>3 DEF Spawning, RunTypes
<1>10. Reapers'
  BY <1>0, <1>a DEF Reapers, RunTypes
<1>11. Orphaned'
  BY <1>0, <1>a DEF Orphaned, Struck, RunTypes
<1> QED
  BY <1>1, <1>2, <1>3, <1>4, <1>5, <1>6, <1>7, <1>8, <1>9, <1>10, <1>11

LEMMA StepCreateStream ==
  ASSUME IInv, NEW s \in Streams, CreateStream(s)
  PROVE  IInv'
<1> USE PipelineAssumption DEF IInv, TypeOK, AllStreams, AllPipes, Stoppers, Holding
<1>1. TypeOK'
  <2>1. PipeTypes'
    BY DEF CreateStream, hvars, svars, PipeTypes, StopTypes
  <2>2. RunTypes'
    BY DEF CreateStream, hvars, svars, RunTypes, StopTypes
  <2>3. StopTypes'
    BY DEF CreateStream, hvars, svars, StopTypes, Steps, PipeTypes
  <2>4. HandlerTypes'
    BY DEF CreateStream, hvars, svars, HandlerTypes, Phases, StopTypes
  <2> QED BY <2>1, <2>2, <2>3, <2>4
<1>2. RegisteredAlive'
  BY DEF CreateStream, hvars, svars, RegisteredAlive, Dead, PipeTypes, StopTypes
<1>3. Accounted'
  BY DEF CreateStream, hvars, svars, Accounted, PipeTypes, StopTypes
<1>4. StaleReaper'
  BY DEF CreateStream, hvars, svars, StaleReaper, Struck, PipeTypes, StopTypes
<1>5. CleanExit'
  BY DEF CreateStream, hvars, svars, CleanExit, RunTypes
<1>6. Counted'
  BY DEF CreateStream, hvars, svars, Counted, Running, Reaping, RunTypes
<1>7. Exclusive'
  BY DEF CreateStream, hvars, svars, Exclusive, PipeTypes, StopTypes
<1>8. Pristine'
  BY DEF CreateStream, hvars, svars, Pristine, PipeTypes, RunTypes
<1>9. Spawning'
  BY DEF CreateStream, hvars, svars, Spawning, PipeTypes, RunTypes, HandlerTypes
<1>10. Reapers'
  BY DEF CreateStream, hvars, svars, Reapers, PipeTypes, RunTypes, StopTypes
<1>11. Orphaned'
  BY DEF CreateStream, hvars, svars, Orphaned, Struck, PipeTypes, RunTypes,
       StopTypes
<1> QED
  BY <1>1, <1>2, <1>3, <1>4, <1>5, <1>6, <1>7, <1>8, <1>9, <1>10, <1>11

LEMMA StepDeleteStream ==
  ASSUME IInv, NEW d \in Deleters, NEW s \in AllStreams, DeleteStream(d, s)
  PROVE  IInv'
<1> USE PipelineAssumption DEF IInv, TypeOK, AllStreams, AllPipes, Stoppers, Holding
<1>1. TypeOK'
  <2>1. PipeTypes'
    BY DEF DeleteStream, hvars, PipeTypes, StopTypes
  <2>2. RunTypes'
    BY DEF DeleteStream, hvars, RunTypes, StopTypes
  <2>3. StopTypes'
    BY DEF DeleteStream, hvars, StopTypes, Steps, PipeTypes
  <2>4. HandlerTypes'
    BY DEF DeleteStream, hvars, HandlerTypes, Phases, StopTypes
  <2> QED BY <2>1, <2>2, <2>3, <2>4
<1>2. RegisteredAlive'
  BY DEF DeleteStream, hvars, RegisteredAlive, Dead, PipeTypes, StopTypes
<1>3. Accounted'
  BY DEF DeleteStream, hvars, Accounted, PipeTypes, StopTypes
<1>4. StaleReaper'
  BY DEF DeleteStream, hvars, StaleReaper, Struck, PipeTypes, StopTypes
<1>5. CleanExit'
  BY DEF DeleteStream, hvars, CleanExit, RunTypes
<1>6. Counted'
  BY DEF DeleteStream, hvars, Counted, Running, Reaping, RunTypes
<1>7. Exclusive'
  BY DEF DeleteStream, hvars, Exclusive, PipeTypes, StopTypes
<1>8. Pristine'
  BY DEF DeleteStream, hvars, Pristine, PipeTypes, RunTypes
<1>9. Spawning'
  BY DEF DeleteStream, hvars, Spawning, PipeTypes, RunTypes, HandlerTypes
<1>10. Reapers'
  BY DEF DeleteStream, hvars, Reapers, PipeTypes, RunTypes, StopTypes
<1>11. Orphaned'
  BY DEF DeleteStream, hvars, Orphaned, Struck, PipeTypes, RunTypes, StopTypes
<1> QED
  BY <1>1, <1>2, <1>3, <1>4, <1>5, <1>6, <1>7, <1>8, <1>9, <1>10, <1>11

\* Leaving stopPipeline ends a reaper's goroutine, and only a reaper's.
LEMMA Returning ==
  ASSUME IInv, NEW x \in Stoppers, step[x] \in {"take"} \cup Holding,
         Return(x), run' = run, main' = main
  PROVE  /\ RunTypes' /\ Counted'
         /\ \A p \in Pipes \ {x} : reap'[p] = reap[p]
         /\ x \in Pipes => reap[x] = "stopping" /\ reap'[x] = "done" /\ built[x] # House
<1> USE PipelineAssumption DEF IInv, TypeOK, Stoppers, Holding
<1>1. CASE x \in Deleters
  <2>1. wg' = wg /\ reap' = reap
    BY <1>1 DEF Return
  <2> QED BY <1>1, <2>1 DEF RunTypes, Counted, Running, Reaping
<1>2. CASE x \in Pipes
  <2>1. reap[x] = "stopping" /\ built[x] # House
    BY <1>2 DEF Reapers, Pristine
  <2>2. reap' = [reap EXCEPT ![x] = "done"] /\ wg' = wg - 1
    BY <1>2 DEF Return
  <2>3. x \in Reaping
    BY <1>2, <2>1 DEF Reaping
  <2>4. Counted' /\ wg' \in Nat
    BY <1>2, <2>2, <2>3, ReaperDone
  <2> QED BY <1>2, <2>1, <2>2, <2>4 DEF RunTypes
<1> QED BY <1>1, <1>2

\* A stream that a delete has struck stays struck: only a pipeline in the map is taken.
LEMMA StruckStays ==
  ASSUME IInv, built' = built, NEW q \in Pipes, pipes[built[q]] = q,
         \A r \in Pipes \ {q} : taker'[r] = taker[r], NEW s \in AllStreams, Struck(s)
  PROVE  Struck(s)'
<1>1. PICK r \in Pipes : built[r] = s /\ taker[r] \in Deleters
  BY DEF Struck
<1>2. r # q
  BY <1>1, PipelineAssumption DEF IInv, Pristine
<1> QED BY <1>1, <1>2 DEF Struck

\* What a stopper takes out of the map is its own pipeline, or a delete struck the stream.
LEMMA StepTakeOut ==
  ASSUME IInv, NEW x \in Stoppers, TakeOut(x)
  PROVE  IInv'
<1> USE PipelineAssumption DEF IInv, TypeOK, AllStreams, AllPipes, Stoppers, Holding
<1> DEFINE q == pipes[target[x]]
<1>0. /\ step[x] = "take" /\ target[x] \in AllStreams /\ q \in AllPipes \cup {NoPipe}
      /\ UNCHANGED <<row, built, hubClosed, busClosed, cancelled, audience, run, pc, want,
                     got, tries, told, main>>
  BY DEF TakeOut, hvars, StopTypes, PipeTypes
<1>1. CASE q = NoPipe \/ q = HousePipe
  <2>1. Return(x) /\ pipes' = pipes /\ taker' = taker
    BY <1>1 DEF TakeOut
  <2>2. /\ RunTypes' /\ Counted'
        /\ \A p \in Pipes \ {x} : reap'[p] = reap[p]
        /\ x \in Pipes => reap[x] = "stopping" /\ reap'[x] = "done" /\ built[x] # House
    BY <1>0, <2>1, Returning
  <2>3. /\ step' \in [Stoppers -> Steps] /\ target' \in [Stoppers -> AllStreams]
        /\ victim' \in [Stoppers -> AllPipes \cup {NoPipe}]
        /\ step'[x] = IF x \in Deleters THEN "row" ELSE "idle"
        /\ \A y \in Stoppers \ {x} : /\ step'[y] = step[y] /\ target'[y] = target[y]
                                     /\ victim'[y] = victim[y]
        /\ x \in Deleters => target' = target
    BY <2>1 DEF Return, StopTypes, Steps
  <2>4. \A s \in AllStreams : Struck(s) => Struck(s)'
    BY <1>0, <2>1 DEF Struck
  <2> HIDE DEF q
  <2>5. TypeOK'
    BY <1>0, <2>1, <2>2, <2>3 DEF PipeTypes, StopTypes, HandlerTypes
  <2>6. RegisteredAlive' BY <1>0, <2>1 DEF RegisteredAlive, Dead
  <2>7. Accounted' BY <1>0, <2>1, <2>3 DEF Accounted
  <2>8. StaleReaper' BY <2>1, <2>3, <2>4 DEF StaleReaper, StopTypes
  <2>9. CleanExit' BY <1>0 DEF CleanExit
  <2>10. Exclusive' BY <1>0, <2>1, <2>3 DEF Exclusive
  <2>11. Pristine' BY <1>0, <2>1, <2>2 DEF Pristine
  <2>12. Spawning' BY <1>0, <2>2 DEF Spawning
  <2>13. Reapers' BY <1>0, <2>2, <2>3 DEF Reapers
  <2>14. Orphaned'
    <3> SUFFICES ASSUME NEW r \in Pipes, built[r] # House, reap'[r] # "done",
                        pipes[built[r]] # r
                 PROVE  \/ step'[r] \in Holding /\ victim'[r] = r
                        \/ taker'[r] \notin {NoPipe, r} /\ Struck(built[r])'
      BY <1>0, <2>1 DEF Orphaned
    <3>1. r # x /\ reap[r] # "done" /\ built[r] \in AllStreams
      BY <2>2 DEF PipeTypes
    <3>2. \/ step[r] \in Holding /\ victim[r] = r
          \/ taker[r] \notin {NoPipe, r} /\ Struck(built[r])
      BY <3>1 DEF Orphaned
    <3> QED BY <2>1, <2>3, <2>4, <3>1, <3>2, <1>0
  <2> QED
    BY <2>2, <2>5, <2>6, <2>7, <2>8, <2>9, <2>10, <2>11, <2>12, <2>13, <2>14
<1>2. CASE q # NoPipe /\ q # HousePipe
  <2>1. /\ pipes' = [pipes EXCEPT ![target[x]] = NoPipe]
        /\ victim' = [victim EXCEPT ![x] = q] /\ step' = [step EXCEPT ![x] = "publish"]
        /\ taker' = [taker EXCEPT ![q] = x]
        /\ UNCHANGED <<target, reap, wg>>
    BY <1>2 DEF TakeOut
  <2>2. /\ q \in Pipes /\ built[q] = target[x] /\ target[x] # House
        /\ q \notin cancelled /\ ~Dead(q)
    BY <1>0, <1>2 DEF RegisteredAlive
  <2>3. /\ pipes' \in [AllStreams -> AllPipes \cup {NoPipe}]
        /\ pipes'[target[x]] = NoPipe
        /\ \A s \in AllStreams \ {target[x]} : pipes'[s] = pipes[s]
        /\ step' \in [Stoppers -> Steps] /\ victim' \in [Stoppers -> AllPipes \cup {NoPipe}]
        /\ step'[x] = "publish" /\ victim'[x] = q
        /\ \A y \in Stoppers \ {x} : step'[y] = step[y] /\ victim'[y] = victim[y]
    BY <1>0, <2>1, <2>2 DEF PipeTypes, StopTypes, Steps
  <2>t. /\ taker' \in [Pipes -> Stoppers \cup {NoPipe}] /\ taker'[q] = x
        /\ \A r \in Pipes \ {q} : taker'[r] = taker[r]
    BY <2>1, <2>2 DEF StopTypes
  <2>4. \A s \in AllStreams : Struck(s) => Struck(s)'
    BY <1>0, <2>2, <2>t, StruckStays
  <2>5. q # x => Struck(target[x])' /\ (x \in Pipes => taker[x] \notin {NoPipe, x})
    <3>1. CASE x \in Deleters
      <4>1. built'[q] = target'[x] /\ taker'[q] \in Deleters
        BY <1>0, <2>1, <2>2, <2>t, <3>1
      <4> QED BY <2>2, <3>1, <4>1 DEF Struck
    <3>2. CASE x \in Pipes /\ q # x
      <4>1. reap[x] = "stopping" /\ target[x] = built[x] /\ built[x] # House
        BY <1>0, <3>2 DEF Reapers, Pristine
      <4>2. taker[x] \notin {NoPipe, x} /\ Struck(built[x])
        BY <1>0, <3>2, <4>1 DEF Orphaned
      <4>3. Struck(target[x]) /\ target'[x] = target[x]
        BY <2>1, <4>1, <4>2
      <4>4. Struck(target[x])'
        BY <1>0, <2>4, <4>3 DEF Struck
      <4> QED BY <4>2, <4>4
    <3> QED BY <3>1, <3>2
  <2>6. \A y \in Stoppers : step[y] \in Holding => victim[y] # q
    BY <2>2 DEF Exclusive
  <2> HIDE DEF q
  <2>7. TypeOK'
    BY <1>0, <2>1, <2>3, <2>t DEF PipeTypes, RunTypes, StopTypes, HandlerTypes
  <2>8. RegisteredAlive' BY <1>0, <2>2, <2>3 DEF RegisteredAlive, Dead
  <2>9. Accounted'
    <3> SUFFICES ASSUME NEW r \in Pipes, built[r] # House, r \notin cancelled
                 PROVE  \/ pipes'[built[r]] = r
                        \/ \E y \in Stoppers : step'[y] \in Holding /\ victim'[y] = r
      BY <1>0 DEF Accounted
    <3>1. CASE r = q BY <2>3, <3>1
    <3>2. CASE r # q /\ pipes[built[r]] = r
      BY <2>3, <3>2 DEF PipeTypes, q
    <3>3. CASE \E y \in Stoppers : step[y] \in Holding /\ victim[y] = r
      BY <1>0, <2>3, <3>3
    <3> QED BY <3>1, <3>2, <3>3 DEF Accounted
  <2>10. StaleReaper'
    <3> SUFFICES ASSUME NEW p \in Pipes, step'[p] \in Holding, victim'[p] # p
                 PROVE  taker'[p] \notin {NoPipe, p} /\ Struck(target[p])'
      BY <2>1 DEF StaleReaper
    <3>1. CASE p = x BY <2>3, <2>5, <2>t, <3>1
    <3>2. CASE p # x
      <4>1. taker[p] \notin {NoPipe, p} /\ Struck(target[p]) /\ target[p] \in AllStreams
        BY <2>3, <3>2 DEF StaleReaper, StopTypes
      <4>2. p # q
        BY <2>2, <4>1, <1>2 DEF Pristine, q
      <4>3. Struck(target[p])'
        BY <2>1, <2>4, <4>1 DEF Struck
      <4> QED BY <2>t, <4>1, <4>2, <4>3
    <3> QED BY <3>1, <3>2
  <2>11. CleanExit' /\ Counted'
    BY <1>0, <2>1 DEF CleanExit, Counted, Running, Reaping
  <2>12. Exclusive'
    <3> SUFFICES ASSUME NEW y \in Stoppers, step'[y] \in Holding
                 PROVE  /\ victim'[y] \in Pipes /\ built[victim'[y]] # House
                        /\ pipes'[built[victim'[y]]] # victim'[y]
                        /\ \A z \in Stoppers \ {y} : step'[z] \in Holding =>
                                                       victim'[z] # victim'[y]
      BY <1>0 DEF Exclusive
    <3>1. CASE y = x
      BY <2>2, <2>3, <2>6, <3>1
    <3>2. CASE y # x
      <4>1. /\ step[y] \in Holding /\ victim'[y] = victim[y] /\ victim[y] # q
            /\ victim[y] \in Pipes /\ built[victim[y]] # House
            /\ built[victim[y]] \in AllStreams
            /\ pipes[built[victim[y]]] # victim[y]
        BY <2>3, <2>6, <3>2 DEF Exclusive, PipeTypes
      <4>2. pipes'[built[victim[y]]] # victim[y]
        BY <2>3, <4>1
      <4>3. \A z \in Stoppers \ {y} : step'[z] \in Holding => victim'[z] # victim[y]
        BY <2>3, <4>1 DEF Exclusive
      <4> QED BY <4>1, <4>2, <4>3
    <3> QED BY <3>1, <3>2
  <2>13. Pristine'
    <3> SUFFICES ASSUME NEW r \in Pipes, built[r] = House \/ pipes'[built[r]] = r
                 PROVE  taker'[r] = NoPipe
      BY <1>0, <2>1 DEF Pristine
    <3>1. r # q
      BY <2>2, <2>3
    <3>2. built[r] = House \/ pipes[built[r]] = r
      BY <2>3 DEF PipeTypes
    <3> QED BY <2>t, <3>1, <3>2 DEF Pristine
  <2>14. Spawning' BY <1>0, <2>1 DEF Spawning
  <2>15. Reapers' BY <1>0, <2>1, <2>3 DEF Reapers
  <2>16. Orphaned'
    <3> SUFFICES ASSUME NEW r \in Pipes, built[r] # House, reap[r] # "done",
                        pipes'[built[r]] # r
                 PROVE  \/ step'[r] \in Holding /\ victim'[r] = r
                        \/ taker'[r] \notin {NoPipe, r} /\ Struck(built[r])'
      BY <1>0, <2>1 DEF Orphaned
    <3>1. CASE r = q
      <4>1. CASE x = q BY <2>3, <3>1, <4>1
      <4>2. CASE x # q
        <5>1. Struck(target[x])'
          BY <2>5, <4>2
        <5>2. target'[x] = built'[q]
          BY <1>0, <2>1, <2>2
        <5>3. PICK p \in Pipes : built'[p] = target'[x] /\ taker'[p] \in Deleters
          BY <5>1 DEF Struck
        <5>4. x \notin {NoPipe, q}
          BY <4>2
        <5>5. built'[p] = built'[r]
          BY <3>1, <5>2, <5>3
        <5>6. Struck(built[r])'
          BY <5>3, <5>5 DEF Struck
        <5> QED BY <2>t, <3>1, <5>4, <5>6
      <4> QED BY <4>1, <4>2
    <3>2. CASE r # q
      <4>1. pipes[built[r]] # r /\ built[r] \in AllStreams
        BY <2>3, <3>2 DEF PipeTypes, q
      <4>2. \/ step[r] \in Holding /\ victim[r] = r
            \/ taker[r] \notin {NoPipe, r} /\ Struck(built[r])
        BY <4>1 DEF Orphaned
      <4> QED BY <1>0, <2>3, <2>4, <2>t, <3>2, <4>1, <4>2
    <3> QED BY <3>1, <3>2
  <2> QED
    BY <2>7, <2>8, <2>9, <2>10, <2>11, <2>12, <2>13, <2>14, <2>15, <2>16
<1> QED BY <1>1, <1>2

LEMMA StepPublishClosed ==
  ASSUME IInv, NEW x \in Stoppers, PublishClosed(x)
  PROVE  IInv'
<1> USE PipelineAssumption DEF IInv, TypeOK, AllStreams, AllPipes, Stoppers, Holding
<1>0. victim[x] \in AllPipes
  BY DEF PublishClosed, Exclusive
<1>1. TypeOK'
  <2>1. PipeTypes'
    BY DEF PublishClosed, hvars, PipeTypes, StopTypes
  <2>2. RunTypes'
    BY DEF PublishClosed, hvars, RunTypes, StopTypes
  <2>3. StopTypes'
    BY DEF PublishClosed, hvars, StopTypes, Steps, PipeTypes
  <2>4. HandlerTypes'
    BY <1>0 DEF PublishClosed, hvars, HandlerTypes
  <2> QED BY <2>1, <2>2, <2>3, <2>4
<1>2. RegisteredAlive'
  BY DEF PublishClosed, hvars, RegisteredAlive, Dead, PipeTypes, StopTypes
<1>3. Accounted'
  BY DEF PublishClosed, hvars, Accounted, PipeTypes, StopTypes
<1>4. StaleReaper'
  BY DEF PublishClosed, hvars, StaleReaper, Struck, PipeTypes, StopTypes
<1>5. CleanExit'
  BY DEF PublishClosed, hvars, CleanExit, RunTypes
<1>6. Counted'
  BY DEF PublishClosed, hvars, Counted, Running, Reaping, RunTypes
<1>7. Exclusive'
  BY DEF PublishClosed, hvars, Exclusive, PipeTypes, StopTypes
<1>8. Pristine'
  BY DEF PublishClosed, hvars, Pristine, PipeTypes, RunTypes
<1>9. Spawning'
  BY DEF PublishClosed, hvars, Spawning, PipeTypes, RunTypes, HandlerTypes
<1>10. Reapers'
  BY DEF PublishClosed, hvars, Reapers, PipeTypes, RunTypes, StopTypes
<1>11. Orphaned'
  BY DEF PublishClosed, hvars, Orphaned, Struck, PipeTypes, RunTypes, StopTypes
<1> QED
  BY <1>1, <1>2, <1>3, <1>4, <1>5, <1>6, <1>7, <1>8, <1>9, <1>10, <1>11

LEMMA StepCloseHub ==
  ASSUME IInv, NEW x \in Stoppers, CloseHub(x)
  PROVE  IInv'
<1> USE PipelineAssumption DEF IInv, TypeOK, AllStreams, AllPipes, Stoppers, Holding
<1>0. /\ victim[x] \in Pipes /\ built[victim[x]] # House /\ pipes[built[victim[x]]] # victim[x]
  BY DEF CloseHub, Exclusive
<1>a. \A s \in AllStreams : pipes[s] # victim[x]
  BY <1>0 DEF RegisteredAlive, PipeTypes
<1>1. TypeOK'
  <2>1. PipeTypes'
    BY <1>0 DEF CloseHub, hvars, PipeTypes
  <2>2. RunTypes'
    BY DEF CloseHub, hvars, RunTypes, StopTypes
  <2>3. StopTypes'
    BY DEF CloseHub, hvars, StopTypes, Steps, PipeTypes
  <2>4. HandlerTypes'
    BY DEF CloseHub, hvars, HandlerTypes, Phases, StopTypes
  <2> QED BY <2>1, <2>2, <2>3, <2>4
<1>2. RegisteredAlive'
  BY <1>0, <1>a DEF CloseHub, hvars, RegisteredAlive, Dead, StopTypes
<1>3. Accounted'
  BY DEF CloseHub, hvars, Accounted, PipeTypes, StopTypes
<1>4. StaleReaper'
  BY DEF CloseHub, hvars, StaleReaper, Struck, PipeTypes, StopTypes
<1>5. CleanExit'
  BY DEF CloseHub, hvars, CleanExit, RunTypes
<1>6. Counted'
  BY DEF CloseHub, hvars, Counted, Running, Reaping, RunTypes
<1>7. Exclusive'
  BY DEF CloseHub, hvars, Exclusive, PipeTypes, StopTypes
<1>8. Pristine'
  BY <1>0 DEF CloseHub, hvars, Pristine, StopTypes, PipeTypes, RunTypes
<1>9. Spawning'
  BY DEF CloseHub, hvars, Spawning, PipeTypes, RunTypes, HandlerTypes
<1>10. Reapers'
  BY DEF CloseHub, hvars, Reapers, PipeTypes, RunTypes, StopTypes
<1>11. Orphaned'
  BY DEF CloseHub, hvars, Orphaned, Struck, PipeTypes, RunTypes, StopTypes
<1> QED
  BY <1>1, <1>2, <1>3, <1>4, <1>5, <1>6, <1>7, <1>8, <1>9, <1>10, <1>11

LEMMA StepCloseBus ==
  ASSUME IInv, NEW x \in Stoppers, CloseBus(x)
  PROVE  IInv'
<1> USE PipelineAssumption DEF IInv, TypeOK, AllStreams, AllPipes, Stoppers, Holding
<1>0. /\ victim[x] \in Pipes /\ built[victim[x]] # House /\ pipes[built[victim[x]]] # victim[x]
  BY DEF CloseBus, Exclusive
<1>a. \A s \in AllStreams : pipes[s] # victim[x]
  BY <1>0 DEF RegisteredAlive, PipeTypes
<1>1. TypeOK'
  <2>1. PipeTypes'
    BY <1>0 DEF CloseBus, hvars, PipeTypes
  <2>2. RunTypes'
    BY DEF CloseBus, hvars, RunTypes, StopTypes
  <2>3. StopTypes'
    BY DEF CloseBus, hvars, StopTypes, Steps, PipeTypes
  <2>4. HandlerTypes'
    BY DEF CloseBus, hvars, HandlerTypes, Phases, StopTypes
  <2> QED BY <2>1, <2>2, <2>3, <2>4
<1>2. RegisteredAlive'
  BY <1>0, <1>a DEF CloseBus, hvars, RegisteredAlive, Dead, StopTypes
<1>3. Accounted'
  BY DEF CloseBus, hvars, Accounted, PipeTypes, StopTypes
<1>4. StaleReaper'
  BY DEF CloseBus, hvars, StaleReaper, Struck, PipeTypes, StopTypes
<1>5. CleanExit'
  BY DEF CloseBus, hvars, CleanExit, RunTypes
<1>6. Counted'
  BY DEF CloseBus, hvars, Counted, Running, Reaping, RunTypes
<1>7. Exclusive'
  BY DEF CloseBus, hvars, Exclusive, PipeTypes, StopTypes
<1>8. Pristine'
  BY <1>0 DEF CloseBus, hvars, Pristine, StopTypes, PipeTypes, RunTypes
<1>9. Spawning'
  BY DEF CloseBus, hvars, Spawning, PipeTypes, RunTypes, HandlerTypes
<1>10. Reapers'
  BY DEF CloseBus, hvars, Reapers, PipeTypes, RunTypes, StopTypes
<1>11. Orphaned'
  BY DEF CloseBus, hvars, Orphaned, Struck, PipeTypes, RunTypes, StopTypes
<1> QED
  BY <1>1, <1>2, <1>3, <1>4, <1>5, <1>6, <1>7, <1>8, <1>9, <1>10, <1>11

LEMMA StepCancelPipe ==
  ASSUME IInv, NEW x \in Stoppers, CancelPipe(x)
  PROVE  IInv'
<1> USE PipelineAssumption DEF IInv, TypeOK, AllStreams, AllPipes, Stoppers, Holding
<1>0. /\ victim[x] \in Pipes /\ built[victim[x]] # House /\ pipes[built[victim[x]]] # victim[x]
  BY DEF CancelPipe, Exclusive
<1>a. \A s \in AllStreams : pipes[s] # victim[x]
  BY <1>0 DEF RegisteredAlive, PipeTypes
<1>b. /\ RunTypes' /\ Counted'
      /\ \A p \in Pipes \ {x} : reap'[p] = reap[p]
      /\ x \in Pipes => reap[x] = "stopping" /\ reap'[x] = "done" /\ built[x] # House
  BY Returning DEF CancelPipe
<1>1. TypeOK'
  <2>1. PipeTypes'
    BY <1>0 DEF CancelPipe, Return, hvars, PipeTypes
  <2>2. RunTypes'
    BY <1>b
  <2>3. StopTypes'
    BY DEF CancelPipe, Return, hvars, StopTypes, Steps, PipeTypes
  <2>4. HandlerTypes'
    BY DEF CancelPipe, Return, hvars, HandlerTypes, Phases, StopTypes
  <2> QED BY <2>1, <2>2, <2>3, <2>4
<1>2. RegisteredAlive'
  BY <1>0, <1>a DEF CancelPipe, Return, hvars, RegisteredAlive, Dead, StopTypes
<1>3. Accounted'
  BY DEF CancelPipe, Return, hvars, Accounted, PipeTypes, StopTypes
<1>4. StaleReaper'
  BY DEF CancelPipe, Return, hvars, StaleReaper, Struck, PipeTypes, StopTypes
<1>5. CleanExit'
  BY DEF CancelPipe, Return, hvars, CleanExit, RunTypes
<1>6. Counted'
  BY <1>b
<1>7. Exclusive'
  BY DEF CancelPipe, Return, hvars, Exclusive, PipeTypes, StopTypes
<1>8. Pristine'
  BY <1>0, <1>b DEF CancelPipe, Pristine, PipeTypes
<1>9. Spawning'
  BY <1>b DEF CancelPipe, hvars, Spawning
<1>10. Reapers'
  BY DEF CancelPipe, Return, hvars, Reapers, PipeTypes, RunTypes, StopTypes
<1>11. Orphaned'
  BY DEF CancelPipe, Return, hvars, Orphaned, Struck, PipeTypes, RunTypes,
       StopTypes
<1> QED
  BY <1>1, <1>2, <1>3, <1>4, <1>5, <1>6, <1>7, <1>8, <1>9, <1>10, <1>11

LEMMA StepDropRow ==
  ASSUME IInv, NEW d \in Deleters, DropRow(d)
  PROVE  IInv'
<1> USE PipelineAssumption DEF IInv, TypeOK, AllStreams, AllPipes, Stoppers, Holding
<1>a. UNCHANGED <<built, taker>>
  BY DEF DropRow
<1>b. \A p \in Pipes : step'[p] = step[p] /\ target'[p] = target[p] /\ victim'[p] = victim[p]
  BY DEF DropRow, StopTypes
<1>1. TypeOK'
  <2>1. PipeTypes'
    BY DEF DropRow, hvars, PipeTypes, StopTypes
  <2>2. RunTypes'
    BY DEF DropRow, hvars, RunTypes, StopTypes
  <2>3. StopTypes'
    BY DEF DropRow, hvars, StopTypes, Steps, PipeTypes
  <2>4. HandlerTypes'
    BY DEF DropRow, hvars, HandlerTypes, Phases, StopTypes
  <2> QED BY <2>1, <2>2, <2>3, <2>4
<1>2. RegisteredAlive'
  BY DEF DropRow, hvars, RegisteredAlive, Dead, PipeTypes, StopTypes
<1>3. Accounted'
  BY DEF DropRow, hvars, Accounted, PipeTypes, StopTypes
<1>4. StaleReaper'
  BY <1>a, <1>b DEF StaleReaper, Struck
<1>5. CleanExit'
  BY DEF DropRow, hvars, CleanExit, RunTypes
<1>6. Counted'
  BY DEF DropRow, hvars, Counted, Running, Reaping, RunTypes
<1>7. Exclusive'
  BY DEF DropRow, hvars, Exclusive, PipeTypes, StopTypes
<1>8. Pristine'
  BY DEF DropRow, hvars, Pristine, PipeTypes, RunTypes
<1>9. Spawning'
  BY DEF DropRow, hvars, Spawning, PipeTypes, RunTypes, HandlerTypes
<1>10. Reapers'
  BY DEF DropRow, hvars, Reapers, PipeTypes, RunTypes, StopTypes
<1>11. Orphaned'
  BY <1>a, <1>b DEF DropRow, Orphaned, Struck
<1> QED
  BY <1>1, <1>2, <1>3, <1>4, <1>5, <1>6, <1>7, <1>8, <1>9, <1>10, <1>11

LEMMA StepTick ==
  ASSUME IInv, NEW p \in Pipes, Tick(p)
  PROVE  IInv'
<1> USE PipelineAssumption DEF IInv, TypeOK, AllStreams, AllPipes, Stoppers, Holding
<1>1. TypeOK'
  <2>1. PipeTypes'
    BY DEF Tick, Ticking, hvars, svars, PipeTypes, StopTypes
  <2>2. RunTypes'
    BY DEF Tick, Ticking, hvars, svars, RunTypes, StopTypes
  <2>3. StopTypes'
    BY DEF Tick, Ticking, hvars, svars, StopTypes, Steps, PipeTypes
  <2>4. HandlerTypes'
    BY DEF Tick, Ticking, hvars, svars, HandlerTypes, Phases, StopTypes
  <2> QED BY <2>1, <2>2, <2>3, <2>4
<1>2. RegisteredAlive'
  BY DEF Tick, Ticking, hvars, svars, RegisteredAlive, Dead, PipeTypes, StopTypes
<1>3. Accounted'
  BY DEF Tick, Ticking, hvars, svars, Accounted, PipeTypes, StopTypes
<1>4. StaleReaper'
  BY DEF Tick, Ticking, hvars, svars, StaleReaper, Struck, PipeTypes, StopTypes
<1>5. CleanExit'
  BY DEF Tick, Ticking, hvars, svars, CleanExit, RunTypes
<1>6. Counted'
  BY DEF Tick, Ticking, hvars, svars, Counted, Running, Reaping, RunTypes
<1>7. Exclusive'
  BY DEF Tick, Ticking, hvars, svars, Exclusive, PipeTypes, StopTypes
<1>8. Pristine'
  BY DEF Tick, Ticking, hvars, svars, Pristine, PipeTypes, RunTypes
<1>9. Spawning'
  BY DEF Tick, Ticking, hvars, svars, Spawning, PipeTypes, RunTypes, HandlerTypes
<1>10. Reapers'
  BY DEF Tick, Ticking, hvars, svars, Reapers, PipeTypes, RunTypes, StopTypes
<1>11. Orphaned'
  BY DEF Tick, Ticking, hvars, svars, Orphaned, Struck, PipeTypes, RunTypes,
       StopTypes
<1> QED
  BY <1>1, <1>2, <1>3, <1>4, <1>5, <1>6, <1>7, <1>8, <1>9, <1>10, <1>11

LEMMA StepExpire ==
  ASSUME IInv, NEW p \in Pipes, Expire(p)
  PROVE  IInv'
<1> USE PipelineAssumption DEF IInv, TypeOK, AllStreams, AllPipes, Stoppers, Holding
<1>a. /\ reap[p] = "idle" /\ step[p] = "idle" /\ reap' = [reap EXCEPT ![p] = "stopping"]
      /\ step' = [step EXCEPT ![p] = "take"] /\ target' = [target EXCEPT ![p] = built[p]]
      /\ UNCHANGED <<row, pipes, built, cancelled, victim>>
  BY DEF Expire, Reapers
<1>b. /\ \A r \in Pipes : reap'[r] # "done" <=> reap[r] # "done"
      /\ \A y \in Stoppers : step'[y] \in Holding <=> step[y] \in Holding
      /\ \A y \in Deleters : step'[y] = step[y] /\ target'[y] = target[y]
  BY <1>a DEF RunTypes, StopTypes
<1>1. TypeOK'
  <2>1. PipeTypes'
    BY DEF Expire, hvars, PipeTypes, StopTypes
  <2>2. RunTypes'
    BY DEF Expire, hvars, RunTypes, StopTypes
  <2>3. StopTypes'
    BY DEF Expire, hvars, StopTypes, Steps, PipeTypes
  <2>4. HandlerTypes'
    BY DEF Expire, hvars, HandlerTypes, Phases, StopTypes
  <2> QED BY <2>1, <2>2, <2>3, <2>4
<1>2. RegisteredAlive'
  BY DEF Expire, hvars, RegisteredAlive, Dead, PipeTypes, StopTypes
<1>3. Accounted'
  BY <1>a, <1>b DEF Accounted
<1>4. StaleReaper'
  BY DEF Expire, hvars, StaleReaper, Struck, PipeTypes, StopTypes
<1>5. CleanExit'
  BY DEF Expire, hvars, CleanExit, RunTypes
<1>6. Counted'
  BY DEF Expire, hvars, Counted, Running, Reaping, RunTypes
<1>7. Exclusive'
  BY DEF Expire, hvars, Exclusive, PipeTypes, StopTypes
<1>8. Pristine'
  BY DEF Expire, hvars, Pristine, PipeTypes, RunTypes
<1>9. Spawning'
  BY DEF Expire, hvars, Spawning, PipeTypes, RunTypes, HandlerTypes
<1>10. Reapers'
  BY DEF Expire, hvars, Reapers, PipeTypes, RunTypes, StopTypes
<1>11. Orphaned'
  BY <1>a, <1>b DEF Orphaned, Struck, Expire
<1> QED
  BY <1>1, <1>2, <1>3, <1>4, <1>5, <1>6, <1>7, <1>8, <1>9, <1>10, <1>11

LEMMA StepReaperExit ==
  ASSUME IInv, NEW p \in Pipes, ReaperExit(p)
  PROVE  IInv'
<1> USE PipelineAssumption DEF IInv, TypeOK, AllStreams, AllPipes, Stoppers, Holding
<1>a. Counted' /\ wg' \in Nat
  BY ReaperDone DEF ReaperExit, Ticking, Reaping
<1>1. TypeOK'
  <2>1. PipeTypes'
    BY DEF ReaperExit, Ticking, hvars, svars, PipeTypes, StopTypes
  <2>2. RunTypes'
    BY <1>a DEF ReaperExit, svars, hvars, RunTypes
  <2>3. StopTypes'
    BY DEF ReaperExit, Ticking, hvars, svars, StopTypes, Steps, PipeTypes
  <2>4. HandlerTypes'
    BY DEF ReaperExit, Ticking, hvars, svars, HandlerTypes, Phases, StopTypes
  <2> QED BY <2>1, <2>2, <2>3, <2>4
<1>2. RegisteredAlive'
  BY DEF ReaperExit, Ticking, hvars, svars, RegisteredAlive, Dead, PipeTypes,
       StopTypes
<1>3. Accounted'
  BY DEF ReaperExit, Ticking, hvars, svars, Accounted, PipeTypes, StopTypes
<1>4. StaleReaper'
  BY DEF ReaperExit, Ticking, hvars, svars, StaleReaper, Struck, PipeTypes,
       StopTypes
<1>5. CleanExit'
  BY DEF ReaperExit, Ticking, hvars, svars, CleanExit, RunTypes
<1>6. Counted'
  BY <1>a
<1>7. Exclusive'
  BY DEF ReaperExit, Ticking, hvars, svars, Exclusive, PipeTypes, StopTypes
<1>8. Pristine'
  BY DEF ReaperExit, Ticking, hvars, svars, Pristine, PipeTypes, RunTypes
<1>9. Spawning'
  BY DEF ReaperExit, Ticking, hvars, svars, Spawning, PipeTypes, RunTypes,
       HandlerTypes
<1>10. Reapers'
  BY DEF ReaperExit, Ticking, hvars, svars, Reapers, PipeTypes, RunTypes, StopTypes
<1>11. Orphaned'
  BY DEF ReaperExit, Ticking, hvars, svars, Orphaned, Struck, PipeTypes, RunTypes,
       StopTypes
<1> QED
  BY <1>1, <1>2, <1>3, <1>4, <1>5, <1>6, <1>7, <1>8, <1>9, <1>10, <1>11

LEMMA StepRunLoop ==
  ASSUME IInv, NEW p \in Pipes, RunLoop(p)
  PROVE  IInv'
<1> USE PipelineAssumption DEF IInv, TypeOK, AllStreams, AllPipes, Stoppers, Holding
<1>a. Counted' /\ wg' \in Nat
  <2>1. Running \in SUBSET Pipes /\ Reaping \in SUBSET Pipes /\ Reaping' = Reaping
    BY DEF RunLoop, Running, Reaping
  <2>2. CASE run[p] = "top" /\ wg' = wg - 1 /\ run' = [run EXCEPT ![p] = "returned"]
    <3>1. Running' = Running \ {p} /\ p \in Running
      BY <2>2 DEF Running, RunTypes
    <3>2. /\ Cardinality(Running \ {p}) = Cardinality(Running) - 1
          /\ Cardinality(Running) >= 1
      BY <2>1, <3>1, CountDown
    <3>3. /\ Cardinality(Running) \in Nat /\ Cardinality(Reaping) \in Nat
          /\ wg = Cardinality(Running) + Cardinality(Reaping)
      BY <2>1, PipesFinite DEF Counted
    <3>4. wg' = Cardinality(Running \ {p}) + Cardinality(Reaping) /\ wg' \in Nat
      BY <2>2, <3>2, <3>3
    <3> QED BY <2>1, <3>1, <3>4 DEF Counted
  <2>3. CASE /\ wg' = wg /\ run[p] \in {"top", "playing"}
             /\ \/ run' = [run EXCEPT ![p] = "playing"]
                \/ run' = [run EXCEPT ![p] = "top"]
    <3>1. Running' = Running
      BY <2>3 DEF Running, RunTypes
    <3> QED BY <2>1, <2>3, <3>1 DEF Counted, RunTypes
  <2> QED BY <2>2, <2>3 DEF RunLoop
<1>1. TypeOK'
  <2>1. PipeTypes'
    BY DEF RunLoop, CtxDone, hvars, svars, PipeTypes, StopTypes
  <2>2. RunTypes'
    BY <1>a DEF RunLoop, RunTypes
  <2>3. StopTypes'
    BY DEF RunLoop, CtxDone, hvars, svars, StopTypes, Steps, PipeTypes
  <2>4. HandlerTypes'
    BY DEF RunLoop, CtxDone, hvars, svars, HandlerTypes, Phases, StopTypes
  <2> QED BY <2>1, <2>2, <2>3, <2>4
<1>2. RegisteredAlive'
  BY DEF RunLoop, CtxDone, hvars, svars, RegisteredAlive, Dead, PipeTypes, StopTypes
<1>3. Accounted'
  BY DEF RunLoop, CtxDone, hvars, svars, Accounted, PipeTypes, StopTypes
<1>4. StaleReaper'
  BY DEF RunLoop, CtxDone, hvars, svars, StaleReaper, Struck, PipeTypes, StopTypes
<1>5. CleanExit'
  BY DEF RunLoop, CtxDone, hvars, svars, CleanExit, RunTypes
<1>6. Counted'
  BY <1>a
<1>7. Exclusive'
  BY DEF RunLoop, CtxDone, hvars, svars, Exclusive, PipeTypes, StopTypes
<1>8. Pristine'
  BY DEF RunLoop, CtxDone, hvars, svars, Pristine, PipeTypes, RunTypes
<1>9. Spawning'
  BY DEF RunLoop, CtxDone, hvars, svars, Spawning, PipeTypes, RunTypes, HandlerTypes
<1>10. Reapers'
  BY DEF RunLoop, CtxDone, hvars, svars, Reapers, PipeTypes, RunTypes, StopTypes
<1>11. Orphaned'
  BY DEF RunLoop, CtxDone, hvars, svars, Orphaned, Struck, PipeTypes, RunTypes,
       StopTypes
<1> QED
  BY <1>1, <1>2, <1>3, <1>4, <1>5, <1>6, <1>7, <1>8, <1>9, <1>10, <1>11

LEMMA StepShutdown ==
  ASSUME IInv, Shutdown
  PROVE  IInv'
<1> USE PipelineAssumption DEF IInv, TypeOK, AllStreams, AllPipes, Stoppers, Holding
<1>1. TypeOK'
  <2>1. PipeTypes'
    BY DEF Shutdown, hvars, svars, PipeTypes, StopTypes
  <2>2. RunTypes'
    BY DEF Shutdown, hvars, svars, RunTypes, StopTypes
  <2>3. StopTypes'
    BY DEF Shutdown, hvars, svars, StopTypes, Steps, PipeTypes
  <2>4. HandlerTypes'
    BY DEF Shutdown, hvars, svars, HandlerTypes, Phases, StopTypes
  <2> QED BY <2>1, <2>2, <2>3, <2>4
<1>2. RegisteredAlive'
  BY DEF Shutdown, hvars, svars, RegisteredAlive, Dead, PipeTypes, StopTypes
<1>3. Accounted'
  BY DEF Shutdown, hvars, svars, Accounted, PipeTypes, StopTypes
<1>4. StaleReaper'
  BY DEF Shutdown, hvars, svars, StaleReaper, Struck, PipeTypes, StopTypes
<1>5. CleanExit'
  <2>1. CASE main = "stopping" /\ wg = 0 /\ run' = run
    <3>1. Running \in SUBSET Pipes /\ Reaping \in SUBSET Pipes
      BY DEF Running, Reaping
    <3>2. Cardinality(Running) \in Nat /\ Cardinality(Reaping) \in Nat /\ IsFiniteSet(Running)
      BY <3>1, PipesFinite
    <3>3. Cardinality(Running) = 0
      BY <2>1, <3>2 DEF Counted
    <3>4. Running = {}
      BY <3>2, <3>3, FS_EmptySet
    <3> QED BY <2>1, <3>4 DEF CleanExit, Running
  <2> QED BY <2>1 DEF Shutdown, CleanExit
<1>6. Counted'
  BY DEF Shutdown, hvars, svars, Counted, Running, Reaping, RunTypes
<1>7. Exclusive'
  BY DEF Shutdown, hvars, svars, Exclusive, PipeTypes, StopTypes
<1>8. Pristine'
  BY DEF Shutdown, hvars, svars, Pristine, PipeTypes, RunTypes
<1>9. Spawning'
  BY DEF Shutdown, hvars, svars, Spawning, PipeTypes, RunTypes, HandlerTypes
<1>10. Reapers'
  BY DEF Shutdown, hvars, svars, Reapers, PipeTypes, RunTypes, StopTypes
<1>11. Orphaned'
  BY DEF Shutdown, hvars, svars, Orphaned, Struck, PipeTypes, RunTypes, StopTypes
<1> QED
  BY <1>1, <1>2, <1>3, <1>4, <1>5, <1>6, <1>7, <1>8, <1>9, <1>10, <1>11

-----------------------------------------------------------------------------
LEMMA InitIInv == Init => IInv
<1> SUFFICES ASSUME Init PROVE IInv
  OBVIOUS
<1> USE PipelineAssumption DEF Init, AllStreams, AllPipes, Stoppers, Holding
<1>1. TypeOK
  <2>1. 0 \in 0 .. Attempts - 1 /\ 0 \in Nat
    OBVIOUS
  <2> QED
    BY <2>1 DEF TypeOK, PipeTypes, RunTypes, StopTypes, HandlerTypes, Phases, Steps
<1>2. RegisteredAlive /\ Accounted /\ StaleReaper /\ CleanExit
  BY DEF RegisteredAlive, Dead, Accounted, StaleReaper, CleanExit
<1>3. Counted
  <2>1. Running = {} /\ Reaping = {} /\ wg = 0
    BY DEF Running, Reaping
  <2> QED
    BY <2>1, FS_EmptySet DEF Counted
<1>4. Exclusive /\ Pristine /\ Spawning /\ Reapers
  BY DEF Exclusive, Pristine, Spawning, Reapers
<1>5. Orphaned
  BY DEF Orphaned
<1> QED
  BY <1>1, <1>2, <1>3, <1>4, <1>5 DEF IInv

\* A step that changes nothing.
LEMMA Stutter == ASSUME IInv, UNCHANGED vars PROVE IInv'
<1> USE DEF vars, hvars, svars, IInv
<1>1. HandlerTypes' BY DEF TypeOK, HandlerTypes
<1>2. Spawning' BY DEF Spawning
<1>3. /\ PipeTypes' /\ RunTypes' /\ StopTypes'
      /\ RegisteredAlive' /\ Accounted' /\ StaleReaper' /\ CleanExit' /\ Counted'
      /\ Exclusive' /\ Pristine' /\ Reapers' /\ Orphaned'
  BY HandlerFrame
<1> QED BY <1>1, <1>2, <1>3 DEF TypeOK

LEMMA StepIInv == IInv /\ [Next]_vars => IInv'
<1> SUFFICES ASSUME IInv, [Next]_vars PROVE IInv'
  OBVIOUS
<1>1. ASSUME NEW h \in Handlers, Handle(h) \/ Leave(h) PROVE IInv'
  BY <1>1, StepLookup, StepReadRow, StepEnsure, StepSpawn, StepRegister, StepCheck,
     StepDropped, StepLeave DEF Handle
<1>2. ASSUME NEW h \in Handlers, NEW s \in Requested, Arrive(h, s) PROVE IInv'
  BY <1>2, StepArrive
<1>3. ASSUME NEW s \in Streams, CreateStream(s) PROVE IInv'
  BY <1>3, StepCreateStream
<1>4. ASSUME NEW d \in Deleters, DropRow(d) \/ \E s \in AllStreams : DeleteStream(d, s)
      PROVE  IInv'
  BY <1>4, StepDropRow, StepDeleteStream
<1>5. ASSUME NEW x \in Stoppers, StopStep(x) PROVE IInv'
  BY <1>5, StepTakeOut, StepPublishClosed, StepCloseHub, StepCloseBus, StepCancelPipe
     DEF StopStep
<1>6. ASSUME NEW p \in Pipes, Tick(p) \/ Expire(p) \/ ReaperExit(p) \/ RunLoop(p)
      PROVE  IInv'
  BY <1>6, StepTick, StepExpire, StepReaperExit, StepRunLoop
<1>7. CASE Shutdown
  BY <1>7, StepShutdown
<1>8. CASE UNCHANGED vars
  BY <1>8, Stutter
<1> QED
  BY <1>1, <1>2, <1>3, <1>4, <1>5, <1>6, <1>7, <1>8 DEF Next

-----------------------------------------------------------------------------
\* The inductive invariant holds in every reachable state, for every value of
\* the constants.
THEOREM Safe == Spec => []IInv
  BY InitIInv, StepIInv, PTL DEF Spec

\* Every variable keeps its type; in particular the WaitGroup never goes below
\* zero, which would panic the server.
THEOREM TypeCorrect == Spec => []TypeOK
  BY Safe, PTL DEF IInv

\* What ensurePipeline's fast path finds in the map is never a torn-down pipeline.
THEOREM MapIsAlive == Spec => []RegisteredAlive
  BY Safe, PTL DEF IInv

\* Every pipeline ever built is cancelled, registered or about to be cancelled by
\* the stopPipeline that took it out: no interleaving leaks an encoder.
THEOREM NothingLeaks == Spec => []Accounted
  BY Safe, PTL DEF IInv

\* A reaper stops a pipeline other than its own only after a delete.
THEOREM ReapersAreExact == Spec => []StaleReaper
  BY Safe, PTL DEF IInv

\* Once WaitForPipelines has succeeded no lazily started hub plays.
THEOREM CleanShutdown == Spec => []CleanExit
  BY Safe, PTL DEF IInv

-----------------------------------------------------------------------------
(* Inside a fan-out.                                                       *)

\* Receiving the head of an increasing buffer leaves an increasing one, all of
\* it newer than what was received and still from the old buffer.
LEMMA TailIncreasing ==
  ASSUME NEW s \in Seq(Nat), s # << >>, Increasing(s)
  PROVE  /\ Increasing(Tail(s))
         /\ \A i \in DOMAIN Tail(s) :
              /\ i + 1 \in DOMAIN s
              /\ Tail(s)[i] = s[i + 1]
              /\ Head(s) < Tail(s)[i]
<1>1. /\ Len(s) \in Nat \ {0}
      /\ Tail(s) \in Seq(Nat)
      /\ Len(Tail(s)) = Len(s) - 1
      /\ \A i \in 1 .. Len(s) - 1 : Tail(s)[i] = s[i + 1]
      /\ Head(s) = s[1]
  OBVIOUS
<1>2. DOMAIN Tail(s) = 1 .. Len(s) - 1 /\ DOMAIN s = 1 .. Len(s)
  BY <1>1
<1>3. \A i \in 1 .. Len(s) - 1 : i + 1 \in 1 .. Len(s) /\ i + 1 # 1
  BY <1>1
<1>4. \A i, j \in 1 .. Len(s) : i < j => s[i] < s[j]
  BY <1>2 DEF Increasing
<1>5. \A i, j \in 1 .. Len(s) - 1 : i < j => Tail(s)[i] < Tail(s)[j]
  BY <1>1, <1>3, <1>4
<1>6. \A i \in 1 .. Len(s) - 1 : s[1] < s[i + 1]
  BY <1>1, <1>3, <1>4
<1>7. QED
  BY <1>1, <1>2, <1>3, <1>5, <1>6 DEF Increasing

\* Buffering a number above everything buffered keeps a buffer increasing.
LEMMA AppendIncreasing ==
  ASSUME NEW s \in Seq(Nat), NEW n \in Nat, Increasing(s),
         \A i \in DOMAIN s : s[i] < n
  PROVE  /\ Append(s, n) \in Seq(Nat)
         /\ Len(Append(s, n)) = Len(s) + 1
         /\ Increasing(Append(s, n))
         /\ \A i \in DOMAIN Append(s, n) :
              \/ i \in DOMAIN s /\ Append(s, n)[i] = s[i]
              \/ Append(s, n)[i] = n
<1>1. /\ Append(s, n) \in Seq(Nat)
      /\ Len(Append(s, n)) = Len(s) + 1
      /\ DOMAIN Append(s, n) = 1 .. Len(s) + 1
      /\ DOMAIN s = 1 .. Len(s)
      /\ \A i \in 1 .. Len(s) : Append(s, n)[i] = s[i]
      /\ Append(s, n)[Len(s) + 1] = n
  OBVIOUS
<1>2. QED
  BY <1>1 DEF Increasing

-----------------------------------------------------------------------------
LEMMA InitFanOut == FanOutInit => FanOutInv
<1> SUFFICES ASSUME FanOutInit PROVE FanOutInv
  OBVIOUS
<1>1. /\ << >> \in Seq(Nat) /\ Len(<< >>) = 0 /\ DOMAIN << >> = {}
  OBVIOUS
<1>2. \A c \in Clients : buf[c] = << >> /\ last[c] = 0
  BY DEF FanOutInit
<1>3. FanOutTypeOK
  <2>1. buf \in [Clients -> Seq(Nat)] /\ \A c \in Clients : Len(buf[c]) <= Capacity
    BY <1>1, <1>2, FanOutAssumption DEF FanOutInit
  <2>2. /\ chan \in [Clients -> {"none", "open", "closed"}]
        /\ phase \in [Clients -> ClientPhases]
        /\ last \in [Clients -> Nat]
    BY DEF FanOutInit, ClientPhases
  <2> QED
    BY <2>1, <2>2 DEF FanOutInit, FanOutTypeOK
<1>4. InOrder
  <2>1. \A c \in Clients : DOMAIN buf[c] = {}
    BY <1>1, <1>2
  <2>2. \A c \in Clients : Increasing(buf[c])
    BY <2>1 DEF Increasing
  <2>3. \A c \in Clients : last[c] <= sent
    <3>1. sent = 0 /\ \A c \in Clients : last[c] = 0
      BY <1>2 DEF FanOutInit
    <3>2. 0 <= 0
      OBVIOUS
    <3> QED
      BY <3>1, <3>2, Zenon
  <2>4. \A c \in Clients : \A i \in DOMAIN buf[c] : buf[c][i] \in last[c] + 1 .. sent
    BY <2>1
  <2> QED
    BY <2>2, <2>3, <2>4 DEF InOrder
<1> QED
  BY <1>3, <1>4 DEF FanOutInit, FanOutInv, NoPanic, Ownership, Fresh

LEMMA StepFanOut == FanOutInv /\ [FanOutNext]_fanOutVars => FanOutInv'
<1> SUFFICES ASSUME FanOutInv, [FanOutNext]_fanOutVars PROVE FanOutInv'
  OBVIOUS
<1> USE FanOutAssumption DEF FanOutInv, NoPanic
<1>1. ASSUME NEW c \in Clients, Listen(c) PROVE FanOutInv'
  <2>1. FanOutTypeOK' BY <1>1 DEF Listen, FanOutTypeOK, ClientPhases
  <2>2. NoPanic' BY <1>1 DEF Listen
  <2>3. Ownership' BY <1>1 DEF Listen, FanOutTypeOK, Ownership
  <2>4. InOrder' BY <1>1 DEF Listen, FanOutTypeOK, InOrder, Fresh, Increasing
  <2>5. Fresh' BY <1>1 DEF Listen, FanOutTypeOK, Fresh
  <2> QED BY <2>1, <2>2, <2>3, <2>4, <2>5
<1>2. ASSUME NEW c \in Clients, LookAgain(c) \/ EndOfFeed(c) \/ Disconnect(c) PROVE FanOutInv'
  <2>1. FanOutTypeOK' BY <1>2 DEF LookAgain, EndOfFeed, Disconnect, FanOutTypeOK, ClientPhases
  <2>2. NoPanic' BY <1>2 DEF LookAgain, EndOfFeed, Disconnect
  <2>3. Ownership' BY <1>2 DEF LookAgain, EndOfFeed, Disconnect, FanOutTypeOK, Ownership
  <2>4. InOrder' BY <1>2 DEF LookAgain, EndOfFeed, Disconnect, InOrder
  <2>5. Fresh' BY <1>2 DEF LookAgain, EndOfFeed, Disconnect, FanOutTypeOK, Fresh
  <2> QED BY <2>1, <2>2, <2>3, <2>4, <2>5
<1>3. ASSUME NEW c \in Clients, Read(c) PROVE FanOutInv'
  <2>0. /\ buf[c] \in Seq(Nat) /\ buf[c] # << >> /\ Increasing(buf[c])
        /\ Len(buf[c]) \in Nat \ {0} /\ Head(buf[c]) = buf[c][1] /\ 1 \in DOMAIN buf[c]
        /\ Tail(buf[c]) \in Seq(Nat) /\ Len(Tail(buf[c])) = Len(buf[c]) - 1
    BY <1>3 DEF Read, FanOutTypeOK, InOrder
  <2>1. FanOutTypeOK' BY <1>3, <2>0 DEF Read, FanOutTypeOK
  <2>2. NoPanic' BY <1>3 DEF Read
  <2>3. Ownership' BY <1>3 DEF Read, Ownership
  <2>4. InOrder'
    <3>1. buf'[c] = Tail(buf[c]) /\ last'[c] = buf[c][1] /\ sent' = sent
      BY <1>3, <2>0 DEF Read, FanOutTypeOK
    <3>2. \A d \in Clients \ {c} : buf'[d] = buf[d] /\ last'[d] = last[d]
      BY <1>3 DEF Read, FanOutTypeOK
    <3>3. /\ Increasing(Tail(buf[c]))
          /\ \A i \in DOMAIN Tail(buf[c]) : /\ i + 1 \in DOMAIN buf[c]
                                            /\ Tail(buf[c])[i] = buf[c][i + 1]
                                            /\ buf[c][1] < Tail(buf[c])[i]
      BY <2>0, TailIncreasing
    <3>4. \A i \in DOMAIN buf[c] : buf[c][i] \in last[c] + 1 .. sent
      BY DEF InOrder
    <3>5. last[c] \in Nat /\ sent \in Nat
      BY DEF FanOutTypeOK
    <3>6. /\ \A i \in DOMAIN Tail(buf[c]) : Tail(buf[c])[i] \in buf[c][1] + 1 .. sent
          /\ buf[c][1] <= sent
      BY <2>0, <3>3, <3>4, <3>5
    <3>7. QED
      BY <3>1, <3>2, <3>3, <3>6 DEF InOrder
  <2>5. Fresh' BY <1>3 DEF Read, FanOutTypeOK, Fresh
  <2> QED BY <2>1, <2>2, <2>3, <2>4, <2>5
<1>4. ASSUME NEW c \in Clients, Cancel(c) PROVE FanOutInv'
  <2>1. FanOutTypeOK' BY <1>4 DEF Cancel, FanOutTypeOK, ClientPhases
  <2>2. NoPanic' BY <1>4 DEF Cancel
  <2>3. Ownership' BY <1>4 DEF Cancel, FanOutTypeOK, Ownership
  <2>4. InOrder' BY <1>4 DEF Cancel, InOrder
  <2>5. Fresh' BY <1>4 DEF Cancel, FanOutTypeOK, Fresh
  <2> QED BY <2>1, <2>2, <2>3, <2>4, <2>5
<1>5. ASSUME NEW c \in Clients, CloseOwn(c) PROVE FanOutInv'
  <2>1. FanOutTypeOK' BY <1>5 DEF CloseOwn, FanOutTypeOK, ClientPhases
  <2>2. NoPanic' BY <1>5 DEF CloseOwn, Ownership
  <2>3. Ownership' BY <1>5 DEF CloseOwn, FanOutTypeOK, Ownership
  <2>4. InOrder' BY <1>5 DEF CloseOwn, InOrder
  <2>5. Fresh' BY <1>5 DEF CloseOwn, FanOutTypeOK, Fresh
  <2> QED BY <2>1, <2>2, <2>3, <2>4, <2>5
<1>6. ASSUME Close PROVE FanOutInv'
  <2>1. FanOutTypeOK' BY <1>6 DEF Close, FanOutTypeOK
  <2>2. NoPanic' BY <1>6 DEF Close, FanOutTypeOK, Ownership
  <2>3. Ownership' BY <1>6 DEF Close, FanOutTypeOK, Ownership
  <2>4. InOrder' BY <1>6 DEF Close, InOrder
  <2>5. Fresh' BY <1>6 DEF Close, Fresh
  <2> QED BY <2>1, <2>2, <2>3, <2>4, <2>5
<1>7. ASSUME Broadcast PROVE FanOutInv'
  <2>0. ASSUME NEW c \in Clients
        PROVE  /\ buf'[c] \in Seq(Nat) /\ Len(buf'[c]) <= Capacity
               /\ Increasing(buf'[c])
               /\ \A i \in DOMAIN buf'[c] : buf'[c][i] \in last[c] + 1 .. sent + 1
    <3>1. /\ buf[c] \in Seq(Nat) /\ Len(buf[c]) \in Nat /\ Len(buf[c]) <= Capacity
          /\ last[c] \in Nat /\ sent \in Nat /\ last[c] <= sent
          /\ Increasing(buf[c])
          /\ \A i \in DOMAIN buf[c] : buf[c][i] \in last[c] + 1 .. sent
      BY DEF FanOutTypeOK, InOrder
    <3>2. CASE c \in listeners /\ Len(buf[c]) < Capacity
      <4>1. buf'[c] = Append(buf[c], sent + 1)
        BY <1>7, <3>2 DEF Broadcast
      <4>2. \A i \in DOMAIN buf[c] : buf[c][i] < sent + 1
        BY <3>1
      <4>3. sent + 1 \in Nat
        BY <3>1
      <4>4. /\ buf'[c] \in Seq(Nat) /\ Len(buf'[c]) = Len(buf[c]) + 1
            /\ Increasing(buf'[c])
            /\ \A i \in DOMAIN buf'[c] :
                 \/ i \in DOMAIN buf[c] /\ buf'[c][i] = buf[c][i]
                 \/ buf'[c][i] = sent + 1
        BY <3>1, <4>1, <4>2, <4>3, AppendIncreasing
      <4>5. Len(buf'[c]) <= Capacity
        BY <3>1, <3>2, <4>4, FanOutAssumption
      <4>6. \A i \in DOMAIN buf'[c] : buf'[c][i] \in last[c] + 1 .. sent + 1
        <5> TAKE i \in DOMAIN buf'[c]
        <5>1. CASE i \in DOMAIN buf[c] /\ buf'[c][i] = buf[c][i]
          <6>1. buf[c][i] \in last[c] + 1 .. sent
            BY <3>1, <5>1
          <6> QED BY <3>1, <5>1, <6>1
        <5>2. CASE buf'[c][i] = sent + 1
          BY <3>1, <5>2
        <5> QED BY <4>4, <5>1, <5>2
      <4>7. QED
        BY <4>4, <4>5, <4>6
    <3>3. CASE ~(c \in listeners /\ Len(buf[c]) < Capacity)
      BY <1>7, <3>1, <3>3 DEF Broadcast
    <3> QED BY <3>2, <3>3
  <2>1. FanOutTypeOK'
    BY <1>7, <2>0 DEF Broadcast, FanOutTypeOK, ClientPhases
  <2>2. NoPanic' BY <1>7 DEF Broadcast, FanOutTypeOK, Ownership
  <2>3. Ownership' BY <1>7 DEF Broadcast, Ownership
  <2>4. InOrder' BY <1>7, <2>0 DEF Broadcast, InOrder, FanOutTypeOK
  <2>5. Fresh' BY <1>7 DEF Broadcast, Fresh, Ownership
  <2> QED BY <2>1, <2>2, <2>3, <2>4, <2>5
<1>8. CASE UNCHANGED fanOutVars
  BY <1>8 DEF fanOutVars, FanOutTypeOK, Ownership, InOrder, Fresh
<1> QED
  BY <1>1, <1>2, <1>3, <1>4, <1>5, <1>6, <1>7, <1>8 DEF FanOutNext, HandlerStep

\* The inductive invariant holds in every reachable state, for every value of
\* Clients, Capacity and MaxSent.
THEOREM FanOutSafe == FanOutSpec => []FanOutInv
  BY InitFanOut, StepFanOut, PTL DEF FanOutSpec

\* Every variable keeps its type; in particular no buffer outgrows its channel.
THEOREM FanOutTyped == FanOutSpec => []FanOutTypeOK
  BY FanOutSafe, PTL DEF FanOutInv

\* Close racing any number of cancels and broadcasts never closes a channel
\* twice and never sends on a closed one.
THEOREM NeverPanics == FanOutSpec => []NoPanic
  BY FanOutSafe, PTL DEF FanOutInv

\* A slow client loses chunks but never sees them reordered or repeated.
THEOREM FeedsInOrder == FanOutSpec => []InOrder
  BY FanOutSafe, PTL DEF FanOutInv

-----------------------------------------------------------------------------
LEMMA InitFeed == FanOutInit => Feed!Init
  BY DEF FanOutInit, Feed!Init, Status

\* Each action is an action of the feed or leaves the feed unchanged.
LEMMA StepFeed == FanOutInv /\ [FanOutNext]_fanOutVars => [Feed!Next]_Feed!vars
<1> SUFFICES ASSUME FanOutInv, [FanOutNext]_fanOutVars PROVE [Feed!Next]_Feed!vars
  OBVIOUS
<1> USE DEF FanOutInv, FanOutTypeOK, ClientPhases
<1>1. ASSUME NEW c \in Clients, Listen(c) PROVE Feed!Join(c)
  BY <1>1 DEF Listen, Feed!Join, Status
<1>2. ASSUME NEW c \in Clients,
             LookAgain(c) \/ EndOfFeed(c) \/ Disconnect(c)
      PROVE  UNCHANGED Feed!vars
  BY <1>2 DEF LookAgain, EndOfFeed, Disconnect, Feed!vars, Status
<1>3. ASSUME NEW c \in Clients, Read(c) PROVE Feed!Deliver(c)
  <2>1. /\ buf[c] \in Seq(Nat) /\ buf[c] # << >>
        /\ Head(buf[c]) = buf[c][1] /\ 1 \in DOMAIN buf[c]
    BY <1>3 DEF Read
  <2>2. Head(buf[c]) \in last[c] + 1 .. sent
    BY <2>1 DEF InOrder
  <2>3. Status[c] = "in" /\ Status' = Status
    BY <1>3 DEF Read, Status
  <2> QED
    BY <1>3, <2>2, <2>3 DEF Read, Feed!Deliver
<1>4. ASSUME NEW c \in Clients, Cancel(c) PROVE Feed!End(c) \/ UNCHANGED Feed!vars
  BY <1>4 DEF Cancel, Feed!End, Feed!vars, Status
<1>5. ASSUME NEW c \in Clients, CloseOwn(c) PROVE Feed!End(c)
  BY <1>5 DEF CloseOwn, Feed!End, Status
<1>6. ASSUME Close PROVE Feed!Shut
  BY <1>6 DEF Close, Feed!Shut, Status
<1>7. ASSUME Broadcast PROVE Feed!Publish
  BY <1>7 DEF Broadcast, Feed!Publish, Status
<1>8. CASE UNCHANGED fanOutVars
  BY <1>8 DEF fanOutVars, Feed!vars, Status
<1> QED
  BY <1>1, <1>2, <1>3, <1>4, <1>5, <1>6, <1>7, <1>8 DEF FanOutNext, HandlerStep, Feed!Next

\* The fan-out implements the safety half of LossyFeed.
THEOREM ImplementsFeed == FanOutSpec => FeedSafety
  BY InitFeed, StepFeed, FanOutSafe, PTL DEF FanOutSpec, FeedSafety
=============================================================================
