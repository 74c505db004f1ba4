--------------------------- MODULE PlaybackProofs ---------------------------
(***************************************************************************)
(* The safety of the scrobbling path, for any library, batch size, number  *)
(* of plays and number of faults: IInv of Playback is inductive.  The loop *)
(* and the drainer share only the queue, so each step leaves one half of   *)
(* the invariant alone; the lemmas of the first part say which.            *)
(***************************************************************************)
EXTENDS Playback, TLAPS

\* What is promised to a listen once it has its row.
Delivery == NothingDropped /\ DeliveredInOrder /\ DuplicatesExplained

\* What is promised to a play.
Settling == LoopInv /\ SettledOnce /\ NotForgotten

LEMMA Parts ==
  IInv <=> TypeOK /\ Settling /\ QueueInv /\ DrainInv /\ UnsentInv /\ Delivery
BY DEF IInv, Settling, Delivery

LEMMA InitHolds == Init => IInv
<1> SUFFICES ASSUME Init PROVE IInv
  OBVIOUS
<1>1. TypeOK
  <2>1. LoopTypes
    <3>1. played \in Seq(Tracks) /\ Len(played) = 0
      BY DEF Init
    <3>2. Len(played) <= MaxPlays /\ np \in 0 .. Len(played)
      BY <3>1, PlaybackAssumption DEF Init
    <3>3. todo \in SUBSET Services
      BY DEF Init
    <3> QED BY <3>1, <3>2, <3>3 DEF Init, LoopTypes
  <2>2. QueueTypes
    BY PlaybackAssumption DEF Init, QueueTypes, Services
  <2>3. DrainTypes
    BY PlaybackAssumption DEF Init, DrainTypes, Services
  <2>4. KeyTypes
    BY DEF Init, KeyTypes
  <2> QED BY <2>1, <2>2, <2>3, <2>4 DEF TypeOK
<1>2. Settling
  BY DEF Init, Settling, LoopInv, SettledOnce, NotForgotten
<1>3. QueueInv /\ DrainInv /\ UnsentInv
  BY DEF Init, QueueInv, DrainInv, UnsentInv, Done, Services
<1>4. Delivery
  BY DEF Init, Delivery, NothingDropped, DeliveredInOrder, DuplicatesExplained, Queued, Services
<1> QED BY <1>1, <1>2, <1>3, <1>4, Parts

-----------------------------------------------------------------------------
(* What a step leaves alone.                                                *)

\* The loop, while it writes no row, does not concern the queue or the drainer.
LEMMA LoopAlone ==
  ASSUME IInv, UNCHANGED <<library, queue, drainer, got, owed, faults>>,
         played' = played \/ \E t \in Tracks : played' = Append(played, t)
  PROVE  QueueInv' /\ DrainInv' /\ UnsentInv' /\ Delivery'
<1>1. /\ Len(played) \in Nat /\ Len(played') \in Nat /\ Len(played) <= Len(played')
      /\ \A n \in 1 .. Len(played) : played'[n] = played[n]
  BY DEF IInv, TypeOK, LoopTypes
<1>2. QueueInv'
  BY <1>1 DEF IInv, QueueInv, queue
<1>3. DrainInv' /\ UnsentInv'
  BY DEF IInv, DrainInv, UnsentInv, Done, queue, drainer
<1>4. \A s \in Services : Queued(s)' = Queued(s) /\ Queued(s) \subseteq owed[s]
                          /\ owed[s] \subseteq 1 .. Len(played)
  BY DEF IInv, QueueInv, Queued, queue
<1>5. \A n \in 1 .. Len(played) : Gone(n) => Gone(n)'
  BY <1>1 DEF Gone
<1>6. NothingDropped'
  BY <1>4, <1>5 DEF IInv, NothingDropped
<1>7. DeliveredInOrder'
  BY <1>4, <1>5 DEF IInv, DeliveredInOrder
<1>8. DuplicatesExplained'
  BY DEF IInv, DuplicatesExplained
<1> QED BY <1>2, <1>3, <1>6, <1>7, <1>8 DEF Delivery

\* The drainer and Last.fm's key do not concern the loop.
LEMMA DrainerAlone ==
  ASSUME IInv, UNCHANGED <<loop, owed, ripened, lost>>
  PROVE  Settling'
BY DEF IInv, Settling, LoopInv, SettledOnce, NotForgotten, loop

\* Nothing a listen depends on changes, but tracks may go and faults may happen.
LEMMA DeliveryKept ==
  ASSUME IInv, UNCHANGED <<loop, queue, got, owed>>,
         library' \subseteq library, faults' \in Nat, faults <= faults'
  PROVE  QueueInv' /\ Delivery'
<1>1. \A s \in Services : Queued(s)' = Queued(s)
  BY DEF Queued, queue
<1>2. \A n \in Plays : Gone(n) => Gone(n)'
  BY DEF Gone, loop
<1>3. QueueInv'
  BY DEF IInv, QueueInv, queue, loop
<1>4. NothingDropped'
  BY <1>1, <1>2 DEF IInv, NothingDropped, TypeOK, QueueTypes
<1>5. \A s \in Services : Queued(s) \subseteq Plays
  BY DEF IInv, TypeOK, QueueTypes, Queued, Row
<1>6. DeliveredInOrder'
  BY <1>1, <1>2, <1>5 DEF IInv, DeliveredInOrder
<1>7. DuplicatesExplained'
  BY DEF IInv, DuplicatesExplained, TypeOK, QueueTypes
<1> QED BY <1>3, <1>4, <1>6, <1>7 DEF Delivery

\* Giving a service's turn up is safe, unless it received what is still queued: then
\* it takes a fault.
LEMMA TurnEnds ==
  ASSUME IInv, NextService, UNCHANGED <<library, loop, queue, got, owed>>,
         \/ faults' = faults /\ (phase = "delete" => listens = {})
         \/ faults' = faults + 1
  PROVE  DrainTypes' /\ QueueInv' /\ DrainInv' /\ UnsentInv' /\ Delivery'
<1>1. faults' \in Nat /\ faults <= faults'
  BY DEF IInv, TypeOK, QueueTypes
<1>2. QueueInv' /\ Delivery'
  BY <1>1, DeliveryKept
<1>3. DrainTypes'
  BY PlaybackAssumption DEF IInv, TypeOK, DrainTypes, NextService, Services
<1>4. DrainInv'
  BY DEF DrainInv, NextService, queue
<1>5. UnsentInv'
  <2> SUFFICES ASSUME NEW s \in Services, NEW r \in rows[s] PROVE got[s][r.play] <= faults'
    BY DEF UnsentInv, queue
  <2>1. r.play \in Plays /\ got[s][r.play] \in Nat /\ faults \in Nat
    BY DEF IInv, TypeOK, QueueTypes, Row
  <2>2. CASE faults' = faults /\ (phase = "delete" => listens = {})
    BY <2>2 DEF IInv, UnsentInv, Done
  <2>3. CASE faults' = faults + 1
    BY <2>1, <2>3 DEF IInv, DuplicatesExplained
  <2> QED BY <2>2, <2>3
<1> QED BY <1>2, <1>3, <1>4, <1>5

-----------------------------------------------------------------------------
(* The loop.                                                                *)

\* A step of the loop that writes no row has its own half of IInv to establish.
LEMMA LoopStep ==
  ASSUME IInv, UNCHANGED <<library, queue, drainer, session, got, owed, lost, faults>>,
         played' = played \/ \E t \in Tracks : played' = Append(played, t),
         LoopTypes', ripened' \in SUBSET Plays, Settling'
  PROVE  IInv'
<1>1. TypeOK'
  BY DEF IInv, TypeOK, QueueTypes, DrainTypes, KeyTypes, queue, drainer, session
<1>2. QueueInv' /\ DrainInv' /\ UnsentInv' /\ Delivery'
  BY LoopAlone
<1> QED BY <1>1, <1>2, Parts DEF IInv, Settling, Delivery

LEMMA RipenStep == ASSUME IInv, Ripen PROVE IInv'
<1>1. np \in 1 .. Len(played) /\ np \in Plays
  BY PlaybackAssumption DEF IInv, TypeOK, LoopTypes, Ripen, Plays
<1>2. LoopTypes' /\ ripened' \in SUBSET Plays
  BY <1>1 DEF IInv, TypeOK, LoopTypes, QueueTypes, Ripen
<1>3. Settling'
  BY <1>1 DEF IInv, LoopInv, SettledOnce, NotForgotten, Settling, Ripen
<1> QED BY <1>2, <1>3, LoopStep DEF Ripen

LEMMA NextTrackStep == ASSUME IInv, NextTrack PROVE IInv'
<1>1. LoopTypes' /\ ripened' \in SUBSET Plays
  BY DEF IInv, TypeOK, LoopTypes, QueueTypes, NextTrack, ghosts
<1>2. Settling'
  BY DEF IInv, TypeOK, LoopTypes, LoopInv, SettledOnce, NotForgotten, Settling, NextTrack, ghosts
<1> QED BY <1>1, <1>2, LoopStep DEF NextTrack, ghosts

LEMMA GetTrackStep == ASSUME IInv, GetTrack PROVE IInv'
<1>1. LoopTypes' /\ ripened' \in SUBSET Plays
  BY DEF IInv, TypeOK, LoopTypes, QueueTypes, GetTrack, ghosts
<1>2. Settling'
  BY DEF IInv, LoopInv, SettledOnce, NotForgotten, Settling, GetTrack, ghosts
<1> QED BY <1>1, <1>2, LoopStep DEF GetTrack, ghosts

LEMMA SettleStep == ASSUME IInv, Settle PROVE IInv'
<1>1. LoopTypes' /\ ripened' \in SUBSET Plays
  BY DEF IInv, TypeOK, LoopTypes, QueueTypes, Settle, Active, Services, ghosts
<1>2. Settling'
  BY DEF IInv, TypeOK, LoopTypes, LoopInv, SettledOnce, NotForgotten, Settling, Settle,
         Active, Services, ghosts
<1> QED BY <1>1, <1>2, LoopStep DEF Settle, ghosts

LEMMA PlayEndsStep == ASSUME IInv, PlayEnds PROVE IInv'
<1>1. LoopTypes' /\ ripened' \in SUBSET Plays
  BY DEF IInv, TypeOK, LoopTypes, QueueTypes, PlayEnds, ghosts
<1>2. Settling'
  BY DEF IInv, LoopInv, SettledOnce, NotForgotten, Settling, PlayEnds, ghosts
<1> QED BY <1>1, <1>2, LoopStep DEF PlayEnds, ghosts

LEMMA StartStep == ASSUME IInv, Start PROVE IInv'
<1>1. ripened' \in SUBSET Plays
  BY DEF IInv, TypeOK, QueueTypes, Start, ghosts
<1>2. \A n \in ripened : n \in owed[ListenBrainz] \cup lost
  BY DEF IInv, TypeOK, LoopTypes, LoopInv, NotForgotten, Start
<1>3. CASE incoming = NoTrack
  <2>1. LoopTypes'
    <3>1. played' = played /\ np' = 0 /\ Len(played) \in Nat
      BY <1>3 DEF IInv, TypeOK, LoopTypes, Start
    <3>2. np' \in 0 .. Len(played')
      BY <3>1
    <3> QED BY <1>3, <3>1, <3>2 DEF IInv, TypeOK, LoopTypes, Start
  <2>2. \A s \in Services : 0 \notin owed[s]
    BY DEF IInv, QueueInv
  <2>3. Settling'
    BY <1>2, <1>3, <2>2 DEF IInv, LoopInv, SettledOnce, NotForgotten, Settling, Start, ghosts
  <2> QED BY <1>1, <1>3, <2>1, <2>3, LoopStep DEF Start, ghosts
<1>4. CASE incoming # NoTrack
  <2>1. incoming \in Tracks /\ Len(played) \in Nat /\ Len(played) < MaxPlays
    BY <1>4 DEF IInv, TypeOK, LoopTypes, LoopInv
  <2>2. /\ played' = Append(played, incoming) /\ played' \in Seq(Tracks)
        /\ Len(played') = Len(played) + 1 /\ np' = Len(played')
    BY <1>4, <2>1 DEF IInv, TypeOK, LoopTypes, Start
  <2>3. LoopTypes'
    <3>1. Len(played') <= MaxPlays /\ np' \in 0 .. Len(played')
      BY <2>1, <2>2, PlaybackAssumption
    <3> QED BY <1>4, <2>2, <3>1 DEF IInv, TypeOK, LoopTypes, Start
  <2>4. np' \notin ripened /\ \A s \in Services : np' \notin owed[s]
    BY <2>1, <2>2 DEF IInv, QueueInv, LoopInv
  <2>5. ripened \subseteq 1 .. Len(played')
    BY <2>1, <2>2 DEF IInv, LoopInv
  <2>6. Settling'
    BY <1>2, <1>4, <2>1, <2>2, <2>4, <2>5
    DEF LoopInv, SettledOnce, NotForgotten, Settling, Start, ghosts
  <2> QED BY <1>1, <1>4, <2>1, <2>2, <2>3, <2>6, LoopStep DEF Start, ghosts
<1> QED BY <1>3, <1>4

\* An INSERT adds the newest row of the newest play.
LEMMA EnqueueStep == ASSUME IInv, NEW s \in Services, Enqueue(s) PROVE IInv'
<1>1. /\ np \in 1 .. Len(played) /\ np \in Plays /\ np = Len(played) /\ Len(played) \in Nat
      /\ \A x \in todo : np \notin owed[x]
  BY PlaybackAssumption DEF IInv, TypeOK, LoopTypes, LoopInv, SettledOnce, Enqueue, Plays
<1>2. CASE Fault /\ lost' = lost \cup {np} /\ todo' = {} /\ pc' = "start"
           /\ UNCHANGED <<queue, owed>>
  <2>1. faults' = faults + 1 /\ faults \in Nat /\ faults' \in Nat /\ faults <= faults'
    BY <1>2 DEF Fault, IInv, TypeOK, QueueTypes
  <2>2. TypeOK'
    BY <1>1, <1>2, <2>1 DEF IInv, TypeOK, LoopTypes, QueueTypes, DrainTypes, KeyTypes,
                            Enqueue, queue, drainer, session
  <2>3. Settling'
    BY <1>2 DEF IInv, LoopInv, SettledOnce, NotForgotten, Settling, Enqueue
  <2>4. QueueInv'
    BY <1>2 DEF IInv, QueueInv, Enqueue, queue
  <2>5. DrainInv'
    BY <1>2 DEF IInv, DrainInv, Enqueue, queue, drainer
  <2>6. UnsentInv'
    BY <1>2, <2>1 DEF IInv, UnsentInv, Done, Enqueue, queue, drainer, TypeOK, QueueTypes, Row
  <2>7. Delivery'
    BY <1>2, <2>1 DEF IInv, Delivery, NothingDropped, DeliveredInOrder, DuplicatesExplained,
                      Queued, Gone, Enqueue, queue, TypeOK, QueueTypes
  <2> QED BY <2>2, <2>3, <2>4, <2>5, <2>6, <2>7 DEF IInv, Settling, Delivery
<1>3. CASE /\ rows' = [rows EXCEPT ![s] = @ \cup {[id |-> nextId, play |-> np]}]
           /\ nextId' = nextId + 1
           /\ owed' = [owed EXCEPT ![s] = @ \cup {np}]
           /\ todo' = todo \ {s}
           /\ pc' = IF todo = {s} THEN "start" ELSE "enqueue"
           /\ UNCHANGED <<lost, faults>>
  <2> DEFINE new == [id |-> nextId, play |-> np]
  <2>1. /\ new \in Row /\ new.id = nextId /\ new.play = np
        /\ nextId \in Nat /\ nextId' \in Nat
    BY <1>1, <1>3 DEF Row, IInv, TypeOK, QueueTypes
  <2> HIDE DEF new
  <2>2. /\ \A x \in Services : rows'[x] = IF x = s THEN rows[x] \cup {new} ELSE rows[x]
        /\ \A x \in Services : owed'[x] = IF x = s THEN owed[x] \cup {np} ELSE owed[x]
        /\ np \notin owed[s] /\ s \in todo
    BY <1>1, <1>3 DEF IInv, TypeOK, QueueTypes, Enqueue, new
  <2>3. TypeOK'
    <3>1. LoopTypes'
      BY <1>3 DEF IInv, TypeOK, LoopTypes, Enqueue
    <3>2. QueueTypes'
      BY <1>1, <1>3, <2>1 DEF IInv, TypeOK, QueueTypes, Enqueue, new
    <3>3. DrainTypes' /\ KeyTypes'
      BY DEF IInv, TypeOK, DrainTypes, KeyTypes, Enqueue, drainer, session
    <3> QED BY <3>1, <3>2, <3>3 DEF TypeOK
  <2>4. Settling'
    <3>1. LoopInv'
      BY <1>1, <1>3, <2>2 DEF IInv, TypeOK, LoopTypes, LoopInv, Enqueue, Services
    <3>2. SettledOnce' /\ NotForgotten'
      BY <1>1, <1>3, <2>2 DEF IInv, TypeOK, LoopTypes, SettledOnce, NotForgotten, Enqueue, Services
    <3> QED BY <3>1, <3>2 DEF Settling
  <2>5. \A x \in Services : \A r \in rows[x] : /\ r.play \in owed[x] /\ r.play \in Nat
                                             /\ r.id \in Nat /\ r.id < nextId
                                             /\ r.play <= np
    BY <1>1 DEF IInv, TypeOK, QueueTypes, QueueInv, Row, Plays
  <2>6. QueueInv'
    <3>1. \A x \in Services : owed'[x] \subseteq 1 .. Len(played)'
      BY <1>1, <2>2 DEF IInv, QueueInv, Enqueue
    <3>2. \A x \in Services : \A n \in Plays : got[x][n]' > 0 => n \in owed'[x]
      BY <2>2 DEF IInv, QueueInv, Enqueue
    <3>3. \A x \in Services : \A r \in rows'[x] : r.play \in owed'[x] /\ r.id < nextId'
      <4> SUFFICES ASSUME NEW x \in Services, NEW r \in rows'[x]
                   PROVE  r.play \in owed'[x] /\ r.id < nextId'
        OBVIOUS
      <4>1. CASE r \in rows[x]
        BY <1>3, <2>1, <2>2, <2>5, <4>1
      <4>2. CASE x = s /\ r = new
        BY <1>3, <2>1, <2>2, <4>2
      <4> QED BY <2>2, <4>1, <4>2
    <3>4. \A x \in Services : \A r, q \in rows'[x] : r.id <= q.id <=> r.play <= q.play
      <4> SUFFICES ASSUME NEW x \in Services, NEW r \in rows'[x], NEW q \in rows'[x]
                   PROVE  r.id <= q.id <=> r.play <= q.play
        OBVIOUS
      <4>1. \A y \in rows[x] : x = s => y.play < np /\ y.id < nextId
        BY <1>1, <2>2, <2>5
      <4>2. CASE r \in rows[x] /\ q \in rows[x]
        BY <4>2 DEF IInv, QueueInv
      <4>3. CASE x = s /\ (r = new \/ q = new)
        <5>1. /\ r \in rows[x] => r.id \in Nat /\ r.play \in Nat /\ r.id < nextId /\ r.play < np
              /\ q \in rows[x] => q.id \in Nat /\ q.play \in Nat /\ q.id < nextId /\ q.play < np
          BY <2>5, <4>1, <4>3
        <5>2. r \in rows[x] \/ r = new
          BY <2>2, <4>3
        <5>3. q \in rows[x] \/ q = new
          BY <2>2, <4>3
        <5>4. CASE r = new /\ q = new
          BY <1>1, <2>1, <5>4
        <5>5. CASE r = new /\ q \in rows[x]
          BY <1>1, <2>1, <5>1, <5>5
        <5>6. CASE r \in rows[x] /\ q = new
          BY <1>1, <2>1, <5>1, <5>6
        <5> QED BY <4>3, <5>2, <5>3, <5>4, <5>5, <5>6
      <4> QED BY <2>2, <4>2, <4>3
    <3> QED BY <3>1, <3>2, <3>3, <3>4 DEF QueueInv, Enqueue
  <2>7. DrainInv'
    <3>1. batch \cup listens \subseteq rows[busy] /\ busy \in Services
      BY DEF IInv, DrainInv, TypeOK, DrainTypes
    <3>2. \A r \in batch \cup listens : ~(np < r.play)
      BY <1>1, <2>5, <3>1
    <3>3. /\ UNCHANGED <<phase, batch, listens, busy, got>>
          /\ \A q \in rows'[busy] : q \in rows[busy] \/ q.play = np
          /\ rows[busy] \subseteq rows'[busy]
      BY <2>1, <2>2, <3>1 DEF Enqueue, drainer
    <3> QED BY <3>1, <3>2, <3>3 DEF IInv, DrainInv
  <2>8. \A n \in Plays : got[s][n] > 0 => n \in owed[s] /\ n < np
    BY <1>1, <2>2 DEF IInv, QueueInv, Plays
  <2>9. got[s][np] = 0
    BY <1>1, <2>8 DEF IInv, TypeOK, QueueTypes
  <2>10. UnsentInv'
    BY <1>3, <2>2, <2>9 DEF IInv, UnsentInv, Done, TypeOK, QueueTypes, Enqueue, drainer
  <2>11. \A x \in Services : Queued(x)' = IF x = s THEN Queued(x) \cup {np} ELSE Queued(x)
    BY <2>1, <2>2 DEF Queued
  <2>12. \A n \in Plays : Gone(n)' = Gone(n)
    BY DEF Gone, Enqueue
  <2>13. NothingDropped'
    BY <1>1, <2>2, <2>11, <2>12 DEF IInv, NothingDropped, Enqueue, TypeOK, QueueTypes
  <2>14. DeliveredInOrder'
    <3>1. got' = got /\ \A x \in Services : Queued(x) \subseteq Plays
      BY DEF Enqueue, Queued, IInv, TypeOK, QueueTypes, Row
    <3>2. \A n \in Plays : got[s][n] > 0 => ~(np < n)
      BY <1>1, <2>8 DEF Plays
    <3> QED BY <1>1, <2>11, <2>12, <3>1, <3>2 DEF IInv, DeliveredInOrder
  <2>15. DuplicatesExplained'
    BY <1>3 DEF IInv, DuplicatesExplained, Enqueue
  <2> QED BY <2>3, <2>4, <2>6, <2>7, <2>10, <2>13, <2>14, <2>15 DEF IInv, Settling
<1> QED BY <1>2, <1>3 DEF Enqueue

-----------------------------------------------------------------------------
(* The drainer.                                                             *)

\* A step of the drainer that leaves the loop alone has the other half to establish.
LEMMA DrainerStep ==
  ASSUME IInv, UNCHANGED <<library, loop, session, owed, ripened, lost>>,
         QueueTypes', DrainTypes', QueueInv', DrainInv', UnsentInv', Delivery'
  PROVE  IInv'
<1>1. LoopTypes' /\ KeyTypes'
  BY DEF IInv, TypeOK, LoopTypes, KeyTypes, loop, session
<1>2. Settling'
  BY DrainerAlone
<1> QED BY <1>1, <1>2 DEF IInv, TypeOK, Settling, Delivery

\* A whole turn that ends is such a step.
LEMMA TurnEndsStep ==
  ASSUME IInv, NextService, UNCHANGED <<library, loop, queue, session, ghosts>>,
         \/ faults' = faults /\ (phase = "delete" => listens = {})
         \/ faults' = faults + 1
  PROVE  IInv'
<1>1. DrainTypes' /\ QueueInv' /\ DrainInv' /\ UnsentInv' /\ Delivery'
  BY TurnEnds DEF ghosts
<1>2. QueueTypes'
  BY DEF IInv, TypeOK, QueueTypes, queue, ghosts
<1> QED BY <1>1, <1>2, DrainerStep DEF ghosts

\* Moving on inside a turn before anything was sent, or between two turns.
LEMMA DrainerMoves ==
  ASSUME IInv, UNCHANGED <<library, loop, queue, session, ghosts>>,
         faults' = faults \/ faults' = faults + 1,
         phase # "delete", phase' # "delete", DrainTypes', DrainInv'
  PROVE  IInv'
<1>1. faults' \in Nat /\ faults <= faults'
  BY DEF IInv, TypeOK, QueueTypes
<1>2. QueueInv' /\ Delivery'
  BY <1>1, DeliveryKept DEF ghosts
<1>3. QueueTypes'
  BY <1>1 DEF IInv, TypeOK, QueueTypes, queue, ghosts
<1>4. UnsentInv'
  BY <1>1 DEF IInv, UnsentInv, Done, queue, ghosts, TypeOK, QueueTypes, Row
<1> QED BY <1>2, <1>3, <1>4, DrainerStep DEF ghosts

LEMMA CycleStep == ASSUME IInv, Cycle PROVE IInv'
<1>1. DrainTypes'
  BY DEF IInv, TypeOK, DrainTypes, Cycle, Wired, Services
<1>2. DrainInv'
  BY DEF IInv, DrainInv, Cycle, queue
<1> QED BY <1>1, <1>2, DrainerMoves DEF Cycle

LEMMA PickStep == ASSUME IInv, NEW s \in Services, Pick(s) PROVE IInv'
<1>1. CASE /\ rows[s] # {} /\ busy' = s /\ batch' \in Batch(rows[s])
           /\ phase' = "resolve" /\ UNCHANGED faults
  <2>1. batch' \subseteq rows[s] /\ \A r \in batch', q \in rows[s] \ batch' : r.id < q.id
    BY <1>1 DEF Batch, Older
  <2>2. DrainTypes'
    BY <1>1, <2>1 DEF IInv, TypeOK, QueueTypes, DrainTypes, Pick
  <2>3. \A r \in batch', q \in rows[s] : q.play < r.play => q \in batch'
    <3> SUFFICES ASSUME NEW r \in batch', NEW q \in rows[s] \ batch'
                 PROVE  ~(q.play < r.play)
      OBVIOUS
    <3>1. r \in rows[s] /\ r.id < q.id
      BY <2>1
    <3>2. r.id \in Nat /\ q.id \in Nat /\ r.play \in Nat /\ q.play \in Nat
      BY <3>1 DEF IInv, TypeOK, QueueTypes, Row, Plays
    <3>3. r.play <= q.play
      BY <3>1, <3>2 DEF IInv, QueueInv
    <3> QED BY <3>2, <3>3
  <2>4. DrainInv'
    BY <1>1, <2>1, <2>3 DEF IInv, DrainInv, Pick, queue
  <2> QED BY <1>1, <2>2, <2>4, DrainerMoves DEF Pick
<1>2. CASE /\ (rows[s] = {} /\ UNCHANGED faults) \/ Fault
           /\ phase' = IF due = {s} THEN "wait" ELSE "pick"
           /\ UNCHANGED <<busy, batch>>
  <2>1. DrainTypes'
    BY <1>2 DEF IInv, TypeOK, DrainTypes, Pick
  <2>2. DrainInv'
    BY <1>2 DEF IInv, DrainInv, Pick, queue
  <2> QED BY <1>2, <2>1, <2>2, DrainerMoves DEF Pick, Fault
<1> QED BY <1>1, <1>2 DEF Pick

\* A row leaves the queue when its listen was received or its track is gone.
LEMMA RowGoes ==
  ASSUME IInv, NEW r \in rows[busy], got[busy][r.play] > 0 \/ Gone(r.play),
         rows' = [rows EXCEPT ![busy] = @ \ {r}],
         UNCHANGED <<library, loop, nextId, ghosts, faults>>
  PROVE  QueueTypes' /\ QueueInv' /\ Delivery'
<1>1. \A s \in Services : rows'[s] = IF s = busy THEN rows[s] \ {r} ELSE rows[s]
  BY DEF IInv, TypeOK, QueueTypes
<1>2. QueueTypes'
  BY <1>1 DEF IInv, TypeOK, QueueTypes, ghosts
<1>3. QueueInv'
  BY <1>1 DEF IInv, QueueInv, ghosts, loop
<1>4. \A s \in Services : /\ Queued(s)' \subseteq Queued(s)
                         /\ \A n \in Queued(s) \ Queued(s)' : s = busy /\ n = r.play
                         /\ Queued(s) \subseteq Plays
  BY <1>1 DEF Queued, IInv, TypeOK, QueueTypes, Row
<1>5. \A n \in Plays : Gone(n)' = Gone(n)
  BY DEF Gone, loop
<1>6. NothingDropped'
  BY <1>4, <1>5 DEF IInv, NothingDropped, TypeOK, QueueTypes, ghosts
<1>7. DeliveredInOrder'
  <2> SUFFICES ASSUME NEW s \in Services, NEW m \in Queued(s)', NEW n \in Plays,
                      m < n, got[s][n] > 0
               PROVE  got[s][m] > 0 \/ Gone(m)'
    BY DEF DeliveredInOrder, ghosts
  <2>1. PICK q \in rows'[s] : q.play = m
    BY DEF Queued
  <2>2. q \in rows[s] /\ q \in Row
    BY <1>1, <2>1 DEF IInv, TypeOK, QueueTypes
  <2>3. m \in Queued(s) /\ m \in Plays
    BY <2>1, <2>2 DEF Queued, Row
  <2> QED BY <1>5, <2>3 DEF IInv, DeliveredInOrder
<1>8. DuplicatesExplained'
  BY DEF IInv, DuplicatesExplained, ghosts
<1> QED BY <1>2, <1>3, <1>6, <1>7, <1>8 DEF Delivery

LEMMA ResolveStep == ASSUME IInv, Resolve PROVE IInv'
<1>1. ASSUME NEW r \in Oldest(batch), batch' = batch \ {r},
             UNCHANGED <<due, busy, phase, tries, faults>>,
             IF played[r.play] \in library
             THEN listens' = listens \cup {r} /\ UNCHANGED rows
             ELSE rows' = [rows EXCEPT ![busy] = @ \ {r}] /\ UNCHANGED listens
      PROVE  IInv'
  <2>1. /\ r \in batch /\ r \in rows[busy] /\ r \in Row /\ busy \in Services
        /\ phase = "resolve"
    BY <1>1 DEF Oldest, IInv, DrainInv, TypeOK, DrainTypes, Resolve
  <2>2. DrainTypes'
    BY <1>1, <2>1 DEF IInv, TypeOK, DrainTypes
  <2>3. CASE played[r.play] \in library
    <3>1. batch' \cup listens' = batch \cup listens
      BY <1>1, <2>1, <2>3
    <3>2. DrainInv'
      BY <1>1, <2>1, <2>3, <3>1 DEF IInv, DrainInv
    <3> QED BY <1>1, <2>1, <2>2, <2>3, <3>2, DrainerMoves DEF Resolve, queue
  <2>4. CASE played[r.play] \notin library
    <3>1. QueueTypes' /\ QueueInv' /\ Delivery'
      BY <1>1, <2>1, <2>4, RowGoes DEF Resolve, Gone
    <3>2. \A s \in Services : rows'[s] = IF s = busy THEN rows[s] \ {r} ELSE rows[s]
      BY <1>1, <2>4 DEF IInv, TypeOK, QueueTypes
    <3>3. r \notin listens
      BY <2>1 DEF IInv, DrainInv
    <3>4. DrainInv'
      BY <1>1, <2>1, <2>4, <3>2, <3>3 DEF IInv, DrainInv
    <3>5. UnsentInv'
      BY <1>1, <2>1, <3>2 DEF IInv, UnsentInv, Done, Resolve, ghosts
    <3> QED BY <2>2, <3>1, <3>4, <3>5, DrainerStep DEF Resolve, ghosts
  <2> QED BY <2>3, <2>4
<1>2. CASE /\ batch = {} /\ listens # {} /\ phase' = "submit"
           /\ UNCHANGED <<rows, due, busy, batch, listens, tries, faults>>
  <2>1. DrainTypes' /\ DrainInv'
    BY <1>2 DEF IInv, TypeOK, DrainTypes, DrainInv, Resolve
  <2> QED BY <1>2, <2>1, DrainerMoves DEF Resolve, queue
<1>3. CASE batch = {} /\ listens = {} /\ NextService /\ UNCHANGED <<rows, faults>>
  BY <1>3, TurnEndsStep DEF Resolve, queue
<1>4. CASE batch # {} /\ Fault /\ NextService /\ UNCHANGED rows
  BY <1>4, TurnEndsStep DEF Resolve, queue, Fault
<1> QED BY <1>1, <1>2, <1>3, <1>4 DEF Resolve

LEMMA DeleteStep == ASSUME IInv, Delete PROVE IInv'
<1>1. ASSUME NEW r \in Oldest(listens), rows' = [rows EXCEPT ![busy] = @ \ {r}],
             listens' = listens \ {r}, UNCHANGED <<due, phase, busy, batch, tries, faults>>
      PROVE  IInv'
  <2>1. /\ r \in listens /\ r \in rows[busy] /\ busy \in Services
        /\ phase = "delete" /\ batch = {}
        /\ got[busy][r.play] > 0
    BY <1>1 DEF Oldest, IInv, DrainInv, TypeOK, DrainTypes, Delete
  <2>2. DrainTypes'
    BY <1>1 DEF IInv, TypeOK, DrainTypes
  <2>3. QueueTypes' /\ QueueInv' /\ Delivery'
    BY <1>1, <2>1, RowGoes DEF Delete
  <2>4. \A s \in Services : rows'[s] = IF s = busy THEN rows[s] \ {r} ELSE rows[s]
    BY <1>1 DEF IInv, TypeOK, QueueTypes
  <2>5. DrainInv'
    BY <1>1, <2>1, <2>4 DEF IInv, DrainInv, Delete, ghosts
  <2>6. UnsentInv'
    BY <1>1, <2>1, <2>4 DEF IInv, UnsentInv, Done, Delete, ghosts
  <2> QED BY <2>2, <2>3, <2>5, <2>6, DrainerStep DEF Delete, ghosts
<1>2. CASE listens = {} /\ NextService /\ UNCHANGED <<rows, faults>>
  BY <1>2, TurnEndsStep DEF Delete, queue
<1>3. CASE listens # {} /\ Fault /\ NextService /\ UNCHANGED rows
  BY <1>3, TurnEndsStep DEF Delete, queue, Fault
<1> QED BY <1>1, <1>2, <1>3 DEF Delete

LEMMA TryAgainStep ==
  ASSUME IInv, TryAgain, phase = "submit",
         UNCHANGED <<library, loop, queue, session, ghosts, faults>>
  PROVE  IInv'
<1>1. CASE tries + 1 < MaxTries /\ tries' = tries + 1 /\ UNCHANGED <<due, phase, busy, batch, listens>>
  <2>1. DrainTypes'
    BY <1>1, PlaybackAssumption DEF IInv, TypeOK, DrainTypes
  <2>2. DrainInv'
    BY <1>1 DEF IInv, DrainInv, queue, ghosts
  <2> QED BY <1>1, <2>1, <2>2, DrainerMoves
<1>2. CASE NextService
  BY <1>2, TurnEndsStep
<1> QED BY <1>1, <1>2 DEF TryAgain

-----------------------------------------------------------------------------
(* Requests.                                                                *)

\* A service receives exactly the listens it is sent: rows of its queue with none
\* older left behind, so that order is kept, and rows received once per fault.
LEMMA Reception ==
  ASSUME IInv, Sends, Received, UNCHANGED <<library, loop, queue, owed, ripened, lost>>,
         faults' \in Nat, faults <= faults'
  PROVE  /\ QueueTypes' /\ QueueInv' /\ Delivery'
         /\ \A r \in listens : got'[busy][r.play] > 0
         /\ \A s \in Services : \A r \in rows[s] :
              got'[s][r.play] = IF s = busy /\ r \in listens THEN got[s][r.play] + 1
                                                          ELSE got[s][r.play]
<1> DEFINE Sent == {r.play : r \in listens}
<1>1. /\ busy \in Services /\ listens \subseteq rows[busy] /\ phase = "submit" /\ batch = {}
      /\ Sent \subseteq Plays
  BY DEF IInv, DrainInv, TypeOK, QueueTypes, DrainTypes, Sends, Row
<1>2. /\ got' \in [Services -> [Plays -> Nat]]
      /\ \A s \in Services, n \in Plays :
           got'[s][n] = IF s = busy /\ n \in Sent THEN got[s][n] + 1 ELSE got[s][n]
  BY <1>1 DEF Received, IInv, TypeOK, QueueTypes
<1>3. \A s \in Services, n \in Plays : got[s][n] \in Nat /\ got'[s][n] \in Nat
  BY <1>2 DEF IInv, TypeOK, QueueTypes
<1> HIDE DEF Sent
<1>4. QueueTypes'
  BY <1>2 DEF IInv, TypeOK, QueueTypes, queue
<1>5. Sent \subseteq owed[busy]
  BY <1>1 DEF IInv, QueueInv, Sent
<1>6. QueueInv'
  BY <1>2, <1>5 DEF IInv, QueueInv, queue, loop
<1>7. \A s \in Services : Queued(s)' = Queued(s) /\ Queued(s) \subseteq Plays
  BY DEF Queued, queue, IInv, TypeOK, QueueTypes, Row
<1>8. \A n \in Plays : Gone(n)' = Gone(n)
  BY DEF Gone, loop
<1>9. NothingDropped'
  BY <1>2, <1>3, <1>7, <1>8 DEF IInv, NothingDropped, TypeOK, QueueTypes
<1>10. DeliveredInOrder'
  <2> SUFFICES ASSUME NEW s \in Services, NEW m \in Queued(s), NEW n \in Plays,
                      m < n, got'[s][n] > 0
               PROVE  got'[s][m] > 0 \/ Gone(m)
    BY <1>7, <1>8 DEF DeliveredInOrder
  <2>1. m \in Plays /\ got[s][m] <= got'[s][m]
    BY <1>2, <1>3, <1>7
  <2>2. CASE got[s][n] > 0
    BY <1>3, <2>1, <2>2 DEF IInv, DeliveredInOrder
  <2>3. CASE s = busy /\ n \in Sent
    <3>1. PICK r \in listens : r.play = n
      BY <2>3 DEF Sent
    <3>2. PICK q \in rows[s] : q.play = m
      BY DEF Queued
    <3>3. q \in listens
      BY <1>1, <2>3, <3>1, <3>2 DEF IInv, DrainInv
    <3>4. m \in Sent
      BY <3>2, <3>3 DEF Sent
    <3> QED BY <1>2, <1>3, <2>1, <2>3, <3>4
  <2> QED BY <1>2, <2>2, <2>3
<1>11. \A s \in Services : \A r, q \in rows[s] : r.play = q.play => r = q
  <2> SUFFICES ASSUME NEW s \in Services, NEW r \in rows[s], NEW q \in rows[s],
                      r.play = q.play
               PROVE  r = q
    OBVIOUS
  <2>1. r \in Row /\ q \in Row
    BY DEF IInv, TypeOK, QueueTypes
  <2>2. r.id \in Nat /\ q.id \in Nat /\ r.play \in Nat
    BY <2>1 DEF Row, Plays
  <2>3. r.id <= q.id /\ q.id <= r.id
    BY <2>2 DEF IInv, QueueInv
  <2>4. r.id = q.id
    BY <2>2, <2>3
  <2> QED BY <2>1, <2>4 DEF Row
<1>12. \A s \in Services : \A r \in rows[s] :
         got'[s][r.play] = IF s = busy /\ r \in listens THEN got[s][r.play] + 1
                                                     ELSE got[s][r.play]
  <2> SUFFICES ASSUME NEW s \in Services, NEW r \in rows[s]
               PROVE  got'[s][r.play] = IF s = busy /\ r \in listens THEN got[s][r.play] + 1
                                                                  ELSE got[s][r.play]
    OBVIOUS
  <2>1. r.play \in Plays
    BY DEF IInv, TypeOK, QueueTypes, Row
  <2>2. s = busy => (r.play \in Sent <=> r \in listens)
    BY <1>1, <1>11 DEF Sent
  <2> QED BY <1>2, <2>1, <2>2
<1>13. \A r \in listens : got'[busy][r.play] > 0
  BY <1>1, <1>2, <1>3 DEF Sent
<1>14. DuplicatesExplained'
  <2> SUFFICES ASSUME NEW s \in Services, NEW n \in Plays PROVE got'[s][n] <= 1 + faults'
    BY DEF DuplicatesExplained
  <2>1. faults \in Nat /\ got[s][n] <= 1 + faults
    BY DEF IInv, TypeOK, QueueTypes, DuplicatesExplained
  <2>2. CASE s = busy /\ n \in Sent
    <3>1. PICK r \in listens : r.play = n
      BY <2>2 DEF Sent
    <3>2. got[s][n] <= faults
      BY <1>1, <2>2, <3>1 DEF IInv, UnsentInv, Done
    <3> QED BY <1>2, <1>3, <2>1, <2>2, <3>2
  <2> QED BY <1>2, <1>3, <2>1, <2>2
<1> QED BY <1>4, <1>6, <1>9, <1>10, <1>12, <1>13, <1>14 DEF Delivery

LEMMA AcceptedStep == ASSUME IInv, Accepted PROVE IInv'
<1>1. faults' = faults /\ faults \in Nat /\ faults <= faults'
  BY DEF Accepted, IInv, TypeOK, QueueTypes
<1>2. /\ QueueTypes' /\ QueueInv' /\ Delivery'
      /\ \A r \in listens : got'[busy][r.play] > 0
      /\ \A s \in Services : \A r \in rows[s] :
           got'[s][r.play] = IF s = busy /\ r \in listens THEN got[s][r.play] + 1
                                                       ELSE got[s][r.play]
  BY <1>1, Reception DEF Accepted
<1>3. DrainTypes'
  BY DEF IInv, TypeOK, DrainTypes, Accepted
<1>4. DrainInv'
  BY <1>2 DEF IInv, DrainInv, Accepted, Sends, queue
<1>5. UnsentInv'
  BY <1>1, <1>2 DEF IInv, UnsentInv, Done, Accepted, Sends, queue
<1> QED BY <1>2, <1>3, <1>4, <1>5, DrainerStep DEF Accepted

LEMMA AnswerLostStep == ASSUME IInv, AnswerLost PROVE IInv'
<1>1. faults' = faults + 1 /\ faults \in Nat /\ faults' \in Nat /\ faults <= faults'
  BY DEF AnswerLost, Fault, IInv, TypeOK, QueueTypes
<1>2. /\ QueueTypes' /\ QueueInv' /\ Delivery'
      /\ \A s \in Services : \A r \in rows[s] :
           got'[s][r.play] = IF s = busy /\ r \in listens THEN got[s][r.play] + 1
                                                       ELSE got[s][r.play]
  BY <1>1, Reception DEF AnswerLost
<1>3. phase = "submit" /\ rows' = rows
  BY DEF AnswerLost, Sends, queue
<1>4. \A s \in Services : \A r \in rows[s] : got'[s][r.play] <= faults'
  <2> SUFFICES ASSUME NEW s \in Services, NEW r \in rows[s] PROVE got'[s][r.play] <= faults'
    OBVIOUS
  <2>1. got[s][r.play] \in Nat /\ got[s][r.play] <= faults
    BY <1>3 DEF IInv, TypeOK, QueueTypes, Row, UnsentInv, Done
  <2> QED BY <1>1, <1>2, <2>1
<1>5. UnsentInv'
  BY <1>3, <1>4 DEF UnsentInv
<1>6. CASE tries + 1 < MaxTries /\ tries' = tries + 1 /\ UNCHANGED <<due, phase, busy, batch, listens>>
  <2>1. DrainTypes'
    BY <1>6, PlaybackAssumption DEF IInv, TypeOK, DrainTypes
  <2>2. DrainInv'
    BY <1>3, <1>6 DEF IInv, DrainInv
  <2> QED BY <1>2, <1>5, <2>1, <2>2, DrainerStep DEF AnswerLost
<1>7. CASE NextService
  <2>1. DrainTypes'
    BY <1>7, PlaybackAssumption DEF IInv, TypeOK, DrainTypes, NextService, Services
  <2>2. DrainInv'
    BY <1>7 DEF DrainInv, NextService
  <2> QED BY <1>2, <1>5, <2>1, <2>2, DrainerStep DEF AnswerLost
<1> QED BY <1>6, <1>7 DEF AnswerLost, TryAgain

LEMMA RequestStep == ASSUME IInv, Request PROVE IInv'
<1>1. CASE Unavailable
  BY <1>1, TryAgainStep DEF Unavailable, Sends
<1>2. CASE Refused
  BY <1>2, TurnEndsStep DEF Refused, Sends
<1> QED BY <1>1, <1>2, AcceptedStep, AnswerLostStep DEF Request

-----------------------------------------------------------------------------
(* Last.fm's key, restarts, and the library.                                *)

LEMMA KeyStep == ASSUME IInv, Key PROVE IInv'
<1>1. /\ UNCHANGED <<library, loop, queue, drainer, ghosts>>
      /\ (faults' = faults \/ faults' = faults + 1)
      /\ KeyTypes'
  <2> USE DEF IInv, TypeOK, KeyTypes
  <2>1. CASE Disable
    BY <2>1 DEF Disable
  <2>2. CASE OnDisabled
    BY <2>2 DEF OnDisabled, Fault
  <2>3. CASE Revoke
    BY <2>3 DEF Revoke
  <2>4. CASE Reauth
    BY <2>4 DEF Reauth
  <2> QED BY <2>1, <2>2, <2>3, <2>4 DEF Key
<1>2. faults \in Nat /\ faults' \in Nat /\ faults <= faults'
  BY <1>1 DEF IInv, TypeOK, QueueTypes
<1>3. QueueInv' /\ Delivery'
  BY <1>1, <1>2, DeliveryKept DEF ghosts
<1>4. Settling'
  BY <1>1, DrainerAlone DEF ghosts
<1>5. TypeOK'
  BY <1>1, <1>2 DEF IInv, TypeOK, LoopTypes, QueueTypes, DrainTypes, loop, queue, drainer, ghosts
<1>6. DrainInv'
  BY <1>1 DEF IInv, DrainInv, queue, drainer, ghosts
<1>7. UnsentInv'
  BY <1>1, <1>2 DEF IInv, UnsentInv, Done, queue, drainer, ghosts, TypeOK, QueueTypes, Row
<1> QED BY <1>3, <1>4, <1>5, <1>6, <1>7 DEF IInv, Settling, Delivery

\* A restart forgets what the loop and the drainer were doing; what the drainer was
\* about to delete has been received once more than the faults before it explain.
LEMMA RestartStep == ASSUME IInv, Restart PROVE IInv'
<1>1. faults' = faults + 1 /\ faults \in Nat /\ faults' \in Nat /\ faults <= faults'
  BY DEF Restart, Fault, IInv, TypeOK, QueueTypes
<1>2. TypeOK'
  <2>1. np \in 0 .. Len(played) /\ Len(played) \in Nat /\ np \in Nat /\ (np # 0 => np \in Plays)
    BY PlaybackAssumption DEF IInv, TypeOK, LoopTypes, Plays
  <2>2. 0 \in 0 .. Len(played)
    BY <2>1
  <2>3. LoopTypes'
    BY <2>2 DEF IInv, TypeOK, LoopTypes, Restart
  <2>4. QueueTypes'
    BY <1>1, <2>1 DEF IInv, TypeOK, QueueTypes, Restart, queue
  <2>5. 0 \in 0 .. MaxTries - 1
    BY PlaybackAssumption
  <2>6. DrainTypes'
    BY <2>5 DEF DrainTypes, Restart, Services
  <2>7. live' \in BOOLEAN
    BY Zenon DEF Restart
  <2>8. KeyTypes'
    BY <2>7 DEF IInv, TypeOK, KeyTypes, Restart
  <2> QED BY <2>3, <2>4, <2>6, <2>8 DEF TypeOK
<1>3. \A s \in Services : 0 \notin owed[s]
  BY DEF IInv, QueueInv
<1>4. Settling'
  BY <1>3 DEF IInv, LoopInv, SettledOnce, NotForgotten, Settling, Restart
<1>5. QueueInv'
  BY DEF IInv, QueueInv, Restart, queue
<1>6. DrainInv'
  BY DEF DrainInv, Restart
<1>7. UnsentInv'
  BY <1>1 DEF IInv, DuplicatesExplained, UnsentInv, Restart, queue, TypeOK, QueueTypes, Row
<1>8. Delivery'
  <2>1. \A s \in Services : Queued(s)' = Queued(s) /\ Queued(s) \subseteq Plays
    BY DEF Queued, Restart, queue, IInv, TypeOK, QueueTypes, Row
  <2>2. \A n \in Plays : Gone(n) => Gone(n)'
    BY DEF Gone, Restart
  <2>3. NothingDropped'
    BY <2>1, <2>2 DEF IInv, NothingDropped, Restart, TypeOK, QueueTypes
  <2>4. DeliveredInOrder'
    BY <2>1, <2>2 DEF IInv, DeliveredInOrder, Restart
  <2>5. DuplicatesExplained'
    BY <1>1 DEF IInv, DuplicatesExplained, Restart, TypeOK, QueueTypes
  <2> QED BY <2>3, <2>4, <2>5 DEF Delivery
<1> QED BY <1>2, <1>4, <1>5, <1>6, <1>7, <1>8 DEF IInv, Settling, Delivery

LEMMA VanishStep == ASSUME IInv, NEW t \in Tracks, Vanish(t) PROVE IInv'
<1>1. faults \in Nat /\ faults' = faults /\ faults <= faults'
  BY DEF Vanish, IInv, TypeOK, QueueTypes
<1>2. QueueInv' /\ Delivery'
  BY <1>1, DeliveryKept DEF Vanish, ghosts
<1>3. Settling'
  BY DrainerAlone DEF Vanish, ghosts
<1>4. TypeOK'
  BY DEF Vanish, IInv, TypeOK, LoopTypes, QueueTypes, DrainTypes, KeyTypes, loop, queue,
         drainer, session, ghosts
<1>5. DrainInv' /\ UnsentInv'
  BY DEF Vanish, IInv, DrainInv, UnsentInv, Done, queue, drainer, ghosts
<1> QED BY <1>2, <1>3, <1>4, <1>5 DEF IInv, Settling, Delivery

LEMMA Stutter == IInv /\ UNCHANGED vars => IInv'
<1> SUFFICES ASSUME IInv, UNCHANGED vars PROVE IInv'
  OBVIOUS
<1>1. TypeOK'
  BY DEF vars, IInv, TypeOK, LoopTypes, QueueTypes, DrainTypes, KeyTypes, loop, queue,
         drainer, session, ghosts
<1>2. faults \in Nat /\ faults <= faults' /\ faults' = faults
  BY DEF IInv, TypeOK, QueueTypes, vars
<1>3. QueueInv' /\ Delivery' /\ Settling'
  BY <1>2, DeliveryKept, DrainerAlone DEF vars, ghosts
<1>4. DrainInv' /\ UnsentInv'
  BY DEF IInv, DrainInv, UnsentInv, Done, vars, queue, drainer, ghosts
<1> QED BY <1>1, <1>3, <1>4 DEF IInv, Settling, Delivery

-----------------------------------------------------------------------------
LEMMA Inductive == IInv /\ [Next]_vars => IInv'
<1> SUFFICES ASSUME IInv, [Next]_vars PROVE IInv'
  OBVIOUS
<1>1. CASE Loop
  BY <1>1, NextTrackStep, GetTrackStep, SettleStep, StartStep, PlayEndsStep, EnqueueStep DEF Loop
<1>2. CASE Ripen
  BY <1>2, RipenStep
<1>3. CASE Drain
  <2>1. CASE Disabled
    BY <2>1, TurnEndsStep DEF Disabled
  <2> QED BY <1>3, <2>1, CycleStep, PickStep, ResolveStep, DeleteStep DEF Drain
<1>4. CASE Request
  BY <1>4, RequestStep
<1>5. CASE Key
  BY <1>5, KeyStep
<1>6. CASE Restart
  BY <1>6, RestartStep
<1>7. ASSUME NEW t \in Tracks, Vanish(t) PROVE IInv'
  BY <1>7, VanishStep
<1>8. CASE UNCHANGED vars
  BY <1>8, Stutter
<1> QED BY <1>1, <1>2, <1>3, <1>4, <1>5, <1>6, <1>7, <1>8 DEF Next

\* The inductive invariant of the scrobbling path.
THEOREM Safe == Spec => []IInv
BY InitHolds, Inductive, PTL DEF Spec

\* Types, among them that a request is attempted MaxTries times at most.
THEOREM TypeCorrect == Spec => []TypeOK
<1>1. IInv => TypeOK
  BY DEF IInv
<1> QED BY <1>1, Safe, PTL

\* At least once: whatever fails or crashes, a listen that got a row stays queued
\* until its service has received it or its track is gone.
THEOREM AtLeastOnce == Spec => []NothingDropped
<1>1. IInv => NothingDropped
  BY DEF IInv
<1> QED BY <1>1, Safe, PTL

\* A service never receives a listen before an older one that is still queued.
THEOREM InOrder == Spec => []DeliveredInOrder
<1>1. IInv => DeliveredInOrder
  BY DEF IInv
<1> QED BY <1>1, Safe, PTL

\* Every repeated delivery is paid for by a crash, a failed statement or a lost answer.
THEOREM FewDuplicates == Spec => []DuplicatesExplained
<1>1. IInv => DuplicatesExplained
  BY DEF IInv
<1> QED BY <1>1, Safe, PTL

\* Each play that passes the threshold is settled, and once.
THEOREM SettledExactlyOnce == Spec => [](SettledOnce /\ NotForgotten)
<1>1. IInv => SettledOnce /\ NotForgotten
  BY DEF IInv
<1> QED BY <1>1, Safe, PTL
=============================================================================
