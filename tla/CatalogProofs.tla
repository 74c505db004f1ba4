--------------------------- MODULE CatalogProofs ---------------------------
(***************************************************************************)
(* For any hub, members, loops, groups and tracks: what is pulled is       *)
(* written only if the viewer saw the peer during its round, a row is      *)
(* deleted only by an answer that had a reason to leave it out, and the    *)
(* default group is created once, but for failed statements.               *)
(***************************************************************************)
EXTENDS Catalog, TLAPS

Visibly(l) == {n \in Nodes : Visible(Authority(l), n, Viewer(l))}

-----------------------------------------------------------------------------
(* What Watch records.                                                     *)

LEMMA SlotTypes ==
  ASSUME NEW l \in Slots
  PROVE  Node(l) \in Members /\ From(l) \in Nodes /\ Node(l) \in Nodes /\ l[1] \in Loops
         /\ l[2] \in {"new", "old"} /\ l = <<l[1], l[2]>>
BY CatalogAssumption DEF Slots, Node, From, Nodes

LEMMA RoundTypes ==
  ASSUME TypeOK, NEW l \in Slots
  PROVE  /\ round[l] \in Round
         /\ round[l].at \in Places /\ round[l].job \in {"push", "pull", "direct"}
         /\ round[l].left \in SUBSET Nodes /\ round[l].who \in Nodes \cup {None}
         /\ round[l].answer \in [Nodes -> (SUBSET Tracks) \cup {None}]
         /\ round[l].todo \in SUBSET Tracks
         /\ round[l].libs \in SUBSET {LibraryOf[t] : t \in Tracks}
<1>1. round[l] \in Round
  BY DEF TypeOK
<1> QED BY <1>1 DEF Round

LEMMA ViewerType ==
  ASSUME NEW l \in Slots
  PROVE  Viewer(l) \in Nodes /\ Authority(l) \in Nodes
BY SlotTypes DEF Viewer, Authority, Nodes

LEMMA WatchTypes ==
  ASSUME TypeOK, Watch
  PROVE  /\ shown' \in [Slots -> SUBSET Nodes]
         /\ lacking' \in [Members -> SUBSET Tracks] /\ absent' \in [Slots -> SUBSET Tracks]
<1>1. ASSUME NEW s \in Slots PROVE Seen(s) \in SUBSET Nodes
  <2>1. <<s[1], "new">> \in Slots
    BY SlotTypes DEF Slots
  <2> QED BY <2>1 DEF Seen, TypeOK
<1>2. ASSUME NEW s \in Slots PROVE Lacks(s) \in SUBSET Tracks
  <2>1. <<s[1], "new">> \in Slots
    BY SlotTypes DEF Slots
  <2>2. \A n : Of(n, Tracks \ shared) \in SUBSET Tracks
    BY DEF Of
  <2>3. UNION {Of(m, lacking[m]) : m \in Members} \in SUBSET Tracks
    BY DEF Of, TypeOK
  <2>4. Refused(s) \in SUBSET Tracks /\ absent[s] \in SUBSET Tracks
        /\ absent[<<s[1], "new">>] \in SUBSET Tracks
    BY <2>1 DEF Refused, TypeOK
  <2> QED BY <2>2, <2>3, <2>4 DEF Lacks
<1>3. shown' \in [Slots -> SUBSET Nodes]
  BY <1>1 DEF Watch
<1>4. absent' \in [Slots -> SUBSET Tracks]
  BY <1>2 DEF Watch
<1>5. lacking' \in [Members -> SUBSET Tracks]
  <2>1. \A m \in Members : UNION {absent[s] : s \in {x \in Slots : Takes(m, x)}} \in SUBSET Tracks
    BY DEF TypeOK
  <2>2. \A m \in Members : lacking[m] \in SUBSET Tracks
    BY DEF TypeOK
  <2> QED BY <2>1, <2>2 DEF Watch
<1> QED BY <1>3, <1>4, <1>5

\* As long as a round goes on, so does what its viewer has seen.
LEMMA ShownGrows ==
  ASSUME Watch, NEW l \in Slots, round'[l].at # "idle", ~On(l, "idle"),
         round'[l].job = round[l].job
  PROVE  shown[l] \subseteq shown'[l] /\ Visibly(l)' \subseteq shown'[l]
<1>1. Seen(l) = shown[l]
  BY SlotTypes DEF Seen
<1>2. shown'[l] = Seen(l) \cup {n \in Nodes : Visible(Authority(l), n, Viewer(l))'}
  BY DEF Watch
<1> QED BY <1>1, <1>2 DEF Visibly

\* As long as a round goes on with its answer, so does what that lacks.
LEMMA AbsentGrows ==
  ASSUME Watch, NEW l \in Slots, round'[l].at \notin {"idle", "get"},
         round[l].at \notin {"idle", "get"}, ~On(l, "export") \/ round'[l].at # "apply"
  PROVE  absent[l] \subseteq absent'[l] /\ Refused(l) \subseteq absent'[l]
<1>1. Lacks(l) = absent[l] \cup Refused(l)
  BY DEF Lacks, On
<1> QED BY <1>1 DEF Watch

\* The catalogs stay right when none is taken.
Still == \A s \in Slots : On(s, "post") => round'[s].at \in {"idle", "post"}

LEMMA PushedStep ==
  ASSUME Pushed, Watch, UNCHANGED cache, Still
  PROVE  Pushed'
<1> SUFFICES ASSUME NEW m \in Members, cache'[m] # None
             PROVE cache'[m] \subseteq Of(m, Tracks) /\ Missing(cache', m, lacking'[m])
  BY DEF Pushed, Missing, Of
<1>1. ~\E s \in Slots : Takes(m, s)
  BY DEF Still, Takes
<1>2. lacking'[m] = lacking[m]
  BY <1>1 DEF Watch
<1> QED BY <1>2 DEF Pushed, Missing

LEMMA StillOne ==
  ASSUME TypeOK, NEW l \in Slots, ~On(l, "post"), \E next : To(l, next)
  PROVE  Still
<1>1. PICK next : To(l, next)
  OBVIOUS
<1>2. ASSUME NEW s \in Slots, On(s, "post") PROVE round'[s] = round[s]
  BY <1>1, <1>2 DEF To, TypeOK
<1> QED BY <1>2 DEF Still, On

LEMMA StillAll == UNCHANGED round => Still
BY DEF Still, On

-----------------------------------------------------------------------------
(* Rounds that are sound.                                                  *)

LEMMA Monotone ==
  ASSUME NEW l \in Slots, NEW r, NEW seen, NEW seen2, NEW gone, NEW gone2,
         Sound(l, r, seen, gone),
         gone \subseteq gone2 \/ r.at \in {"idle", "get"},
         seen \subseteq seen2 \/ r.at \in {"idle", "post", "get"}
  PROVE  Sound(l, r, seen2, gone2)
<1>1. ASSUME NEW p \in Nodes, r.answer[p] # None
      PROVE  r.answer[p] \subseteq Of(p, Tracks) /\ Missing(r.answer, p, gone2)
  <2>1. CASE gone \subseteq gone2
    BY <1>1, <2>1 DEF Sound, Missing
  <2>2. CASE r.at \in {"idle", "get"}
    BY <1>1, <2>2 DEF Sound, Named
  <2> QED BY <2>1, <2>2
<1> QED BY <1>1 DEF Sound

LEMMA SoundIdle ==
  ASSUME NEW l \in Slots, NEW seen, NEW gone
  PROVE  Sound(l, Idle, seen, gone) /\ Sound(l, [Idle EXCEPT !.at = "get"], seen, gone)
BY DEF Sound, Idle, Nothing, Named

LEMMA IdleTypes == Idle \in Round /\ [Idle EXCEPT !.at = "get"] \in Round
BY DEF Idle, Round, Nothing, Places

LEMMA AfterSound ==
  ASSUME NEW l \in Slots, NEW seen, NEW gone
  PROVE  Sound(l, After(l), seen, gone) /\ After(l) \in Round
BY SoundIdle, IdleTypes DEF After

\* A round that does not move.
LEMMA Frame ==
  ASSUME Rounds, Watch, NEW l \in Slots, round'[l] = round[l]
  PROVE  Sound(l, round'[l], shown'[l], absent'[l])
<1>1. Sound(l, round[l], shown[l], absent[l])
  BY DEF Rounds
<1>2. shown[l] \subseteq shown'[l] \/ round[l].at = "idle"
  BY ShownGrows DEF On
<1>3. absent[l] \subseteq absent'[l] \/ round[l].at \in {"idle", "get"}
  BY AbsentGrows DEF On
<1> QED BY <1>1, <1>2, <1>3, Monotone

LEMMA FrameAll ==
  ASSUME Rounds, Watch, UNCHANGED round
  PROVE  Rounds'
BY Frame DEF Rounds

\* One round moves.
LEMMA Moves ==
  ASSUME TypeOK, Rounds, Watch, NEW l \in Slots, NEW next \in Round, To(l, next),
         Sound(l, next, shown'[l], absent'[l])
  PROVE  Rounds' /\ round' \in [Slots -> Round] /\ round'[l] = next
<1>1. round' \in [Slots -> Round] /\ round'[l] = next
      /\ \A s \in Slots : s # l => round'[s] = round[s]
  BY DEF To, TypeOK
<1>2. ASSUME NEW s \in Slots PROVE Sound(s, round'[s], shown'[s], absent'[s])
  BY <1>1, Frame
<1> QED BY <1>1, <1>2 DEF Rounds

\* A push or a pull is over.
LEMMA MovesOn ==
  ASSUME TypeOK, Rounds, Watch, NEW l \in Slots, To(l, After(l)) \/ To(l, Idle)
  PROVE  Rounds' /\ round' \in [Slots -> Round]
BY AfterSound, SoundIdle, IdleTypes, Moves

\* A round goes on with what it has, under the name of one place.
LEMMA Stays ==
  ASSUME TypeOK, Rounds, NEW l \in Slots
  PROVE  Sound(l, round[l], shown[l], absent[l])
BY DEF Rounds

-----------------------------------------------------------------------------
(* Deciding on a peer.                                                     *)

LEMMA DecidedTypes ==
  ASSUME TypeOK, NEW l \in Slots, NEW p \in Nodes, NEW ok \in BOOLEAN
  PROVE  Decided(l, p, ok) \in Round
<1> DEFINE r == round[l]
           answer == IF ok THEN r.answer ELSE [r.answer EXCEPT ![p] = {}]
           next == [r EXCEPT !.answer = answer]
<1>1. r \in Round /\ answer \in [Nodes -> (SUBSET Tracks) \cup {None}]
  BY RoundTypes
<1>2. next \in Round
  BY <1>1 DEF Round
<1>3. [next EXCEPT !.at = "export"] \in Round
  BY <1>2 DEF Round, Places
<1>4. [next EXCEPT !.left = r.left \ {p}] \in Round
  BY <1>2, RoundTypes DEF Round
<1>5. [next EXCEPT !.at = "apply", !.left = Named(answer)] \in Round
  BY <1>2 DEF Round, Places, Named
<1>6. After(l) \in Round
  BY AfterSound
<1> HIDE DEF next, answer
<1> QED BY <1>3, <1>4, <1>5, <1>6 DEF Decided, next, answer

\* If a peer that is let through is one the viewer sees now, the round stays sound.
LEMMA DecidedSound ==
  ASSUME IInv, Watch, NEW l \in Slots, NEW p \in round[l].left, NEW ok \in BOOLEAN,
         On(l, "scope"), To(l, Decided(l, p, ok)),
         ok => p \in Visibly(l) /\ UNCHANGED group,
         ok \/ p \notin Visibly(l) \/ faults' # faults \/ group' # group
  PROVE  Rounds' /\ round' \in [Slots -> Round]
<1> DEFINE r == round[l]
           answer == IF ok THEN r.answer ELSE [r.answer EXCEPT ![p] = {}]
           next == Decided(l, p, ok)
<1>0. TypeOK /\ Rounds /\ p \in Nodes /\ r.left \in SUBSET Nodes /\ r.at = "scope"
      /\ r.answer \in [Nodes -> (SUBSET Tracks) \cup {None}] /\ Sound(l, r, shown[l], absent[l])
  BY RoundTypes, Stays DEF IInv, On
<1>1. next \in Round /\ round'[l] = next
  BY <1>0, DecidedTypes DEF To, TypeOK
<1>2. SUFFICES Sound(l, next, shown'[l], absent'[l])
  BY <1>0, <1>1, Moves
<1>3. \/ ok /\ r.job = "direct" /\ next = [[r EXCEPT !.answer = answer] EXCEPT !.at = "export"]
      \/ next = [[r EXCEPT !.answer = answer] EXCEPT !.left = r.left \ {p}]
      \/ next = After(l)
      \/ next = [[r EXCEPT !.answer = answer] EXCEPT !.at = "apply", !.left = Named(answer)]
  <2>1. CASE ok /\ Doing(l, "direct")
    BY <2>1 DEF Decided, Doing
  <2>2. CASE ~(ok /\ Doing(l, "direct")) /\ r.left \ {p} # {}
    BY <2>2 DEF Decided, Doing
  <2>3. CASE ~(ok /\ Doing(l, "direct")) /\ r.left \ {p} = {} /\ Named(answer) = {}
    BY <2>3 DEF Decided, Doing
  <2>4. CASE ~(ok /\ Doing(l, "direct")) /\ r.left \ {p} = {} /\ Named(answer) # {}
    BY <2>4 DEF Decided, Doing
  <2> QED BY <2>1, <2>2, <2>3, <2>4
<1>4. CASE next = After(l)
  BY <1>4, AfterSound
<1>5. CASE next # After(l)
  <2>1. /\ next.answer = answer /\ next.job = r.job /\ next # r
        /\ next.at \in {"scope", "export", "apply"}
        /\ next.at = "export" => r.job = "direct" /\ ok
        /\ next.at = "scope" => next.left = r.left \ {p}
        /\ next.at = "apply" => next.left = Named(answer)
        /\ next.at \notin {"idle", "get"}
    <3>1. r \in Round
      BY <1>0, RoundTypes
    <3>2. CASE ok /\ r.job = "direct" /\ next = [[r EXCEPT !.answer = answer] EXCEPT !.at = "export"]
      BY <1>0, <3>1, <3>2 DEF Round
    <3>3. CASE next = [[r EXCEPT !.answer = answer] EXCEPT !.left = r.left \ {p}]
      BY <1>0, <3>1, <3>3 DEF Round
    <3>4. CASE next = [[r EXCEPT !.answer = answer] EXCEPT !.at = "apply", !.left = Named(answer)]
      BY <1>0, <3>1, <3>4 DEF Round
    <3> QED BY <1>3, <1>5, <3>2, <3>3, <3>4
  <2>2. shown[l] \subseteq shown'[l] /\ Visibly(l)' \subseteq shown'[l]
    BY <1>0, <1>1, <2>1, ShownGrows DEF On
  <2>3. ok => p \in shown'[l]
    <3>1. SUFFICES ASSUME ok PROVE p \in Visibly(l)'
      BY <2>2
    <3>2. Viewer(l)' = Viewer(l)
      BY <1>1, <2>1 DEF Viewer, Doing
    <3>3. UNCHANGED group /\ p \in Nodes /\ Visible(Authority(l), p, Viewer(l))
      BY <3>1 DEF Visibly
    <3> QED BY <3>2, <3>3 DEF Visibly, Visible, Active, Share, Authority
  <2>4. /\ \A q \in Nodes : r.answer[q] # None =>
             r.answer[q] \subseteq Of(q, Tracks) /\ Missing(r.answer, q, absent[l])
        /\ r.job = "direct" => r.left \subseteq {From(l)}
        /\ \A q \in Nodes \ r.left : r.answer[q] \in {None, {}} \/ q \in shown[l]
    BY <1>0 DEF Sound
  <2>10. absent[l] \subseteq absent'[l] /\ Refused(l) \subseteq absent'[l]
    BY <1>0, <1>1, <2>1, AbsentGrows DEF On
  <2>5. ASSUME NEW q \in Nodes, answer[q] # None
        PROVE  answer[q] \subseteq Of(q, Tracks) /\ Missing(answer, q, absent'[l])
    <3>1. CASE answer[q] = r.answer[q]
      BY <2>4, <2>5, <2>10, <3>1 DEF Missing
    <3>2. CASE answer[q] # r.answer[q]
      <4>1. q = p /\ answer[q] = {} /\ r.answer[q] # {} /\ ~ok
        BY <1>0, <3>2
      <4>2. ASSUME NEW t \in Of(q, Tracks) PROVE t \in absent'[l]
        <5>1. t \in Tracks /\ OwnerOf[t] = q
          BY DEF Of
        <5> HIDE DEF next, answer, r
        <5>2. round[l].answer[q] # {} /\ round'[l].answer[q] = {}
          BY <1>1, <2>1, <4>1, <5>1 DEF r
        <5>3. ~Visible(Authority(l), q, Viewer(l)) \/ faults' # faults \/ group' # group
          BY <1>0, <4>1 DEF Visibly
        <5>4. t \in Refused(l)
          BY <5>1, <5>2, <5>3 DEF Refused
        <5> QED BY <2>10, <5>4
      <4> QED BY <4>1, <4>2 DEF Missing
    <3> QED BY <3>1, <3>2
  <2>6. ASSUME NEW q \in Nodes \ (r.left \ {p}), answer[q] # {}
        PROVE  answer[q] = None \/ q \in shown'[l]
    <3>1. CASE q = p
      BY <1>0, <2>3, <2>6, <3>1
    <3>2. CASE q # p
      BY <1>0, <2>2, <2>4, <2>6, <3>2
    <3> QED BY <3>1, <3>2
  <2> HIDE DEF next, answer, r
  <2>7. CASE next.at = "export"
    <3>1. From(l) \in shown'[l]
      BY <1>0, <2>1, <2>3, <2>4, <2>7 DEF r
    <3> QED BY <2>1, <2>5, <2>7, <3>1 DEF Sound
  <2>8. CASE next.at = "scope"
    BY <2>1, <2>4, <2>5, <2>6, <2>8 DEF Sound
  <2>9. CASE next.at = "apply"
    <3>1. CASE r.left \subseteq {p}
      <4>1. \A q \in Named(answer) : answer[q] # None /\ (answer[q] = {} \/ q \in shown'[l])
        BY <2>6, <3>1 DEF Named
      <4> QED BY <2>1, <2>5, <2>9, <4>1 DEF Sound
    <3>2. CASE ~(r.left \subseteq {p})
      <4>1. r.left \ {p} # {}
        BY <3>2
      <4>2. next.at # "apply"
        <5>1. r \in Round /\ r.at = "scope"
          BY <1>0, RoundTypes DEF r
        <5> QED BY <1>5, <4>1, <5>1 DEF Decided, Doing, Round, next, answer, r
      <4> QED BY <2>9, <4>2
    <3> QED BY <3>1, <3>2
  <2> QED BY <2>1, <2>7, <2>8, <2>9
<1> QED BY <1>4, <1>5

-----------------------------------------------------------------------------
(* The other steps of a round.                                             *)

\* A round whose next state is sound with what its viewer has seen already.
LEMMA GoesOn ==
  ASSUME TypeOK, Rounds, Watch, NEW l \in Slots, NEW next \in Round, To(l, next),
         round[l].at \notin {"idle", "get", "export"}, next.at \notin {"idle", "get"},
         next.job = round[l].job,
         Sound(l, next, shown[l], absent[l])
  PROVE  Rounds' /\ round' \in [Slots -> Round]
<1>1. round'[l] = next
  BY DEF To, TypeOK
<1>2. shown[l] \subseteq shown'[l] /\ absent[l] \subseteq absent'[l]
  BY <1>1, ShownGrows, AbsentGrows DEF On
<1>3. Sound(l, next, shown'[l], absent'[l])
  BY <1>2, Monotone
<1> QED BY <1>3, Moves

LEMMA StartRounds ==
  ASSUME IInv, Watch, NEW l \in Slots, Start(l)
  PROVE  Rounds' /\ round' \in [Slots -> Round]
<1>0. TypeOK /\ Rounds /\ Node(l) \in Members /\ Node(l) \in Nodes /\ From(l) \in Nodes
      /\ shared \in SUBSET Tracks
      /\ On(l, "idle") /\ l[2] = "new"
  BY SlotTypes DEF IInv, TypeOK, Start, Step
<1>1. CASE From(l) = Hub
  <2> DEFINE next == [Idle EXCEPT !.at = "post", !.job = "push",
                                  !.answer[Node(l)] = Of(Node(l), shared)]
  <2>1. To(l, next)
    BY <1>1 DEF Start
  <2>2. /\ next.at = "post" /\ next.job = "push"
        /\ next.answer = [Nothing EXCEPT ![Node(l)] = Of(Node(l), shared)]
        /\ next \in Round
    BY <1>0 DEF Idle, Nothing, Round, Places, Of
  <2>3. /\ next.answer[Node(l)] = Of(Node(l), shared)
        /\ \A p \in Nodes \ {Node(l)} : next.answer[p] = None
    BY <1>0, <2>2 DEF Nothing
  <2>4. Of(Node(l), shared) # None /\ Of(Node(l), shared) \subseteq Of(Node(l), Tracks)
    BY <1>0, CatalogAssumption DEF Of
  <2> HIDE DEF next
  <2>5. absent'[l] = Of(Node(l), Tracks \ shared)
    <3>1. round'[l] = next
      BY <1>0, <2>1 DEF To, TypeOK
    <3>2. Lacks(l) = Of(Node(l), Tracks \ shared)
      BY <1>0, <2>2, <3>1 DEF Lacks, On
    <3> QED BY <3>2 DEF Watch
  <2>6. Missing(next.answer, Node(l), absent'[l])
    BY <2>3, <2>5 DEF Missing, Of
  <2>7. Sound(l, next, shown'[l], absent'[l])
    BY <1>0, <2>2, <2>3, <2>4, <2>6 DEF Sound, Named
  <2> QED BY <1>0, <2>1, <2>2, <2>7, Moves
<1>2. CASE From(l) # Hub
  <2> DEFINE next == [Idle EXCEPT !.at = "scope", !.job = "direct", !.left = {From(l)}]
  <2>1. To(l, next)
    BY <1>2 DEF Start
  <2>2. /\ next.at = "scope" /\ next.job = "direct" /\ next.left = {From(l)}
        /\ next.answer = Nothing /\ next \in Round
    BY <1>0 DEF Idle, Nothing, Round, Places
  <2> HIDE DEF next
  <2>3. Sound(l, next, shown'[l], absent'[l])
    BY <2>2 DEF Sound, Nothing
  <2> QED BY <1>0, <2>1, <2>2, <2>3, Moves
<1> QED BY <1>1, <1>2

LEMMA ReceiveRounds ==
  ASSUME IInv, Watch, NEW l \in Slots, Receive(l)
  PROVE  Rounds' /\ round' \in [Slots -> Round] /\ Pushed'
<1> DEFINE r == round[l]
           next == [r EXCEPT !.at = "scope", !.left = {Node(l)}]
<1>0. /\ TypeOK /\ Rounds /\ Node(l) \in Members /\ Node(l) \in Nodes
      /\ r \in Round /\ r.at = "post" /\ Sound(l, r, shown[l], absent[l]) /\ Hub \in Nodes
      /\ cache \in [Members -> (SUBSET Tracks) \cup {None}]
  BY SlotTypes, RoundTypes, Stays DEF IInv, TypeOK, Receive, Step, On, Nodes
<1>1. r.job = "push" /\ Named(r.answer) = {Node(l)}
  BY <1>0 DEF Sound
<1>2. /\ \A p \in Nodes \ {Node(l)} : r.answer[p] = None
      /\ r.answer[Node(l)] # None
      /\ r.answer[Node(l)] \subseteq Of(Node(l), Tracks)
      /\ Missing(r.answer, Node(l), absent[l])
  BY <1>0, <1>1 DEF Named, Sound
<1>3. /\ next \in Round /\ next.at = "scope" /\ next.left = {Node(l)} /\ next.job = "push"
      /\ next.answer = r.answer
  BY <1>0, <1>1 DEF Round, Places
<1>4. To(l, next) /\ ~On(l, "idle")
  BY <1>0 DEF Receive, Step, On
<1>5. Pushed'
  <2>1. cache' = [cache EXCEPT ![Node(l)] = r.answer[Node(l)]]
    BY DEF Receive
  <2>2. round'[l] = next /\ \A s \in Slots : s # l => round'[s] = round[s]
    BY <1>0, <1>4 DEF To, TypeOK
  <2>3. ASSUME NEW m \in Members, cache'[m] # None
        PROVE  cache'[m] \subseteq Of(m, Tracks) /\ Missing(cache', m, lacking'[m])
    <3>1. CASE m = Node(l)
      <4>1. Takes(m, l)
        BY <1>0, <1>3, <2>2, <3>1 DEF Takes, On
      <4>2. lacking'[m] = UNION {absent[s] : s \in {x \in Slots : Takes(m, x)}}
        BY <2>3, <4>1 DEF Watch
      <4>3. absent[l] \subseteq lacking'[m]
        BY <4>1, <4>2
      <4> QED BY <1>0, <1>2, <2>1, <3>1, <4>3 DEF Missing
    <3>2. CASE m # Node(l)
      <4>1. cache'[m] = cache[m]
        BY <1>0, <2>1, <3>2
      <4>2. ~\E s \in Slots : Takes(m, s)
        <5> SUFFICES ASSUME NEW s \in Slots, Takes(m, s) PROVE FALSE
          OBVIOUS
        <5>1. s # l
          BY <3>2 DEF Takes
        <5> QED BY <2>2, <5>1 DEF Takes, On
      <4>3. lacking'[m] = lacking[m]
        BY <2>3, <4>2 DEF Watch
      <4> QED BY <2>3, <4>1, <4>3 DEF IInv, Pushed, Missing
    <3> QED BY <3>1, <3>2
  <2> QED BY <2>3 DEF Pushed, Missing, Of
<1> HIDE DEF next, r
<1>6. Sound(l, next, shown[l], absent[l])
  BY <1>0, <1>2, <1>3 DEF Sound
<1> QED BY <1>0, <1>1, <1>3, <1>4, <1>5, <1>6, GoesOn DEF r

\* What the hub's catalogs lack.
Gathered == Of(Hub, Tracks \ shared) \cup UNION {Of(m, lacking[m]) : m \in Members}

LEMMA CatalogsSound ==
  ASSUME IInv, NEW m \in Members
  PROVE  /\ Catalogs(m) \in [Nodes -> (SUBSET Tracks) \cup {None}]
         /\ \A p \in Nodes : Catalogs(m)[p] # None =>
              Catalogs(m)[p] \subseteq Of(p, Tracks) /\ Missing(Catalogs(m), p, Gathered)
<1>0. /\ shared \in SUBSET Tracks /\ cache \in [Members -> (SUBSET Tracks) \cup {None}] /\ Pushed
  BY DEF IInv, TypeOK
<1>1. ASSUME NEW p \in Nodes
      PROVE  \/ Catalogs(m)[p] = None
             \/ p = Hub /\ Catalogs(m)[p] = Of(p, shared)
             \/ p \in Members /\ Catalogs(m)[p] = cache[p]
  BY DEF Catalogs, Nodes
<1>2. Of(Hub, shared) \in SUBSET Tracks
  BY <1>0 DEF Of
<1>3. Catalogs(m) \in [Nodes -> (SUBSET Tracks) \cup {None}]
  <2>1. ASSUME NEW p \in Nodes PROVE Catalogs(m)[p] \in (SUBSET Tracks) \cup {None}
    BY <1>0, <1>1, <1>2
  <2>2. Catalogs(m) = [p \in Nodes |-> Catalogs(m)[p]]
    BY DEF Catalogs
  <2> QED BY <2>1, <2>2
<1>4. ASSUME NEW p \in Nodes, Catalogs(m)[p] # None
      PROVE  Catalogs(m)[p] \subseteq Of(p, Tracks) /\ Missing(Catalogs(m), p, Gathered)
  <2>1. CASE p = Hub /\ Catalogs(m)[p] = Of(p, shared)
    BY <1>0, <2>1 DEF Of, Missing, Gathered
  <2>2. CASE p \in Members /\ Catalogs(m)[p] = cache[p]
    <3>1. cache[p] \subseteq Of(p, Tracks) /\ Of(p, Tracks) \ cache[p] \subseteq lacking[p]
      BY <1>0, <1>4, <2>2 DEF Pushed, Missing
    <3>2. Of(p, lacking[p]) \subseteq Gathered
      BY <2>2 DEF Gathered
    <3>3. Of(p, Tracks) \ cache[p] \subseteq Of(p, lacking[p])
      BY <3>1 DEF Of
    <3> QED BY <2>2, <3>1, <3>2, <3>3 DEF Missing
  <2> QED BY <1>1, <1>4, <2>1, <2>2
<1> QED BY <1>3, <1>4

LEMMA MergedRounds ==
  ASSUME IInv, Watch, NEW l \in Slots, Merged(l)
  PROVE  Rounds' /\ round' \in [Slots -> Round]
<1> DEFINE r == round[l]
           answer == Catalogs(Node(l))
           left == Named(answer) \cup (Accepted[Hub] \ {Node(l)})
           next == [r EXCEPT !.at = "scope", !.left = left, !.answer = answer]
<1>0. /\ TypeOK /\ Rounds /\ Node(l) \in Members /\ Node(l) \in Nodes
      /\ r \in Round /\ r.at = "get" /\ r.job = "pull" /\ ~On(l, "idle")
  BY SlotTypes, RoundTypes, Stays DEF IInv, Merged, Step, On, Sound
<1>1. left \in SUBSET Nodes /\ answer \in [Nodes -> (SUBSET Tracks) \cup {None}]
  BY <1>0, CatalogAssumption, CatalogsSound DEF Named, Nodes
<1>2. \/ To(l, Idle)
      \/ To(l, next)
  BY DEF Merged
<1>3. CASE To(l, Idle)
  BY <1>0, <1>3, MovesOn
<1>4. CASE To(l, next)
  <2>1. /\ next \in Round /\ next.at = "scope" /\ next.left = left /\ next.job = "pull"
        /\ next.answer = answer
    BY <1>0, <1>1 DEF Round, Places
  <2>2. \A p \in Nodes \ left : answer[p] = None
    BY DEF Named
  <2>3. \A p \in Nodes : answer[p] # None =>
          answer[p] \subseteq Of(p, Tracks) /\ Missing(answer, p, Gathered)
    BY <1>0, CatalogsSound
  <2> HIDE DEF next, left, answer, r
  <2>4. absent'[l] = Gathered
    <3>1. round'[l] = next
      BY <1>0, <1>4 DEF To, TypeOK
    <3>2. Lacks(l) = Gathered
      BY <1>0, <2>1, <3>1 DEF Lacks, On, Gathered, r
    <3> QED BY <3>2 DEF Watch
  <2>5. Sound(l, next, shown'[l], absent'[l])
    BY <1>0, <2>1, <2>2, <2>3, <2>4 DEF Sound
  <2> QED BY <1>0, <1>4, <2>1, <2>5, Moves
<1> QED BY <1>2, <1>3, <1>4

LEMMA ExportRounds ==
  ASSUME IInv, Watch, NEW l \in Slots, Export(l)
  PROVE  Rounds' /\ round' \in [Slots -> Round]
<1> DEFINE r == round[l]
           next == [r EXCEPT !.at = "apply", !.left = {From(l)},
                             !.answer[From(l)] = Of(From(l), shared)]
<1>0. /\ TypeOK /\ Rounds /\ From(l) \in Nodes
      /\ r \in Round /\ r.at = "export" /\ Sound(l, r, shown[l], absent[l])
      /\ r.answer \in [Nodes -> (SUBSET Tracks) \cup {None}] /\ shared \in SUBSET Tracks
      /\ To(l, next) /\ ~On(l, "idle")
  BY SlotTypes, RoundTypes, Stays DEF IInv, TypeOK, Export, Step, On, Nodes
<1>1. /\ next \in Round /\ next.at = "apply" /\ next.left = {From(l)} /\ next.job = r.job
      /\ next.answer = [r.answer EXCEPT ![From(l)] = Of(From(l), shared)]
  BY <1>0 DEF Round, Places, Of
<1>2. /\ next.answer[From(l)] = Of(From(l), shared)
      /\ \A p \in Nodes \ {From(l)} : next.answer[p] = r.answer[p]
  BY <1>0, <1>1
<1>3. /\ Of(From(l), shared) # None /\ Of(From(l), shared) \subseteq Of(From(l), Tracks)
  BY <1>0, CatalogAssumption DEF Of
<1>4. From(l) \in shown[l]
  BY <1>0 DEF Sound
<1>5. round'[l] = next
  BY <1>0 DEF To, TypeOK
<1> HIDE DEF next, r
<1>6. ASSUME NEW p \in Nodes, r.answer[p] # None
      PROVE  r.answer[p] \subseteq Of(p, Tracks) /\ Missing(r.answer, p, absent[l])
  BY <1>0, <1>6 DEF Sound
<1>7. absent'[l] = absent[l] \cup Of(From(l), Tracks \ shared)
  <2>1. Lacks(l) = absent[l] \cup Of(From(l), Tracks \ shared)
    BY <1>0, <1>1, <1>5 DEF Lacks, On, r
  <2> QED BY <2>1 DEF Watch
<1>8. ASSUME NEW p \in Nodes, next.answer[p] # None
      PROVE  next.answer[p] \subseteq Of(p, Tracks) /\ Missing(next.answer, p, absent'[l])
  <2>1. CASE p = From(l)
    BY <1>2, <1>3, <1>7, <2>1 DEF Missing, Of
  <2>2. CASE p # From(l)
    BY <1>2, <1>6, <1>7, <1>8, <2>2 DEF Missing
  <2> QED BY <2>1, <2>2
<1>9. shown[l] \subseteq shown'[l]
  BY <1>0, <1>1, <1>5, ShownGrows DEF r
<1>10. Sound(l, next, shown'[l], absent'[l])
  BY <1>1, <1>2, <1>3, <1>4, <1>8, <1>9 DEF Sound
<1> QED BY <1>0, <1>1, <1>10, Moves

\* A round that is applying an answer, and what that says of it.
LEMMA Applying ==
  ASSUME IInv, NEW l \in Slots, round[l].at \in {"apply", "upsert", "prune"}
  PROVE  /\ TypeOK /\ Rounds /\ ~On(l, "idle") /\ round[l] \in Round
         /\ \A p \in round[l].left : p \in Nodes /\ round[l].answer[p] # None
                                     /\ (round[l].answer[p] = {} \/ p \in shown[l])
         /\ \A p \in Nodes : round[l].answer[p] # None =>
              /\ round[l].answer[p] \subseteq Of(p, Tracks)
              /\ Missing(round[l].answer, p, absent[l])
         /\ round[l].at \in {"upsert", "prune"} =>
              /\ round[l].who \in shown[l] /\ round[l].who \in Nodes
              /\ round[l].answer[round[l].who] # None
         /\ round[l].at = "upsert" => round[l].todo \subseteq round[l].answer[round[l].who]
         /\ shown[l] \in SUBSET Nodes
<1>1. TypeOK /\ Rounds /\ ~On(l, "idle") /\ round[l] \in Round /\ shown[l] \in SUBSET Nodes
      /\ Sound(l, round[l], shown[l], absent[l]) /\ round[l].left \in SUBSET Nodes
  BY RoundTypes, Stays DEF IInv, On, TypeOK
<1>2. Viewer(l) = (IF round[l].job = "push" THEN Hub ELSE Node(l)) /\ Viewer(l) \in Nodes
  BY ViewerType DEF Viewer, Doing
<1> QED BY <1>1, <1>2 DEF Sound

\* A round that goes on applying: the answer is the same and no peer is added.
LEMMA GoesOnApplying ==
  ASSUME IInv, Watch, NEW l \in Slots, round[l].at \in {"apply", "upsert", "prune"},
         NEW next \in Round, To(l, next), next.at \in {"apply", "upsert", "prune"},
         next.job = round[l].job, next.answer = round[l].answer,
         next.left \subseteq round[l].left,
         next.at \in {"upsert", "prune"} =>
           next.who \in shown[l] /\ next.answer[next.who] # None,
         next.at = "upsert" => next.todo \subseteq next.answer[next.who]
  PROVE  Rounds' /\ round' \in [Slots -> Round]
<1>1. /\ TypeOK /\ Rounds /\ ~On(l, "idle") /\ Sound(l, round[l], shown[l], absent[l])
  BY Applying, Stays
<1>2. /\ \A p \in Nodes : next.answer[p] # None =>
           next.answer[p] \subseteq Of(p, Tracks) /\ Missing(next.answer, p, absent[l])
      /\ \A p \in next.left : next.answer[p] # None /\ (next.answer[p] = {} \/ p \in shown[l])
  BY <1>1, Applying DEF Sound
<1>3. Sound(l, next, shown[l], absent[l])
  BY <1>2 DEF Sound
<1> QED BY <1>1, <1>3, GoesOn

LEMMA ApplyEmptyRounds ==
  ASSUME IInv, Watch, NEW l \in Slots, NEW p \in round[l].left, ApplyEmpty(l, p)
  PROVE  Rounds' /\ round' \in [Slots -> Round]
<1> DEFINE next == [round[l] EXCEPT !.left = round[l].left \ {p}]
<1>0. round[l].at = "apply" /\ round[l].left \in SUBSET Nodes
  BY RoundTypes DEF IInv, ApplyEmpty, Step, On
<1>1. TypeOK /\ Rounds /\ round[l] \in Round
  BY <1>0, Applying
<1>2. To(l, After(l)) \/ To(l, next)
  BY DEF ApplyEmpty, Delete
<1>3. CASE To(l, next)
  <2>1. /\ next \in Round /\ next.at = "apply" /\ next.job = round[l].job
        /\ next.answer = round[l].answer /\ next.left = round[l].left \ {p}
    BY <1>0, <1>1 DEF Round
  <2> HIDE DEF next
  <2> QED BY <1>0, <1>3, <2>1, GoesOnApplying
<1> QED BY <1>1, <1>2, <1>3, MovesOn

LEMMA UpsertRounds ==
  ASSUME IInv, Watch, NEW l \in Slots, NEW p \in Nodes, NEW t \in Tracks, Upsert(l, p, t)
  PROVE  /\ Rounds' /\ round' \in [Slots -> Round]
         /\ p \in shown[l] /\ OwnerOf[t] = p /\ round'[l] # round[l]
<1> DEFINE rows == held[Viewer(l)] \cup {t}
           todo == IF On(l, "apply") THEN round[l].answer[p] ELSE round[l].todo
           next == [round[l] EXCEPT !.who = p, !.todo = todo \ {t}]
           more == [next EXCEPT !.at = "upsert"]
           done == [next EXCEPT !.at = "prune", !.libs = Libraries(Of(p, rows))]
<1>0. round[l].at \in {"apply", "upsert"} /\ t \in todo
      /\ (round[l].at = "apply" => p \in round[l].left /\ round[l].answer[p] # {})
      /\ (round[l].at = "upsert" => p = round[l].who)
  BY DEF Upsert, Step, On
<1>1. /\ TypeOK /\ Rounds /\ round[l] \in Round /\ Viewer(l) \in Nodes
      /\ held \in [Nodes -> SUBSET Tracks]
  BY <1>0, Applying, ViewerType DEF TypeOK
<1>2. /\ p \in shown[l] /\ round[l].answer[p] # None /\ round[l].answer[p] \subseteq Of(p, Tracks)
      /\ todo \subseteq round[l].answer[p] /\ todo \in SUBSET Tracks
  <2>1. CASE round[l].at = "apply"
    BY <1>0, <2>1, Applying DEF On, Of
  <2>2. CASE round[l].at = "upsert"
    BY <1>0, <2>2, Applying DEF On, Of
  <2> QED BY <1>0, <2>1, <2>2
<1>3. To(l, more) \/ To(l, done)
  BY DEF Upsert
<1>4. OwnerOf[t] = p
  BY <1>0, <1>2 DEF Of
<1>5. /\ next \in Round /\ next.at = round[l].at /\ next.job = round[l].job /\ next.who = p
      /\ next.answer = round[l].answer /\ next.left = round[l].left /\ next.todo = todo \ {t}
  BY <1>1, <1>2 DEF Round
<1>6. Libraries(Of(p, rows)) \subseteq {LibraryOf[u] : u \in Tracks}
  <2>1. Of(p, rows) \subseteq Tracks
    BY <1>1 DEF Of
  <2> QED BY <2>1 DEF Libraries
<1> HIDE DEF next
<1>7. /\ more \in Round /\ more.at = "upsert" /\ more.job = round[l].job /\ more.who = p
      /\ more.answer = round[l].answer /\ more.left = round[l].left /\ more.todo = todo \ {t}
  BY <1>5 DEF Round, Places
<1>8. /\ done \in Round /\ done.at = "prune" /\ done.job = round[l].job /\ done.who = p
      /\ done.answer = round[l].answer /\ done.left = round[l].left
  BY <1>5, <1>6 DEF Round, Places
<1> HIDE DEF more, done
<1>9. CASE To(l, more)
  <2>1. round'[l] = more
    BY <1>1, <1>9 DEF To, TypeOK
  <2>2. round'[l] # round[l]
    BY <1>0, <1>7, <2>1 DEF On
  <2>3. Rounds' /\ round' \in [Slots -> Round]
    BY <1>0, <1>2, <1>7, <1>9, GoesOnApplying
  <2> QED BY <1>2, <1>4, <2>2, <2>3
<1>10. CASE To(l, done)
  <2>1. round'[l] = done
    BY <1>1, <1>10 DEF To, TypeOK
  <2>2. round'[l] # round[l]
    BY <1>0, <1>8, <2>1 DEF On
  <2>3. Rounds' /\ round' \in [Slots -> Round]
    BY <1>0, <1>2, <1>8, <1>10, GoesOnApplying
  <2> QED BY <1>2, <1>4, <2>2, <2>3
<1> QED BY <1>3, <1>9, <1>10

LEMMA PruneRounds ==
  ASSUME IInv, Watch, NEW l \in Slots, NEW lib \in round[l].libs, Prune(l, lib)
  PROVE  Rounds' /\ round' \in [Slots -> Round]
<1> DEFINE r == round[l]
           goOn == [r EXCEPT !.libs = r.libs \ {lib}]
           rest == r.left \ {r.who}
           apply == [r EXCEPT !.at = "apply", !.left = rest, !.who = None, !.todo = {}, !.libs = {}]
<1>0. r.at = "prune" /\ r.left \in SUBSET Nodes /\ r.libs \in SUBSET {LibraryOf[t] : t \in Tracks}
  BY RoundTypes DEF IInv, Prune, Step, On
<1>1. TypeOK /\ Rounds /\ r \in Round
      /\ r.who \in shown[l] /\ r.answer[r.who] # None
  BY <1>0, Applying
<1>2. To(l, After(l)) \/ To(l, goOn) \/ To(l, apply)
  BY DEF Prune, Delete, Applied
<1>3. CASE To(l, goOn)
  <2>1. /\ goOn \in Round /\ goOn.at = "prune" /\ goOn.job = r.job /\ goOn.who = r.who
        /\ goOn.answer = r.answer /\ goOn.left = r.left
    BY <1>0, <1>1 DEF Round
  <2> HIDE DEF goOn
  <2> QED BY <1>0, <1>1, <1>3, <2>1, GoesOnApplying
<1>4. CASE To(l, apply)
  <2>1. /\ apply \in Round /\ apply.at = "apply" /\ apply.job = r.job
        /\ apply.answer = r.answer /\ apply.left \subseteq r.left
    BY <1>0, <1>1 DEF Round, Places
  <2> HIDE DEF apply
  <2> QED BY <1>0, <1>1, <1>4, <2>1, GoesOnApplying
<1> QED BY <1>1, <1>2, <1>3, <1>4, MovesOn

-----------------------------------------------------------------------------
(* Sessions that end, and instances that stop.                             *)

LEMMA EndRounds ==
  ASSUME TypeOK, Rounds, Watch, NEW ended, NEW gone, End(ended, gone)
  PROVE  Rounds' /\ round' \in [Slots -> Round]
<1>1. ASSUME NEW s \in Slots
      PROVE  Sound(s, round'[s], shown'[s], absent'[s]) /\ round'[s] \in Round
  <2>0. <<s[1], "new">> \in Slots /\ s = <<s[1], s[2]>>
    BY SlotTypes DEF Slots
  <2>1. \/ round'[s] = round[s]
        \/ /\ s[1] \in ended /\ s[2] = "old" /\ Leaves(s[1], gone)
           /\ round'[s] = round[<<s[1], "new">>]
        \/ round'[s] = Idle
    BY DEF End
  <2>2. CASE round'[s] = round[s]
    BY <2>2, Frame, RoundTypes
  <2>3. CASE round'[s] = Idle
    BY <2>3, SoundIdle, IdleTypes
  <2>4. CASE /\ s[1] \in ended /\ s[2] = "old" /\ Leaves(s[1], gone)
             /\ round'[s] = round[<<s[1], "new">>]
    <3> DEFINE new == <<s[1], "new">>
    <3>1. On(s, "idle") /\ round[new].at # "idle"
      BY <2>0, <2>4 DEF End, Leaves, On
    <3>2. shown[new] \subseteq shown'[s]
      BY <2>4, <3>1 DEF Watch, Seen
    <3>6. absent[new] \subseteq absent'[s] \/ round[new].at \in {"idle", "get"}
      <4>1. round[new].at \notin {"idle", "get"} => Lacks(s) = absent[new]
        BY <2>4, <3>1 DEF Lacks, On
      <4> QED BY <4>1 DEF Watch
    <3>3. Sound(new, round[new], shown[new], absent[new])
      BY <2>0, Stays
    <3>4. Node(new) = Node(s) /\ From(new) = From(s)
      BY DEF Node, From
    <3>5. Sound(s, round[new], shown[new], absent[new])
      BY <3>3, <3>4 DEF Sound
    <3> QED BY <2>0, <2>4, <3>2, <3>5, <3>6, Monotone, RoundTypes
  <2> QED BY <2>1, <2>2, <2>3, <2>4
<1>2. round' \in [Slots -> Round]
  BY <1>1 DEF End
<1> QED BY <1>1, <1>2 DEF Rounds

LEMMA EndStill ==
  ASSUME NEW ended, NEW gone, End(ended, gone)
  PROVE  Still
<1> SUFFICES ASSUME NEW s \in Slots, On(s, "post")
             PROVE round'[s].at \in {"idle", "post"}
  BY DEF Still
<1>1. s[2] \in {"old", "new"} /\ s = <<s[1], s[2]>>
  BY SlotTypes
<1>2. s[1] \in Loops
  BY SlotTypes
<1>3. s[1] \in ended /\ s[2] = "old" => ~Leaves(s[1], gone)
  BY <1>1, <1>2 DEF End, On
<1>4. round'[s] = round[s] \/ round'[s] = Idle
  BY <1>3 DEF End
<1> QED BY <1>4 DEF On, Idle

LEMMA AbortRounds ==
  ASSUME IInv, Watch, NEW l \in Slots, Abort(l)
  PROVE  Rounds' /\ round' \in [Slots -> Round]
BY MovesOn DEF Abort, IInv

\* The three ways of deciding.
LEMMA ScopeRounds ==
  ASSUME IInv, Watch, NEW l \in Slots, NEW p \in round[l].left,
         \/ Scope(l, p)
         \/ Deny(l, p)
         \/ \E n \in Nodes, g \in Groups : DeleteBetween(n, g, l, p)
  PROVE  Rounds' /\ round' \in [Slots -> Round]
<1>1. p \in Nodes
  BY RoundTypes DEF IInv
<1>2. CASE Scope(l, p)
  <2> DEFINE ok == Visible(Authority(l), p, Viewer(l))
  <2>1. ok \in BOOLEAN
    BY DEF Visible, Share
  <2>2. On(l, "scope") /\ UNCHANGED group /\ To(l, Decided(l, p, ok))
    BY <1>2 DEF Scope, Step, groups
  <2>3. ok => p \in Visibly(l)
    BY <1>1 DEF Visibly
  <2>4. ok \/ p \notin Visibly(l)
    BY DEF Visibly
  <2> HIDE DEF ok
  <2> QED BY <2>1, <2>2, <2>3, <2>4, DecidedSound
<1>3. CASE Deny(l, p) \/ \E n \in Nodes, g \in Groups : DeleteBetween(n, g, l, p)
  <2>1. On(l, "scope") /\ To(l, Decided(l, p, FALSE))
    BY <1>3 DEF Deny, DeleteBetween, Asks
  <2>2. faults' # faults \/ group' # group
    <3>1. CASE Deny(l, p)
      BY <3>1 DEF Deny, Fault, IInv, TypeOK
    <3>2. CASE \E n \in Nodes, g \in Groups : DeleteBetween(n, g, l, p)
      <4>1. PICK n \in Nodes, g \in Groups : DeleteBetween(n, g, l, p)
        BY <3>2
      <4>2. group[n][g] # None /\ group' = [group EXCEPT ![n][g] = None]
        BY <4>1 DEF DeleteBetween, Dissolve, Write
      <4>3. group'[n][g] = None
        BY <4>2 DEF IInv, TypeOK
      <4> QED BY <4>2, <4>3
    <3> QED BY <1>3, <3>1, <3>2
  <2> QED BY <2>1, <2>2, DecidedSound
<1> QED BY <1>2, <1>3

-----------------------------------------------------------------------------
(* The tables and the groups.                                              *)

TableTypes ==
  /\ shared \in SUBSET Tracks /\ cache \in [Members -> (SUBSET Tracks) \cup {None}]
  /\ held \in [Nodes -> SUBSET Tracks] /\ queued \in [Nodes -> SUBSET Tracks]
GroupTypes ==
  /\ group \in [Nodes -> [Groups -> (SUBSET Nodes) \cup {None}]]
  /\ seeded \in [Nodes -> BOOLEAN] /\ boot \in [Nodes -> Boots]
  /\ seeds \in [Nodes -> Nat] /\ slips \in [Nodes -> Nat]
CountTypes == changes \in Nat /\ faults \in Nat

Settled ==
  /\ TableTypes /\ GroupTypes /\ CountTypes
  /\ Seeding /\ Pushed /\ Rounds /\ round \in [Slots -> Round]

LEMMA TypeParts == TypeOK => TableTypes /\ GroupTypes /\ CountTypes
BY DEF TypeOK, TableTypes, GroupTypes, CountTypes

LEMMA Settles == IInv /\ Watch /\ Settled' => IInv'
<1> SUFFICES ASSUME IInv, Watch, Settled' PROVE IInv'
  OBVIOUS
<1>1. TypeOK'
  BY WatchTypes DEF IInv, Settled, TableTypes, GroupTypes, CountTypes, TypeOK
<1> QED BY <1>1 DEF IInv, Settled

LEMMA Counting ==
  ASSUME CountTypes
  PROVE  (Change => changes' \in Nat) /\ (Fault => faults' \in Nat)
BY DEF CountTypes, Change, Fault

LEMMA SameGroups ==
  ASSUME IInv, UNCHANGED groups
  PROVE  GroupTypes' /\ Seeding'
<1>1. group' = group /\ seeded' = seeded /\ boot' = boot /\ seeds' = seeds /\ slips' = slips
  BY DEF groups, start
<1> QED BY <1>1 DEF IInv, TypeOK, GroupTypes, Seeding, Up

\* A group is written by an instance that is up, or it is not deleted.
LEMMA GroupWritten ==
  ASSUME IInv, NEW n \in Nodes, NEW g \in Groups, NEW members \in (SUBSET Nodes) \cup {None},
         Write(n, g, members), UNCHANGED start, Up(n) \/ members # None
  PROVE  GroupTypes' /\ Seeding'
<1>1. GroupTypes /\ Seeding
  BY TypeParts DEF IInv
<1>2. GroupTypes'
  BY <1>1 DEF GroupTypes, Write, start
<1>3. ASSUME NEW m \in Nodes, ~seeded[m], group'[m][Default] = None
      PROVE  seeds[m] <= slips[m]
  <2>1. group'[m][Default] = group[m][Default] \/ (m = n /\ group'[m][Default] = members)
    BY <1>1, CatalogAssumption DEF GroupTypes, Write
  <2>2. Up(m) \/ group[m][Default] = None
    BY <1>3, <2>1
  <2> QED BY <1>1, <1>3, <2>2 DEF Seeding
<1>4. Seeding'
  BY <1>1, <1>3 DEF Seeding, Up, start
<1> QED BY <1>2, <1>4

LEMMA AdminGroups ==
  ASSUME IInv, NEW n \in Nodes, NEW g \in Groups,
         UNCHANGED start, Up(n) \/ ~Dissolve(n, g),
         \/ Create(n, g)
         \/ Dissolve(n, g)
         \/ \E p \in Nodes : Join(n, g, p) \/ Part(n, g, p)
  PROVE  GroupTypes' /\ Seeding'
<1>1. group[n][g] \in (SUBSET Nodes) \cup {None}
  BY DEF IInv, TypeOK
<1>2. CASE Create(n, g)
  <2>1. Write(n, g, {}) /\ {} # None
    BY <1>2, CatalogAssumption DEF Create
  <2> QED BY <2>1, GroupWritten
<1>3. CASE Dissolve(n, g)
  BY <1>3, GroupWritten DEF Dissolve
<1>4. CASE \E p \in Nodes : Join(n, g, p) \/ Part(n, g, p)
  <2>1. PICK p \in Nodes : Join(n, g, p) \/ Part(n, g, p)
    BY <1>4
  <2>2. PICK members \in SUBSET Nodes : Write(n, g, members)
    BY <1>1, <2>1 DEF Join, Part
  <2>3. members # None
    BY CatalogAssumption
  <2> QED BY <2>2, <2>3, GroupWritten
<1> QED BY <1>2, <1>3, <1>4

LEMMA GroupSteps ==
  ASSUME IInv, Watch, NEW n \in Nodes, NEW g \in Groups,
         \/ CreateGroup(n, g) \/ DeleteGroup(n, g)
         \/ \E p \in Nodes : AddMember(n, g, p) \/ RemoveMember(n, g, p)
  PROVE  Settled'
<1>1. TableTypes /\ CountTypes /\ Rounds /\ Pushed /\ round \in [Slots -> Round]
  BY TypeParts DEF IInv, TypeOK
<1>2. /\ UNCHANGED <<tables, cache, start, round, faults>> /\ Change /\ Up(n)
      /\ \/ Create(n, g)
         \/ Dissolve(n, g)
         \/ \E p \in Nodes : Join(n, g, p) \/ Part(n, g, p)
  BY DEF CreateGroup, DeleteGroup, AddMember, RemoveMember
<1>3. GroupTypes' /\ Seeding'
  BY <1>2, AdminGroups
<1>4. CountTypes'
  BY <1>1, <1>2, Counting DEF CountTypes
<1>5. TableTypes' /\ UNCHANGED <<cache, round>>
  BY <1>1, <1>2 DEF TableTypes, tables
<1> QED BY <1>1, <1>3, <1>4, <1>5, PushedStep, StillAll, FrameAll DEF Settled

LEMMA BootSteps ==
  ASSUME IInv, Watch, NEW n \in Nodes, Boot(n)
  PROVE  Settled'
<1>1. /\ TableTypes /\ GroupTypes /\ CountTypes /\ Rounds /\ Pushed /\ Seeding
      /\ round \in [Slots -> Round]
  BY TypeParts DEF IInv, TypeOK
<1>2. UNCHANGED <<tables, cache, round, changes>> /\ (UNCHANGED faults \/ Fault)
  BY DEF Boot, SeedRead, SeedCreate, SeedSelf, SeedPeer, SeedMark, SeedUnread, SeedFails, Slip,
         Booting, start
<1>3. GroupTypes' /\ Seeding'
  <2>1. CASE SeedRead(n)
    <3>1. boot[n] = "flag" /\ UNCHANGED <<group, seeded, seeds, slips>>
      BY <2>1 DEF SeedRead, Booting
    <3>2. PICK b \in {"up", "mark", "create"} :
            /\ boot' = [boot EXCEPT ![n] = b]
            /\ b = "up" => seeded[n]
            /\ b = "create" => ~seeded[n] /\ ~Active(n)
      BY <2>1 DEF SeedRead, BootTo, Found
    <3>3. b = "create" => seeds[n] <= slips[n]
      BY <1>1, <3>2, CatalogAssumption DEF Active, Seeding, GroupTypes
    <3> QED BY <1>1, <3>1, <3>2, <3>3 DEF GroupTypes, Seeding, Boots, Up
  <2>2. CASE SeedCreate(n)
    <3>1. /\ boot[n] = "create" /\ boot' = [boot EXCEPT ![n] = "self"]
          /\ group' = [group EXCEPT ![n][Default] = {}]
          /\ seeds' = [seeds EXCEPT ![n] = seeds[n] + 1] /\ UNCHANGED <<seeded, slips>>
      BY <2>2 DEF SeedCreate, Booting, BootTo, Create, Write
    <3>2. seeds[n] <= slips[n] /\ {} # None
      BY <1>1, <3>1, CatalogAssumption DEF Seeding
    <3>3. GroupTypes'
      <4>1. group' \in [Nodes -> [Groups -> (SUBSET Nodes) \cup {None}]]
        BY <1>1, <3>1 DEF GroupTypes
      <4>2. seeds' \in [Nodes -> Nat] /\ boot' \in [Nodes -> Boots]
        BY <1>1, <3>1 DEF GroupTypes, Boots
      <4> QED BY <1>1, <3>1, <4>1, <4>2 DEF GroupTypes
    <3>4. group'[n][Default] = {} /\ boot'[n] = "self" /\ seeds'[n] = seeds[n] + 1
      BY <1>1, <3>1, CatalogAssumption DEF GroupTypes
    <3>5. ASSUME NEW m \in Nodes, m # n
          PROVE  group'[m] = group[m] /\ boot'[m] = boot[m] /\ seeds'[m] = seeds[m]
      BY <1>1, <3>1, <3>5 DEF GroupTypes
    <3>6. seeds[n] \in Nat /\ slips[n] \in Nat
      BY <1>1 DEF GroupTypes
    <3>7. ASSUME NEW m \in Nodes
          PROVE  /\ seeds'[m] <= 1 + slips[m]
                 /\ boot'[m] = "create" => seeds'[m] <= slips[m]
                 /\ ~seeded[m] /\ (boot'[m] = "up" \/ group'[m][Default] = None)
                      => seeds'[m] <= slips[m]
      <4>1. CASE m = n
        BY <3>2, <3>4, <3>6, <4>1
      <4>2. CASE m # n
        BY <1>1, <3>5, <4>2 DEF Seeding, Up
      <4> QED BY <4>1, <4>2
    <3>8. Seeding'
      BY <3>1, <3>7 DEF Seeding, Up
    <3> QED BY <3>3, <3>8
  <2>3. CASE SeedSelf(n) \/ SeedPeer(n)
    <3>1. PICK p \in Nodes : Join(n, Default, p)
      BY <2>3, CatalogAssumption DEF SeedSelf, SeedPeer
    <3>2. UNCHANGED <<seeded, seeds, slips>> /\ boot[n] \in {"self", "peers"}
          /\ (boot' = [boot EXCEPT ![n] = "peers"] \/ UNCHANGED boot)
      BY <2>3 DEF SeedSelf, SeedPeer, Booting, BootTo, start
    <3>3. PICK members \in SUBSET Nodes : group' = [group EXCEPT ![n][Default] = members]
      <4>1. group[n][Default] \in SUBSET Nodes
        BY <1>1, <3>1, CatalogAssumption DEF Join, GroupTypes
      <4>2. group[n][Default] \cup {p} \in SUBSET Nodes
        BY <4>1
      <4> QED BY <3>1, <4>2 DEF Join, Write
    <3>4. members # None
      BY CatalogAssumption
    <3>5. GroupTypes'
      BY <1>1, <3>2, <3>3 DEF GroupTypes, Boots
    <3>6. ASSUME NEW m \in Nodes PROVE group'[m][Default] = None => group[m][Default] = None
      BY <1>1, <3>3, <3>4, CatalogAssumption DEF GroupTypes
    <3>7. ASSUME NEW m \in Nodes
          PROVE  (boot'[m] = "create" => boot[m] = "create") /\ (boot'[m] = "up" => boot[m] = "up")
      BY <1>1, <3>2 DEF GroupTypes
    <3>8. Seeding'
      BY <1>1, <3>2, <3>6, <3>7 DEF Seeding, Up
    <3> QED BY <3>5, <3>8
  <2>4. CASE SeedMark(n)
    <3>1. /\ boot' = [boot EXCEPT ![n] = "up"] /\ seeded' = [seeded EXCEPT ![n] = TRUE]
          /\ UNCHANGED <<group, seeds, slips>>
      BY <2>4 DEF SeedMark, BootTo
    <3> QED BY <1>1, <3>1 DEF GroupTypes, Seeding, Up, Boots
  <2>5. CASE SeedUnread(n) \/ SeedFails(n)
    <3>1. /\ UNCHANGED <<group, seeded, seeds>> /\ slips' = [slips EXCEPT ![n] = slips[n] + 1]
          /\ \E b \in {"up", "mark", "create"} : boot' = [boot EXCEPT ![n] = b]
      BY <2>5 DEF SeedUnread, SeedFails, Slip, BootTo, Found
    <3>2. GroupTypes'
      BY <1>1, <3>1 DEF GroupTypes, Boots
    <3>3. slips'[n] = slips[n] + 1 /\ seeds[n] \in Nat /\ slips[n] \in Nat /\ seeds[n] <= slips'[n]
      BY <1>1, <3>1 DEF GroupTypes, Seeding
    <3>4. ASSUME NEW m \in Nodes, m # n PROVE slips'[m] = slips[m] /\ boot'[m] = boot[m]
      BY <1>1, <3>1, <3>4 DEF GroupTypes
    <3>5. ASSUME NEW m \in Nodes
          PROVE  /\ seeds[m] <= 1 + slips'[m]
                 /\ boot'[m] = "create" => seeds[m] <= slips'[m]
                 /\ ~seeded[m] /\ (boot'[m] = "up" \/ group[m][Default] = None)
                      => seeds[m] <= slips'[m]
      <4>1. CASE m = n
        BY <3>3, <4>1
      <4>2. CASE m # n
        BY <1>1, <3>4, <4>2 DEF Seeding, Up
      <4> QED BY <4>1, <4>2
    <3>6. Seeding'
      BY <3>1, <3>5 DEF Seeding, Up
    <3> QED BY <3>2, <3>6
  <2> QED BY <2>1, <2>2, <2>3, <2>4, <2>5 DEF Boot
<1>4. TableTypes' /\ CountTypes' /\ UNCHANGED <<cache, round>>
  BY <1>1, <1>2, Counting DEF TableTypes, CountTypes, tables
<1> QED BY <1>1, <1>3, <1>4, PushedStep, StillAll, FrameAll DEF Settled

-----------------------------------------------------------------------------
(* Every step.                                                             *)

LEMMA InitIInv == Init => IInv
<1> SUFFICES ASSUME Init PROVE IInv
  OBVIOUS
<1>1. TypeOK
  <2>1. round \in [Slots -> Round]
    BY IdleTypes DEF Init
  <2>2. group \in [Nodes -> [Groups -> (SUBSET Nodes) \cup {None}]]
    BY DEF Init
  <2>3. seeded \in [Nodes -> BOOLEAN]
    <3>1. \A n \in Nodes : (n \notin Upgraded) \in BOOLEAN
      OBVIOUS
    <3> QED BY <3>1, Zenon DEF Init
  <2>4. /\ shared \in SUBSET Tracks /\ cache \in [Members -> (SUBSET Tracks) \cup {None}]
        /\ held \in [Nodes -> SUBSET Tracks] /\ queued \in [Nodes -> SUBSET Tracks]
        /\ shown \in [Slots -> SUBSET Nodes] /\ lacking \in [Members -> SUBSET Tracks]
        /\ absent \in [Slots -> SUBSET Tracks]
    BY DEF Init
  <2>5. boot \in [Nodes -> Boots] /\ seeds \in [Nodes -> Nat] /\ slips \in [Nodes -> Nat]
        /\ changes \in Nat /\ faults \in Nat
    BY DEF Init, Boots
  <2> QED BY <2>1, <2>2, <2>3, <2>4, <2>5 DEF TypeOK
<1>2. Seeding
  BY DEF Init, Seeding
<1>3. Pushed
  BY DEF Init, Pushed
<1>4. Rounds
  BY SoundIdle DEF Init, Rounds
<1> QED BY <1>1, <1>2, <1>3, <1>4 DEF IInv

LEMMA WorkSteps ==
  ASSUME IInv, Watch, NEW l \in Slots,
         \/ Start(l) \/ Work(l) \/ Abort(l)
         \/ \E p \in round[l].left : Deny(l, p)
  PROVE  Settled'
<1>1. /\ TableTypes /\ CountTypes /\ Pushed /\ l[1] \in Loops /\ Viewer(l) \in Nodes
      /\ round[l].left \in SUBSET Nodes
  BY TypeParts, SlotTypes, ViewerType, RoundTypes DEF IInv
<1>2. UNCHANGED groups
  BY DEF Start, Work, Abort, Deny, Receive, Merged, Export, Scope, ApplyEmpty, Upsert, Prune, Step
<1>3. CountTypes'
  BY <1>1, Counting DEF CountTypes, Start, Work, Abort, Deny, Receive, Merged, Export, Scope,
                        ApplyEmpty, Upsert, Prune, Step, counts
<1>4. GroupTypes' /\ Seeding'
  BY <1>2, SameGroups
<1>5. SUFFICES TableTypes' /\ Pushed' /\ Rounds' /\ round' \in [Slots -> Round]
  BY <1>3, <1>4 DEF Settled
<1>16. ~Receive(l) => Still
  <2>1. ~Receive(l) => ~On(l, "post") /\ \E next : To(l, next)
    BY DEF Start, Work, Abort, Deny, Merged, Export, Scope, ApplyEmpty, Upsert, Prune, Step, On, Asks,
           Delete
  <2> QED BY <2>1, StillOne DEF IInv
<1>17. CASE Receive(l)
  <2>1. Rounds' /\ round' \in [Slots -> Round] /\ Pushed'
    BY <1>17, ReceiveRounds
  <2>2. UNCHANGED tables /\ cache' = [cache EXCEPT ![Node(l)] = round[l].answer[Node(l)]]
    BY <1>17 DEF Receive
  <2>3. round[l].answer[Node(l)] \in (SUBSET Tracks) \cup {None}
    BY SlotTypes, RoundTypes DEF IInv
  <2> QED BY <1>1, <2>1, <2>2, <2>3 DEF TableTypes, tables
<1>18. SUFFICES ASSUME ~Receive(l) PROVE TableTypes' /\ Pushed' /\ Rounds' /\ round' \in [Slots -> Round]
  BY <1>17
<1>19. Still
  BY <1>16, <1>18
<1>6. CASE Start(l)
  BY <1>1, <1>6, StartRounds, <1>19, PushedStep DEF Start, tables, TableTypes
<1>8. CASE Merged(l)
  BY <1>1, <1>8, MergedRounds, <1>19, PushedStep DEF Merged, tables, TableTypes
<1>9. CASE Export(l)
  BY <1>1, <1>9, ExportRounds, <1>19, PushedStep DEF Export, tables, TableTypes
<1>10. CASE \E p \in round[l].left : Scope(l, p)
  BY <1>1, <1>10, ScopeRounds, <1>19, PushedStep DEF Scope, tables, TableTypes
<1>11. CASE \E p \in round[l].left : Deny(l, p)
  BY <1>1, <1>11, ScopeRounds, <1>19, PushedStep DEF Deny, tables, TableTypes
<1>12. CASE \E p \in round[l].left : ApplyEmpty(l, p)
  <2>1. PICK p \in round[l].left : ApplyEmpty(l, p)
    BY <1>12
  <2>2. Rounds' /\ round' \in [Slots -> Round]
    BY <2>1, ApplyEmptyRounds
  <2>3. UNCHANGED <<shared, queued, cache>>
        /\ (UNCHANGED held
            \/ held' = [held EXCEPT ![Viewer(l)] = held[Viewer(l)] \ Of(p, held[Viewer(l)])])
    BY <2>1 DEF ApplyEmpty, Delete
  <2>4. TableTypes'
    BY <1>1, <2>3 DEF TableTypes
  <2> QED BY <1>1, <2>2, <2>3, <2>4, <1>19, PushedStep
<1>13. CASE \E p \in round[l].left : \E t \in Tracks : Upsert(l, p, t)
  <2>1. PICK p \in round[l].left, t \in Tracks : Upsert(l, p, t)
    BY <1>13
  <2>2. Rounds' /\ round' \in [Slots -> Round]
    BY <1>1, <2>1, UpsertRounds
  <2>3. UNCHANGED <<shared, queued, cache>>
        /\ held' = [held EXCEPT ![Viewer(l)] = held[Viewer(l)] \cup {t}]
    BY <2>1 DEF Upsert
  <2>4. TableTypes'
    BY <1>1, <2>3 DEF TableTypes
  <2> QED BY <1>1, <2>2, <2>3, <2>4, <1>19, PushedStep
<1>14. CASE \E lib \in round[l].libs : Prune(l, lib)
  <2>1. PICK lib \in round[l].libs : Prune(l, lib)
    BY <1>14
  <2>2. Rounds' /\ round' \in [Slots -> Round]
    BY <2>1, PruneRounds
  <2>3. UNCHANGED <<shared, queued, cache>>
        /\ (UNCHANGED held
            \/ \E rows : held' = [held EXCEPT ![Viewer(l)] = held[Viewer(l)] \ rows])
    BY <2>1 DEF Prune, Delete
  <2>4. TableTypes'
    BY <1>1, <2>3 DEF TableTypes
  <2> QED BY <1>1, <2>2, <2>3, <2>4, <1>19, PushedStep
<1>15. CASE Abort(l)
  BY <1>1, <1>15, AbortRounds, <1>19, PushedStep DEF Abort, tables, TableTypes
<1> QED BY <1>6, <1>8, <1>9, <1>10, <1>11, <1>12, <1>13, <1>14, <1>15, <1>18 DEF Work

LEMMA DeleteBetweenStep ==
  ASSUME IInv, Watch, NEW n \in Nodes, NEW g \in Groups, NEW l \in Slots,
         NEW p \in round[l].left, DeleteBetween(n, g, l, p)
  PROVE  Settled'
<1>1. TableTypes /\ CountTypes /\ Pushed
  BY TypeParts DEF IInv
<1>2. /\ UNCHANGED <<tables, cache, start, faults>> /\ Change /\ Up(n) /\ Dissolve(n, g)
  BY DEF DeleteBetween
<1>3. Rounds' /\ round' \in [Slots -> Round]
  BY ScopeRounds
<1>4. GroupTypes' /\ Seeding'
  BY <1>2, AdminGroups
<1>5. CountTypes' /\ TableTypes'
  BY <1>1, <1>2, Counting DEF CountTypes, TableTypes, tables
<1>6. ~On(l, "post") /\ \E next : To(l, next)
  BY DEF DeleteBetween, Asks, On
<1>7. Still
  BY <1>6, StillOne DEF IInv
<1> QED BY <1>1, <1>2, <1>3, <1>4, <1>5, <1>7, PushedStep DEF Settled

LEMMA EndSteps ==
  ASSUME IInv, Watch,
         (\E l \in Loops : Cut(l)) \/ \E n \in Nodes : Crash(n)
  PROVE  Settled'
<1>1. /\ TableTypes /\ GroupTypes /\ CountTypes /\ Pushed /\ Seeding /\ TypeOK /\ Rounds
  BY TypeParts DEF IInv
<1>2. CASE \E l \in Loops : Cut(l)
  <2>1. PICK l \in Loops : Cut(l)
    BY <1>2
  <2>2. Rounds' /\ round' \in [Slots -> Round]
    BY <1>1, <2>1, EndRounds DEF Cut
  <2>5. Still
    BY <2>1, EndStill DEF Cut
  <2>3. UNCHANGED <<tables, cache, groups, changes>> /\ Fault
    BY <2>1 DEF Cut
  <2>4. TableTypes' /\ CountTypes'
    BY <1>1, <2>3, Counting DEF tables, TableTypes, CountTypes
  <2> QED BY <1>1, <2>2, <2>3, <2>4, <2>5, SameGroups, PushedStep DEF Settled
<1>3. CASE \E n \in Nodes : Crash(n)
  <2>1. PICK n \in Nodes : Crash(n)
    BY <1>3
  <2>2. Rounds' /\ round' \in [Slots -> Round]
    BY <1>1, <2>1, EndRounds DEF Crash
  <2>7. Still
    BY <2>1, EndStill DEF Crash
  <2>3. /\ UNCHANGED <<tables, group, seeded, seeds, slips, changes>> /\ Fault
        /\ boot' = [boot EXCEPT ![n] = "flag"]
        /\ cache' = [m \in Members |-> None] \/ UNCHANGED cache
    BY <2>1 DEF Crash
  <2>4. TableTypes' /\ CountTypes'
    BY <1>1, <2>3, Counting DEF tables, TableTypes, CountTypes
  <2>5. GroupTypes' /\ Seeding'
    <3>1. GroupTypes'
      BY <1>1, <2>3 DEF GroupTypes, Boots
    <3>2. ASSUME NEW m \in Nodes
          PROVE  (boot'[m] = "create" => boot[m] = "create") /\ (boot'[m] = "up" => boot[m] = "up")
      BY <1>1, <2>3 DEF GroupTypes
    <3>3. Seeding'
      BY <1>1, <2>3, <3>2 DEF Seeding, Up
    <3> QED BY <3>1, <3>3
  <2>6. Pushed'
    <3>1. CASE UNCHANGED cache
      BY <1>1, <2>7, <3>1, PushedStep
    <3>2. CASE cache' = [m \in Members |-> None]
      BY <3>2 DEF Pushed, Missing, Of
    <3> QED BY <2>3, <3>1, <3>2
  <2> QED BY <2>2, <2>4, <2>5, <2>6 DEF Settled
<1> QED BY <1>2, <1>3

LEMMA TableSteps ==
  ASSUME IInv, Watch,
         \/ \E t \in Tracks : Scan(t)
         \/ \E n \in Nodes, t \in Tracks : Request(n, t) \/ Play(n, t)
  PROVE  Settled'
<1>1. /\ TableTypes /\ CountTypes /\ Pushed /\ Rounds /\ round \in [Slots -> Round]
  BY TypeParts DEF IInv, TypeOK
<1>2. UNCHANGED <<cache, groups, round, held>>
  BY DEF Scan, Request, Play
<1>3. TableTypes' /\ CountTypes'
  <2>1. CASE \E t \in Tracks : Scan(t)
    BY <1>1, <2>1, Counting DEF Scan, TableTypes, CountTypes
  <2>2. CASE \E n \in Nodes, t \in Tracks : Request(n, t) \/ Play(n, t)
    BY <1>1, <2>2, Counting DEF Request, Play, TableTypes, CountTypes, counts
  <2> QED BY <2>1, <2>2
<1> QED BY <1>1, <1>2, <1>3, SameGroups, PushedStep, StillAll, FrameAll DEF Settled

LEMMA StepIInv == IInv /\ [Next]_vars => IInv'
<1> SUFFICES ASSUME IInv, [Next]_vars PROVE IInv'
  OBVIOUS
<1>1. CASE Next
  <2>1. Watch /\ Do
    BY <1>1 DEF Next
  <2>2. {l.from : l \in Loops} \subseteq Nodes
    BY CatalogAssumption
  <2>3. Settled'
    BY <2>1, <2>2, GroupSteps, BootSteps, WorkSteps, DeleteBetweenStep, EndSteps, TableSteps DEF Do
  <2> QED BY <2>1, <2>3, Settles
<1>2. CASE UNCHANGED vars
  <2>1. UNCHANGED <<tables, cache, groups, round, shown, lacking, absent, counts>>
    BY <1>2 DEF vars
  <2> QED BY <2>1 DEF tables, groups, start, counts, IInv, TypeOK, Seeding, Pushed, Rounds, Up, Missing
<1> QED BY <1>1, <1>2

-----------------------------------------------------------------------------
(* What is deleted and what is written.                                    *)

\* A round that deletes is then somewhere else.
LEMMA Moved ==
  ASSUME TypeOK, NEW l \in Slots,
         \/ \E p \in round[l].left : ApplyEmpty(l, p)
         \/ \E lib \in round[l].libs : Prune(l, lib)
  PROVE  round'[l] # round[l]
<1>0. round[l] \in Round
  BY RoundTypes
<1>1. After(l).at \in {"idle", "get"}
  BY DEF After, Idle
<1>2. CASE \E p \in round[l].left : ApplyEmpty(l, p)
  <2>1. PICK p \in round[l].left : ApplyEmpty(l, p)
    BY <1>2
  <2>2. round[l].at = "apply"
    BY <2>1 DEF ApplyEmpty, Step, On
  <2>3. To(l, After(l)) \/ To(l, [round[l] EXCEPT !.left = round[l].left \ {p}])
    BY <2>1 DEF ApplyEmpty, Delete
  <2>4. [round[l] EXCEPT !.left = round[l].left \ {p}].left = round[l].left \ {p}
    BY <1>0 DEF Round
  <2>5. round'[l] = After(l) \/ round'[l].left = round[l].left \ {p}
    BY <2>3, <2>4 DEF To, TypeOK
  <2> QED BY <1>1, <2>1, <2>2, <2>5
<1>3. CASE \E lib \in round[l].libs : Prune(l, lib)
  <2>1. PICK lib \in round[l].libs : Prune(l, lib)
    BY <1>3
  <2>2. round[l].at = "prune"
    BY <2>1 DEF Prune, Step, On
  <2>3. \/ To(l, After(l)) \/ To(l, Applied(l))
        \/ To(l, [round[l] EXCEPT !.libs = round[l].libs \ {lib}])
    BY <2>1 DEF Prune, Delete
  <2>4. [round[l] EXCEPT !.libs = round[l].libs \ {lib}].libs = round[l].libs \ {lib}
    BY <1>0 DEF Round
  <2>5. Applied(l).at # "prune"
    BY <1>0, <1>1 DEF Applied, Round
  <2>6. round'[l].at # "prune" \/ round'[l].libs = round[l].libs \ {lib}
    BY <1>1, <2>3, <2>4, <2>5 DEF To, TypeOK
  <2> QED BY <2>1, <2>2, <2>6
<1> QED BY <1>2, <1>3

\* Only an empty catalog, or one that leaves rows out, deletes anything.
LEMMA Deletes ==
  ASSUME IInv, Next, NEW v \in Nodes, NEW t \in held[v] \ held'[v]
  PROVE  \E s \in Slots : Viewer(s) = v /\ round'[s] # round[s] /\ t \in absent[s]
<1>0. /\ Watch /\ TypeOK /\ held \in [Nodes -> SUBSET Tracks] /\ t \in Tracks
  BY DEF IInv, Next, TypeOK
<1>1. \E l \in Slots : \/ \E p \in round[l].left : ApplyEmpty(l, p)
                       \/ \E lib \in round[l].libs : Prune(l, lib)
  <2>1. \/ UNCHANGED held
        \/ \E l \in Slots : \E p \in round[l].left : \/ ApplyEmpty(l, p)
                                                     \/ \E u \in Tracks : Upsert(l, p, u)
        \/ \E l \in Slots : \E lib \in round[l].libs : Prune(l, lib)
    BY DEF Next, Do, CreateGroup, DeleteGroup, AddMember, RemoveMember, DeleteBetween, Boot, SeedRead,
           SeedCreate, SeedSelf, SeedPeer, SeedMark, SeedUnread, SeedFails, Slip, Booting, Crash, Cut, Start, Work, Abort, Deny,
           Receive, Merged, Scope, Export, Scan, Request, Play, tables
  <2>2. ASSUME NEW l \in Slots, NEW p \in round[l].left, NEW u \in Tracks, Upsert(l, p, u) PROVE FALSE
    <3>1. held' = [held EXCEPT ![Viewer(l)] = held[Viewer(l)] \cup {u}]
      BY <2>2 DEF Upsert
    <3> QED BY <1>0, <3>1
  <2> QED BY <2>1, <2>2
<1>2. PICK l \in Slots : \/ \E p \in round[l].left : ApplyEmpty(l, p)
                         \/ \E lib \in round[l].libs : Prune(l, lib)
  BY <1>1
<1>3. CASE \E p \in round[l].left : ApplyEmpty(l, p)
  <2>1. PICK p \in round[l].left : ApplyEmpty(l, p)
    BY <1>3
  <2>2. round[l].at = "apply" /\ round[l].answer[p] = {}
    BY <2>1 DEF ApplyEmpty, Step, On
  <2>3. Viewer(l) = v /\ t \in Of(p, held[v])
    <3>1. held' = [held EXCEPT ![Viewer(l)] = held[Viewer(l)] \ Of(p, held[Viewer(l)])]
          \/ UNCHANGED held
      BY <2>1 DEF ApplyEmpty, Delete
    <3> QED BY <1>0, <3>1
  <2>4. p \in Nodes /\ round[l].answer[p] # None /\ Missing(round[l].answer, p, absent[l])
    BY <2>2, <2>3, Applying
  <2>5. t \in absent[l]
    BY <1>0, <2>2, <2>3, <2>4 DEF Missing, Of
  <2>6. round'[l] # round[l]
    BY <1>0, <2>1, <2>2, Moved
  <2> QED BY <2>3, <2>5, <2>6
<1>4. CASE \E lib \in round[l].libs : Prune(l, lib)
  <2>1. PICK lib \in round[l].libs : Prune(l, lib)
    BY <1>4
  <2> DEFINE p == round[l].who
             gone == {u \in Of(p, held[Viewer(l)]) \ round[l].answer[p] : LibraryOf[u] = lib}
  <2>2. round[l].at = "prune"
    BY <2>1 DEF Prune, Step, On
  <2>3. Viewer(l) = v /\ t \in gone
    <3>1. held' = [held EXCEPT ![Viewer(l)] = held[Viewer(l)] \ gone] \/ UNCHANGED held
      BY <2>1 DEF Prune, Delete
    <3> QED BY <1>0, <3>1
  <2>4. p \in Nodes /\ round[l].answer[p] # None /\ Missing(round[l].answer, p, absent[l])
    BY <2>2, <2>3, Applying
  <2>5. t \in absent[l]
    BY <1>0, <2>3, <2>4 DEF Missing, Of
  <2>6. round'[l] # round[l]
    BY <1>0, <2>1, Moved
  <2> QED BY <2>3, <2>5, <2>6
<1> QED BY <1>2, <1>3, <1>4

\* Only a row of a peer that the viewer saw during its round is written.
LEMMA Writes ==
  ASSUME IInv, Next, NEW v \in Nodes, NEW t \in held'[v] \ held[v]
  PROVE  \E l \in Slots : Viewer(l) = v /\ round'[l] # round[l] /\ OwnerOf[t] \in shown[l]
<1>0. /\ Watch /\ TypeOK /\ held \in [Nodes -> SUBSET Tracks]
  BY DEF IInv, Next, TypeOK
<1>1. \/ \A n \in Nodes : held'[n] \subseteq held[n]
      \/ \E l \in Slots : \E p \in round[l].left : \E u \in Tracks : Upsert(l, p, u)
  <2>1. \/ UNCHANGED held
        \/ \E l \in Slots : \E p \in round[l].left : \/ ApplyEmpty(l, p)
                                                     \/ \E u \in Tracks : Upsert(l, p, u)
        \/ \E l \in Slots : \E lib \in round[l].libs : Prune(l, lib)
    BY DEF Next, Do, CreateGroup, DeleteGroup, AddMember, RemoveMember, DeleteBetween, Boot, SeedRead,
           SeedCreate, SeedSelf, SeedPeer, SeedMark, SeedUnread, SeedFails, Slip, Booting, Crash, Cut, Start, Work, Abort, Deny,
           Receive, Merged, Scope, Export, Scan, Request, Play, tables
  <2>2. ASSUME NEW l \in Slots, NEW rows, NEW next, Delete(l, rows, next)
        PROVE  \A n \in Nodes : held'[n] \subseteq held[n]
    <3>1. UNCHANGED held \/ held' = [held EXCEPT ![Viewer(l)] = held[Viewer(l)] \ rows]
      BY <2>2 DEF Delete
    <3> QED BY <1>0, <3>1
  <2> QED BY <2>1, <2>2 DEF ApplyEmpty, Prune
<1>2. PICK l \in Slots : \E p \in round[l].left : \E u \in Tracks : Upsert(l, p, u)
  BY <1>1
<1>3. PICK p \in round[l].left, u \in Tracks : Upsert(l, p, u)
  BY <1>2
<1>4. p \in Nodes
  BY <1>0, RoundTypes
<1>5. Viewer(l) = v /\ t = u
  <2>1. held' = [held EXCEPT ![Viewer(l)] = held[Viewer(l)] \cup {u}]
    BY <1>3 DEF Upsert
  <2> QED BY <1>0, <2>1
<1> QED BY <1>0, <1>3, <1>4, <1>5, UpsertRounds

LEMMA SpecIInv == Spec => []IInv
BY InitIInv, StepIInv, PTL DEF Spec

-----------------------------------------------------------------------------
\* Every variable keeps its type; in particular every answer that is being applied names
\* tracks or nothing for each node.
THEOREM CatalogTyped == Spec => []TypeOK
BY SpecIInv, PTL DEF IInv

\* However starts crash and administrators create and delete groups, the default group is
\* seeded at most once on each node, and once more for each seeding that a failed statement
\* broke off.
THEOREM SeedsOnce == Spec => []SeededOnce
<1>1. IInv => SeededOnce
  BY DEF IInv, Seeding, SeededOnce
<1> QED BY <1>1, SpecIInv, PTL

\* Whatever restarts, remains of old rounds and broken sessions interleave, a row is deleted
\* only by an answer for its viewer that left it out because its track was not shared when
\* the catalog was read, or because the viewer was refused its owner.
THEOREM RowsStable == Spec => StableRows
<1>1. IInv /\ [Next]_vars =>
        [\A v \in Nodes : \A t \in held[v] \ held'[v] :
           \E s \in Slots : Viewer(s) = v /\ round'[s] # round[s] /\ t \in absent[s]]_vars
  BY Deletes
<1> QED BY <1>1, SpecIInv, PTL DEF Spec, StableRows

\* No row is written of a peer that its viewer has not been entitled to see since the push or
\* the pull began that writes it.
THEOREM NothingLeaks == Spec => NoLeak
<1>1. IInv /\ [Next]_vars =>
        [\A v \in Nodes : \A t \in held'[v] \ held[v] :
           \E l \in Slots : Viewer(l) = v /\ round'[l] # round[l] /\ OwnerOf[t] \in shown[l]]_vars
  BY Writes
<1> QED BY <1>1, SpecIInv, PTL DEF Spec, NoLeak
=============================================================================
