--------------------------- MODULE PeerAudioProofs ---------------------------
(***************************************************************************)
(* Proofs about PeerAudio: its types, that an answering PeerConnection is  *)
(* never orphaned, that a failed dial evicts no other dial's connection,   *)
(* and that requests which do not share a channel get their own answers.   *)
(***************************************************************************)
EXTENDS PeerAudio, TLAPS

\* A connection that is not shared has at most one user.
OneUser ==
  \A q, r \in Requests :
    conn[q] \notin shared /\ q \in Using(conn[q]) /\ r \in Using(conn[q]) => q = r

\* What a channel that is not shared holds, by where its user is; bytes left when the
\* connection ends are never read.
Idle(c) == fromPeer[c] = <<>> /\ (toPeer[c] = <<>> \/ FarClosed(c))

Asked(c, r) ==
  \/ fromPeer[c] = <<>> /\ (toPeer[c] = <<r>> \/ FarClosed(c))
  \/ toPeer[c] = <<>> /\ fromPeer[c] = << <<"head", r>>, <<"body", r>> >>

Answering(c, r) == toPeer[c] = <<>> /\ fromPeer[c] = << <<"body", r>> >>

Channel(c) ==
  /\ (\A r \in Requests : conn[r] = c => at[r] \notin {"head", "body"}) /\ pc[c] # "closed"
       => Idle(c)
  /\ \A r \in Requests :
       conn[r] = c => (at[r] = "head" => Asked(c, r)) /\ (at[r] = "body" => Answering(c, r))

Channels == \A c \in Requests \ shared : Channel(c)

\* What is served is what the far end of the channel reads and writes.
FarEnd == \A n \in Negs : neg[n] = "serving" => remote[sid[n]] = n

\* A client is given nothing before its answer, and then only that.
Copies ==
  /\ \A r \in Requests : at[r] \in {"new", "offer", "wait", "write", "head"} => copied[r] = {}
  /\ \A r \in Requests : copied[r] \subseteq {r} \/ conn[r] \in shared

NewHasNone == \A r \in Requests : at[r] = "new" => pc[r] = "none"

IInv == TypeOK /\ AnswererAccounted /\ OneUser /\ Channels /\ FarEnd /\ Copies /\ NewHasNone

-----------------------------------------------------------------------------
(* The typing and the answering side.                                       *)

LEMMA FreshOne ==
  ASSUME Fresh # {}
  PROVE  /\ (CHOOSE n \in Fresh : TRUE) \in Negs
         /\ neg[CHOOSE n \in Fresh : TRUE] = "none"
BY DEF Fresh

LEMMA Signals ==
  /\ \A r \in Requests : [type |-> "offer", of |-> r] \in Messages
  /\ \A n \in Negs : [type |-> "answer", of |-> n] \in Messages
BY DEF Messages

LEMMA PostTypes ==
  ASSUME mail \subseteq Messages, NEW m \in Messages, NEW d \in BOOLEAN, Post(m, d)
  PROVE  mail' \subseteq Messages
BY DEF Post

\* TypeOK, by the variables that an action may leave alone together.
OfferingTypes ==
  /\ at \in [Requests -> {"new", "offer", "wait", "write", "head", "body", "end", "nexttier"}]
  /\ conn \in [Requests -> Requests \cup {None}]
  /\ pc \in [Requests -> {"none", "open", "closed"}]
  /\ opening \in [Requests -> {"no", "put", "store", "done"}]
  /\ dial \subseteq Requests /\ cache \in Requests \cup {None}

AnsweringTypes ==
  /\ sid \in [Negs -> Requests \cup {None}]
  /\ slot \in [Requests -> Negs \cup {None}]
  /\ neg \in [Negs -> {"none", "setup", "answered", "serving", "closed"}]
  /\ failing \subseteq Negs

SignalTypes ==
  /\ mail \subseteq Messages /\ remote \in [Requests -> Negs \cup {None}]
  /\ cut \subseteq Requests /\ dups \in Nat

DataTypes ==
  /\ toPeer \in [Requests -> Seq(Requests)] /\ fromPeer \in [Requests -> Seq(Frames)]
  /\ copied \in [Requests -> SUBSET Requests] /\ shared \subseteq Requests

Claims ==
  /\ \A r \in Requests : r \in dial <=> at[r] \in {"offer", "wait"}
  /\ \A r \in Requests : at[r] \in {"write", "head", "body"} => conn[r] # None

LEMMA TypeParts ==
  TypeOK <=> OfferingTypes /\ AnsweringTypes /\ SignalTypes /\ DataTypes /\ Claims
BY DEF TypeOK, OfferingTypes, AnsweringTypes, SignalTypes, DataTypes, Claims

\* Neither side steps for the other.
LEMMA OffererAlone ==
  ASSUME NEW r \in Requests, Offerer(r) \/ Stream(r) \/ Cut(r)
  PROVE  UNCHANGED answering
BY DEF Offerer, Stream, Dial, SendOffer, GiveUp, Return, Opened, Put, Store, Lost, Write,
       ReadHead, ReadBody, ClientGone, Broken, Cut

LEMMA AnswererAlone ==
  /\ \A r \in Requests : ReadOffer(r) \/ Cut(r) => UNCHANGED offering
  /\ \A n \in Negs : Answerer(n) => UNCHANGED offering
BY DEF Answerer, ReadOffer, Cut, Answer, AnswerFails, Watchdog, Accept, PeerLost, Serve,
       RouteAnswer

LEMMA DialFails ==
  ASSUME OfferingTypes, Claims, NEW r \in Requests, Fail(r)
  PROVE  OfferingTypes' /\ Claims'
<1>1. pc' \in [Requests -> {"none", "open", "closed"}] /\ cache' \in Requests \cup {None}
  BY DEF OfferingTypes, Fail, Release
<1>2. OfferingTypes'
  BY <1>1 DEF OfferingTypes, Fail
<1>3. Claims'
  BY DEF OfferingTypes, Claims, Fail
<1> QED BY <1>2, <1>3

LEMMA TakesUp ==
  ASSUME OfferingTypes, Claims, NEW r \in Requests, NEW c \in Requests, Use(r, c),
         dial' = dial \ {r}, pc' = pc, opening' = opening, cache' = cache
  PROVE  OfferingTypes' /\ Claims'
BY PeerAudioAssumption DEF OfferingTypes, Claims, Use

LEMMA InitTypes == Init => TypeOK /\ AnswererAccounted
BY PeerAudioAssumption DEF Init, TypeOK, AnswererAccounted

LEMMA ServeTypes ==
  ASSUME NEW c \in Requests, toPeer \in [Requests -> Seq(Requests)],
         fromPeer \in [Requests -> Seq(Frames)], toPeer[c] # <<>>
  PROVE  /\ Tail(toPeer[c]) \in Seq(Requests)
         /\ fromPeer[c] \o << <<"head", Head(toPeer[c])>>, <<"body", Head(toPeer[c])>> >>
              \in Seq(Frames)
<1>1. Head(toPeer[c]) \in Requests /\ Tail(toPeer[c]) \in Seq(Requests)
  OBVIOUS
<1>2. <<"head", Head(toPeer[c])>> \in Frames /\ <<"body", Head(toPeer[c])>> \in Frames
  BY <1>1 DEF Frames
<1>3. << <<"head", Head(toPeer[c])>>, <<"body", Head(toPeer[c])>> >> \in Seq(Frames)
  BY <1>2
<1> QED BY <1>1, <1>3

LEMMA ReadTypes ==
  ASSUME NEW c \in Requests, fromPeer \in [Requests -> Seq(Frames)], fromPeer[c] # <<>>
  PROVE  Tail(fromPeer[c]) \in Seq(Frames) /\ Head(fromPeer[c])[2] \in Requests
<1>1. Head(fromPeer[c]) \in Frames /\ Tail(fromPeer[c]) \in Seq(Frames)
  OBVIOUS
<1> QED BY <1>1 DEF Frames

LEMMA StepOffering ==
  ASSUME OfferingTypes, Claims, [Next]_vars
  PROVE  OfferingTypes' /\ Claims'
<1> USE PeerAudioAssumption
<1>1. CASE UNCHANGED offering
  BY <1>1 DEF OfferingTypes, Claims, offering
<1>2. ASSUME NEW r \in Requests, Dial(r) PROVE OfferingTypes' /\ Claims'
  <2>1. CASE cache # None /\ pc[cache] = "open"
    <3>1. r \notin dial
      BY <1>2 DEF Claims, Dial
    <3> QED BY <1>2, <2>1, <3>1, TakesUp DEF OfferingTypes, Dial
  <2>2. CASE ~(cache # None /\ pc[cache] = "open")
    BY <1>2, <2>2 DEF OfferingTypes, Claims, Dial
  <2> QED BY <2>1, <2>2
<1>3. ASSUME NEW r \in Requests, SendOffer(r) PROVE OfferingTypes' /\ Claims'
  <2>1. CASE Fail(r)
    BY <2>1, DialFails
  <2>2. CASE ~Fail(r)
    BY <1>3, <2>2 DEF OfferingTypes, Claims, SendOffer
  <2> QED BY <2>1, <2>2
<1>4. ASSUME NEW r \in Requests, GiveUp(r) PROVE OfferingTypes' /\ Claims'
  BY <1>4, DialFails DEF GiveUp
<1>5. ASSUME NEW r \in Requests, Return(r) PROVE OfferingTypes' /\ Claims'
  BY <1>5, TakesUp DEF Return
<1>6. ASSUME NEW r \in Requests, Opened(r) \/ Put(r) \/ Store(r) PROVE OfferingTypes' /\ Claims'
  BY <1>6 DEF OfferingTypes, Claims, Opened, Put, Store
<1>7. ASSUME NEW r \in Requests, Lost(r) PROVE OfferingTypes' /\ Claims'
  BY <1>7 DEF OfferingTypes, Claims, Lost, Release
<1>8. ASSUME NEW r \in Requests, Stream(r) PROVE OfferingTypes' /\ Claims'
  <2>1. \E p \in {"head", "body", "end"} :
          /\ at[r] \in {"write", "head", "body"} /\ at' = [at EXCEPT ![r] = p]
          /\ UNCHANGED <<conn, pc, opening, dial, cache>>
    BY <1>8 DEF Stream, Write, ReadHead, ReadBody, ClientGone, Broken, Finish
  <2> QED BY <2>1 DEF OfferingTypes, Claims
<1> QED
  BY <1>1, <1>2, <1>3, <1>4, <1>5, <1>6, <1>7, <1>8, AnswererAlone DEF Next, Offerer, vars

LEMMA StepAnswering ==
  ASSUME AnsweringTypes, [Next]_vars
  PROVE  AnsweringTypes'
<1>1. CASE UNCHANGED answering
  BY <1>1 DEF AnsweringTypes, answering
<1>2. ASSUME NEW r \in Requests, ReadOffer(r) PROVE AnsweringTypes'
  <2> DEFINE n == CHOOSE n \in Fresh : TRUE
  <2>1. n \in Negs /\ Claim(n, r)
    BY <1>2, FreshOne DEF ReadOffer
  <2> HIDE DEF n
  <2> QED BY <2>1 DEF AnsweringTypes, Claim, answering
<1>3. ASSUME NEW n \in Negs, Answer(n) \/ Accept(n) \/ Serve(n) \/ RouteAnswer(n)
      PROVE  AnsweringTypes'
  BY <1>3 DEF AnsweringTypes, Answer, Accept, Serve, RouteAnswer, answering
<1>4. ASSUME NEW n \in Negs, AnswerFails(n) \/ Watchdog(n) \/ PeerLost(n)
      PROVE  AnsweringTypes'
  <2>1. Teardown(n)
    BY <1>4 DEF AnswerFails, Watchdog, PeerLost
  <2> QED BY <2>1 DEF AnsweringTypes, Teardown
<1> QED BY <1>1, <1>2, <1>3, <1>4, OffererAlone DEF Next, Answerer, vars

LEMMA StepSignals ==
  ASSUME TypeOK, [Next]_vars
  PROVE  SignalTypes'
<1> USE PeerAudioAssumption, TypeParts
<1>1. CASE UNCHANGED <<mail, remote, cut, dups>>
  BY <1>1 DEF SignalTypes
<1>2. ASSUME NEW r \in Requests, SendOffer(r) PROVE SignalTypes'
  BY <1>2, Signals, PostTypes DEF SignalTypes, SendOffer
<1>3. ASSUME NEW r \in Requests, ReadOffer(r) \/ Cut(r) PROVE SignalTypes'
  BY <1>3 DEF SignalTypes, ReadOffer, Cut
<1>4. ASSUME NEW n \in Negs, Answer(n) PROVE SignalTypes'
  BY <1>4, Signals, PostTypes DEF SignalTypes, Answer
<1>5. ASSUME NEW n \in Negs, RouteAnswer(n) PROVE SignalTypes'
  BY <1>5 DEF SignalTypes, RouteAnswer
<1>6. ASSUME NEW r \in Requests, Offerer(r) \/ Stream(r), ~SendOffer(r) PROVE SignalTypes'
  BY <1>1, <1>6 DEF Offerer, Stream, Dial, GiveUp, Return, Opened, Put, Store, Lost, Write,
                    ReadHead, ReadBody, ClientGone, Broken, data
<1>7. ASSUME NEW n \in Negs, Answerer(n), ~Answer(n), ~RouteAnswer(n) PROVE SignalTypes'
  BY <1>1, <1>7 DEF Answerer, AnswerFails, Watchdog, Accept, PeerLost, Serve, data
<1>8. CASE UNCHANGED vars
  BY <1>1, <1>8 DEF vars
<1> QED BY <1>2, <1>3, <1>4, <1>5, <1>6, <1>7, <1>8 DEF Next

LEMMA StepData ==
  ASSUME TypeOK, AnswererAccounted, [Next]_vars
  PROVE  DataTypes'
<1> USE TypeParts
<1>1. CASE UNCHANGED data
  BY <1>1 DEF DataTypes, data
<1>2. ASSUME NEW r \in Requests, NEW c \in Requests, Use(r, c), UNCHANGED <<toPeer, fromPeer, copied>>
      PROVE  DataTypes'
  BY <1>2 DEF DataTypes, Use
<1>3. ASSUME NEW r \in Requests, Dial(r) \/ Return(r) PROVE DataTypes'
  BY <1>1, <1>2, <1>3 DEF Dial, Return, OfferingTypes, data
<1>4. ASSUME NEW r \in Requests, Write(r) PROVE DataTypes'
  <2>1. conn[r] \in Requests
    BY <1>4 DEF OfferingTypes, Claims, Write
  <2>2. Append(toPeer[conn[r]], r) \in Seq(Requests)
    BY <2>1 DEF DataTypes
  <2> QED BY <1>4, <2>1, <2>2 DEF DataTypes, Write
<1>5. ASSUME NEW r \in Requests, ReadHead(r) \/ ReadBody(r) PROVE DataTypes'
  <2> DEFINE c == conn[r]
  <2>1. c \in Requests /\ fromPeer[c] # <<>>
    BY <1>5 DEF OfferingTypes, Claims, ReadHead, ReadBody
  <2>2. Tail(fromPeer[c]) \in Seq(Frames) /\ Head(fromPeer[c])[2] \in Requests
    BY <2>1, ReadTypes DEF DataTypes
  <2>3. fromPeer' = [fromPeer EXCEPT ![c] = Tail(@)] /\ UNCHANGED <<toPeer, shared>>
    BY <1>5 DEF ReadHead, ReadBody
  <2>4. \/ UNCHANGED copied
        \/ copied' = [copied EXCEPT ![r] = {Head(fromPeer[c])[2]}]
        \/ copied' = [copied EXCEPT ![r] = @ \cup {Head(fromPeer[c])[2]}]
    BY <1>5 DEF ReadHead, ReadBody
  <2> HIDE DEF c
  <2>5. copied' \in [Requests -> SUBSET Requests]
    <3>1. copied \in [Requests -> SUBSET Requests] /\ {Head(fromPeer[c])[2]} \in SUBSET Requests
      BY <2>2 DEF DataTypes
    <3>2. copied[r] \cup {Head(fromPeer[c])[2]} \in SUBSET Requests
      BY <3>1
    <3> QED BY <2>4, <3>1, <3>2
  <2> QED BY <2>1, <2>2, <2>3, <2>5 DEF DataTypes
<1>6. ASSUME NEW r \in Requests, ClientGone(r) PROVE DataTypes'
  BY <1>6 DEF DataTypes, OfferingTypes, Claims, ClientGone
<1>7. ASSUME NEW n \in Negs, Serve(n) PROVE DataTypes'
  <2>1. neg[n] = "serving" /\ toPeer[sid[n]] # <<>>
    BY <1>7 DEF Serve
  <2>2. sid[n] \in Requests
    <3>1. sid[n] \in Requests \cup {None}
      BY DEF AnsweringTypes
    <3> QED BY <2>1, <3>1 DEF AnswererAccounted
  <2> QED BY <1>7, <2>1, <2>2, ServeTypes DEF DataTypes, Serve
<1>8. ASSUME NEW r \in Requests,
             SendOffer(r) \/ GiveUp(r) \/ Opened(r) \/ Put(r) \/ Store(r) \/ Lost(r)
               \/ Broken(r) \/ ReadOffer(r) \/ Cut(r)
      PROVE  DataTypes'
  BY <1>1, <1>8 DEF SendOffer, GiveUp, Opened, Put, Store, Lost, Broken, ReadOffer, Cut
<1>9. ASSUME NEW n \in Negs, Answerer(n), ~Serve(n) PROVE DataTypes'
  BY <1>1, <1>9 DEF Answerer, Answer, AnswerFails, Watchdog, Accept, PeerLost, RouteAnswer
<1>10. CASE UNCHANGED vars
  BY <1>1, <1>10 DEF vars
<1> QED BY <1>3, <1>4, <1>5, <1>6, <1>7, <1>8, <1>9, <1>10 DEF Next, Offerer, Stream

LEMMA StepTypes ==
  ASSUME TypeOK, AnswererAccounted, [Next]_vars
  PROVE  TypeOK'
<1>1. OfferingTypes' /\ Claims'
  BY TypeParts, StepOffering
<1>2. AnsweringTypes' /\ SignalTypes' /\ DataTypes'
  BY TypeParts, StepAnswering, StepSignals, StepData
<1> QED
  BY <1>1, <1>2
  DEF TypeOK, OfferingTypes, AnsweringTypes, SignalTypes, DataTypes, Claims

\* Only the reader and what ends a negotiation change who holds a SID.
LEMMA StepAccounted ==
  ASSUME TypeOK, AnswererAccounted, [Next]_vars
  PROVE  AnswererAccounted'
<1> USE PeerAudioAssumption
<1>1. CASE UNCHANGED vars
  BY <1>1 DEF AnswererAccounted, vars, answering
<1>2. ASSUME NEW r \in Requests, Offerer(r) \/ Stream(r) \/ Cut(r) PROVE AnswererAccounted'
  BY <1>2, OffererAlone DEF AnswererAccounted, answering
<1>3. ASSUME NEW r \in Requests, ReadOffer(r) PROVE AnswererAccounted'
  <2>1. CASE slot[r] # None
    BY <1>3, <2>1 DEF AnswererAccounted, ReadOffer, Claim, answering
  <2>2. CASE slot[r] = None
    <3> DEFINE n == CHOOSE n \in Fresh : TRUE
    <3>1. n \in Negs /\ neg[n] = "none"
      BY <1>3, FreshOne DEF ReadOffer
    <3> HIDE DEF n
    <3>2. Claim(n, r)
      BY <1>3 DEF ReadOffer, n
    <3>3. /\ slot' = [slot EXCEPT ![r] = n] /\ sid' = [sid EXCEPT ![n] = r]
          /\ neg' = [neg EXCEPT ![n] = "setup"]
      BY <2>2, <3>2 DEF Claim
    <3>4. slot \in [Requests -> Negs \cup {None}] /\ sid \in [Negs -> Requests \cup {None}]
      BY DEF TypeOK
    <3>5. neg \in [Negs -> {"none", "setup", "answered", "serving", "closed"}]
      BY DEF TypeOK
    <3>6. ASSUME NEW m \in Negs
          PROVE  neg'[m] \in {"setup", "answered", "serving"} <=> sid'[m] # None /\ slot'[sid'[m]] = m
      <4>1. neg[m] \in {"setup", "answered", "serving"} <=> sid[m] # None /\ slot[sid[m]] = m
        BY DEF AnswererAccounted
      <4> QED BY <2>2, <3>1, <3>3, <3>4, <3>5, <4>1
    <3> QED BY <3>6 DEF AnswererAccounted
  <2> QED BY <2>1, <2>2
<1>4. ASSUME NEW n \in Negs, Answer(n) \/ Accept(n) \/ Serve(n) \/ RouteAnswer(n)
      PROVE  AnswererAccounted'
  BY <1>4 DEF AnswererAccounted, TypeOK, Answer, Accept, Serve, RouteAnswer, answering
<1>5. ASSUME NEW n \in Negs, AnswerFails(n) \/ Watchdog(n) \/ PeerLost(n)
      PROVE  AnswererAccounted'
  <2>1. neg[n] \in {"setup", "answered", "serving"} /\ Teardown(n)
    BY <1>5 DEF AnswerFails, Watchdog, PeerLost
  <2>2. sid[n] \in Requests /\ slot[sid[n]] = n
    BY <2>1 DEF AnswererAccounted, TypeOK
  <2> QED BY <2>1, <2>2 DEF AnswererAccounted, TypeOK, Teardown
<1> QED BY <1>1, <1>2, <1>3, <1>4, <1>5 DEF Next, Answerer

-----------------------------------------------------------------------------
(* Channels and those who use them.                                         *)

\* What a request does on its connection, without the bytes.
LEMMA StreamMoves ==
  ASSUME NEW r \in Requests, Stream(r)
  PROVE  /\ \E p \in {"head", "body", "end"} : at' = [at EXCEPT ![r] = p]
         /\ at[r] \in {"write", "head", "body"}
         /\ UNCHANGED <<conn, pc, opening, dial, cache, remote>>
         /\ shared' \in {shared, shared \cup {conn[r]}}
BY DEF Stream, Write, ReadHead, ReadBody, ClientGone, Broken, Finish, data

\* What a dial does to the requests and their connections.
LEMMA OffererMoves ==
  ASSUME NEW r \in Requests, Offerer(r)
  PROVE  /\ UNCHANGED <<toPeer, fromPeer, copied, remote>>
         /\ \/ \E c \in {r, cache} : Use(r, c) /\ at[r] \in {"new", "wait"} /\ UNCHANGED pc
            \/ /\ UNCHANGED <<conn, shared>>
               /\ \/ UNCHANGED at
                  \/ /\ at[r] = "new" /\ at' = [at EXCEPT ![r] = "offer"]
                     /\ pc' = [pc EXCEPT ![r] = "open"]
                  \/ /\ at[r] \in {"offer", "wait"}
                     /\ at' \in {[at EXCEPT ![r] = "wait"], [at EXCEPT ![r] = "nexttier"]}
         /\ \/ UNCHANGED pc
            \/ at[r] = "new" /\ pc' = [pc EXCEPT ![r] = "open"]
            \/ (at[r] \in {"offer", "wait"} \/ pc[r] = "open") /\ pc' = [pc EXCEPT ![r] = "closed"]
BY DEF Offerer, Dial, SendOffer, GiveUp, Return, Opened, Put, Store, Lost, Use, Fail, Release,
       data

LEMMA AnswererMoves ==
  /\ \A r \in Requests : ReadOffer(r) \/ Cut(r) => UNCHANGED data
  /\ \A n \in Negs : Answerer(n) => Serve(n) \/ UNCHANGED data
BY DEF Answerer, ReadOffer, Cut, Answer, AnswerFails, Watchdog, Accept, PeerLost, RouteAnswer

\* A negotiation that is closed stays so, and an answer that is applied stays applied.
LEMMA FarClosedStays ==
  ASSUME TypeOK, [Next]_vars, NEW c \in Requests, FarClosed(c)
  PROVE  FarClosed(c)'
<1>1. remote[c] \in Negs /\ neg[remote[c]] = "closed"
  BY DEF TypeOK, FarClosed, Far
<1>2. remote'[c] = remote[c]
  <2>1. CASE UNCHANGED remote
    BY <2>1
  <2>2. ASSUME NEW n \in Negs, RouteAnswer(n) PROVE remote'[c] = remote[c]
    BY <1>1, <2>2, PeerAudioAssumption DEF RouteAnswer, TypeOK
  <2>3. ASSUME NEW r \in Requests, ReadOffer(r) \/ Cut(r) PROVE UNCHANGED remote
    BY <2>3 DEF ReadOffer, Cut
  <2>4. ASSUME NEW n \in Negs, Answerer(n), ~RouteAnswer(n) PROVE UNCHANGED remote
    BY <2>4 DEF Answerer, Answer, AnswerFails, Watchdog, Accept, PeerLost, Serve
  <2> QED BY <2>1, <2>2, <2>3, <2>4, StreamMoves, OffererMoves DEF Next, vars
<1>3. \A n \in Negs : neg[n] = "closed" => neg'[n] = "closed"
  <2>1. CASE UNCHANGED answering
    BY <2>1 DEF answering
  <2>2. ASSUME NEW r \in Requests, ReadOffer(r) PROVE \A n \in Negs : neg[n] = "closed" => neg'[n] = "closed"
    BY <2>2, FreshOne DEF ReadOffer, Claim, answering, TypeOK
  <2>3. ASSUME NEW m \in Negs, Answerer(m) PROVE \A n \in Negs : neg[n] = "closed" => neg'[n] = "closed"
    BY <2>3 DEF Answerer, Answer, AnswerFails, Watchdog, Accept, PeerLost, Serve, RouteAnswer,
                Teardown, answering, TypeOK
  <2> QED BY <2>1, <2>2, <2>3, OffererAlone DEF Next, vars
<1> QED BY <1>1, <1>2, <1>3, PeerAudioAssumption DEF FarClosed, Far

LEMMA StepOneUser ==
  ASSUME TypeOK, OneUser, [Next]_vars
  PROVE  OneUser'
<1>1. ASSUME UNCHANGED conn, shared \subseteq shared',
             \A q \in Requests : at'[q] \in {"write", "head", "body"} => at[q] \in {"write", "head", "body"}
      PROVE  OneUser'
  BY <1>1 DEF OneUser, Using
<1>2. ASSUME NEW r \in Requests, NEW c, Use(r, c), at[r] \in {"new", "wait"}
      PROVE  OneUser'
  BY <1>2 DEF OneUser, Using, Use, TypeOK
<1>3. ASSUME NEW r \in Requests, Offerer(r) PROVE OneUser'
  <2>1. CASE \E c \in {r, cache} : Use(r, c) /\ at[r] \in {"new", "wait"}
    BY <1>2, <2>1
  <2>2. CASE /\ UNCHANGED <<conn, shared>>
             /\ \/ UNCHANGED at
                \/ at[r] = "new" /\ at' = [at EXCEPT ![r] = "offer"]
                \/ /\ at[r] \in {"offer", "wait"}
                   /\ at' \in {[at EXCEPT ![r] = "wait"], [at EXCEPT ![r] = "nexttier"]}
    BY <1>1, <2>2 DEF TypeOK
  <2> QED BY <1>3, <2>1, <2>2, OffererMoves
<1>4. ASSUME NEW r \in Requests, Stream(r) PROVE OneUser'
  BY <1>1, <1>4, StreamMoves DEF TypeOK
<1>5. CASE UNCHANGED <<offering, shared>>
  BY <1>1, <1>5 DEF offering
<1>6. ASSUME NEW n \in Negs, Serve(n) PROVE UNCHANGED <<offering, shared>>
  BY <1>6 DEF Serve
<1> QED BY <1>3, <1>4, <1>5, <1>6, AnswererAlone, AnswererMoves DEF Next, vars, data

LEMMA StepNewHasNone ==
  ASSUME TypeOK, NewHasNone, [Next]_vars
  PROVE  NewHasNone'
<1>1. CASE UNCHANGED offering
  BY <1>1 DEF NewHasNone, offering
<1>2. ASSUME NEW r \in Requests, Stream(r) PROVE NewHasNone'
  BY <1>2, StreamMoves DEF NewHasNone, TypeOK
<1>3. ASSUME NEW r \in Requests, Offerer(r) PROVE NewHasNone'
  <2>1. \A q \in Requests : at'[q] = "new" => at[q] = "new"
    <3>1. CASE \E c \in {r, cache} : Use(r, c)
      BY <3>1 DEF Use, TypeOK
    <3>2. CASE \/ UNCHANGED at
               \/ at' = [at EXCEPT ![r] = "offer"]
               \/ at' \in {[at EXCEPT ![r] = "wait"], [at EXCEPT ![r] = "nexttier"]}
      BY <3>2 DEF TypeOK
    <3> QED BY <1>3, <3>1, <3>2, OffererMoves
  <2>2. \/ UNCHANGED pc
        \/ at[r] = "new" /\ pc' = [pc EXCEPT ![r] = "open"]
        \/ (at[r] \in {"offer", "wait"} \/ pc[r] = "open") /\ pc' = [pc EXCEPT ![r] = "closed"]
    BY <1>3, OffererMoves
  <2>3. at[r] = "new" => at'[r] # "new" \/ UNCHANGED pc
    BY <1>3 DEF TypeOK, Offerer, Dial, SendOffer, GiveUp, Return, Opened, Put, Store, Lost, Use, Fail,
                NewHasNone
  <2> QED BY <2>1, <2>2, <2>3 DEF NewHasNone, TypeOK
<1> QED BY <1>1, <1>2, <1>3, AnswererAlone DEF Next, vars

LEMMA StepFarEnd ==
  ASSUME TypeOK, FarEnd, [Next]_vars
  PROVE  FarEnd'
<1>1. CASE UNCHANGED <<answering, remote>>
  BY <1>1 DEF FarEnd, answering
<1>2. ASSUME NEW r \in Requests, ReadOffer(r) PROVE FarEnd'
  <2>1. PICK n \in Negs : neg[n] = "none" /\ Claim(n, r)
    BY <1>2, FreshOne DEF ReadOffer
  <2> QED BY <1>2, <2>1 DEF FarEnd, ReadOffer, Claim, answering, TypeOK
<1>3. ASSUME NEW n \in Negs, Accept(n) PROVE FarEnd'
  BY <1>3 DEF FarEnd, Accept, TypeOK
<1>4. ASSUME NEW n \in Negs, Answer(n) \/ AnswerFails(n) \/ Watchdog(n) \/ PeerLost(n) PROVE FarEnd'
  BY <1>4 DEF FarEnd, Answer, AnswerFails, Watchdog, PeerLost, Teardown, TypeOK
<1>5. ASSUME NEW n \in Negs, RouteAnswer(n) PROVE FarEnd'
  BY <1>5, PeerAudioAssumption DEF FarEnd, RouteAnswer, answering, TypeOK
<1>6. ASSUME NEW n \in Negs, Serve(n) PROVE FarEnd'
  BY <1>1, <1>6 DEF Serve
<1>7. ASSUME NEW r \in Requests, Offerer(r) \/ Stream(r) \/ Cut(r) PROVE FarEnd'
  <2>1. UNCHANGED remote
    BY <1>7, StreamMoves, OffererMoves DEF Cut
  <2> QED BY <1>1, <1>7, <2>1, OffererAlone
<1> QED
  BY <1>1, <1>2, <1>3, <1>4, <1>5, <1>6, <1>7 DEF Next, Answerer, vars

-----------------------------------------------------------------------------
(* What a channel holds.                                                    *)

\* No request comes to read or stops reading, and no connection opens again.
Steady ==
  /\ \A r \in Requests :
       \/ at'[r] = at[r] /\ conn'[r] = conn[r]
       \/ at[r] \notin {"head", "body"} /\ at'[r] \notin {"head", "body"}
  /\ \A c \in Requests : pc'[c] # "closed" => pc[c] # "closed"

\* A steady step that leaves the bytes in a channel alone.
LEMMA ChannelKept ==
  ASSUME NEW c \in Requests, Channel(c), toPeer'[c] = toPeer[c], fromPeer'[c] = fromPeer[c],
         FarClosed(c) => FarClosed(c)', Steady
  PROVE  Channel(c)'
<1>1. Idle(c) => Idle(c)'
  BY DEF Idle
<1>2. \A r \in Requests : /\ Asked(c, r) => Asked(c, r)'
                          /\ Answering(c, r) => Answering(c, r)'
  BY DEF Asked, Answering
<1> QED BY <1>1, <1>2 DEF Channel, Steady

\* A user of a channel that is not shared steps from one place to another.
LEMMA UserSteps ==
  ASSUME TypeOK, OneUser, NEW r \in Requests, NEW c \in Requests, conn[r] = c, c \notin shared,
         NEW p \in {"head", "body", "end"},
         at[r] \in {"write", "head", "body"},
         at' = [at EXCEPT ![r] = p], UNCHANGED <<conn, pc>>,
         p = "head" => Asked(c, r)', p = "body" => Answering(c, r)',
         p = "end" /\ pc[c] # "closed" => Idle(c)'
  PROVE  Channel(c)'
<1>1. \A q \in Requests : conn[q] = c /\ q # r => at[q] \notin {"write", "head", "body"}
  BY DEF OneUser, Using
<1>2. at'[r] = p /\ \A q \in Requests \ {r} : at'[q] = at[q]
  BY DEF TypeOK
<1> QED BY <1>1, <1>2 DEF Channel

LEMMA StepChannels ==
  ASSUME IInv, [Next]_vars
  PROVE  Channels'
<1> USE DEF IInv
<1>1. \A c \in Requests : FarClosed(c) => FarClosed(c)'
  BY FarClosedStays
<1>2. ASSUME UNCHANGED <<toPeer, fromPeer>>, shared \subseteq shared', Steady
      PROVE  Channels'
  <2> SUFFICES ASSUME NEW c \in Requests, c \notin shared' PROVE Channel(c)'
    BY DEF Channels
  <2>1. Channel(c) /\ toPeer'[c] = toPeer[c] /\ fromPeer'[c] = fromPeer[c]
    BY <1>2 DEF Channels
  <2> QED BY <1>1, <1>2, <2>1, ChannelKept
<1>3. ASSUME NEW r \in Requests, Offerer(r) PROVE Channels'
  <2>1. \A c \in Requests : pc'[c] # "closed" => pc[c] # "closed"
    BY <1>3, OffererMoves DEF TypeOK, NewHasNone
  <2>2. UNCHANGED <<toPeer, fromPeer>>
    BY <1>3, OffererMoves
  <2>3. CASE \E c \in {r, cache} : Use(r, c) /\ at[r] \in {"new", "wait"}
    <3>1. shared \subseteq shared' /\ Steady
      BY <2>1, <2>3 DEF Use, TypeOK, Steady
    <3> QED BY <1>2, <2>2, <3>1
  <2>4. CASE /\ UNCHANGED <<conn, shared>>
             /\ \/ UNCHANGED at
                \/ at[r] = "new" /\ at' = [at EXCEPT ![r] = "offer"]
                \/ /\ at[r] \in {"offer", "wait"}
                   /\ at' \in {[at EXCEPT ![r] = "wait"], [at EXCEPT ![r] = "nexttier"]}
    <3>1. shared \subseteq shared' /\ Steady
      BY <2>1, <2>4 DEF TypeOK, Steady
    <3> QED BY <1>2, <2>2, <3>1
  <2> QED BY <1>3, <2>3, <2>4, OffererMoves
<1>4. CASE UNCHANGED <<offering, toPeer, fromPeer, shared>>
  <2>1. Steady /\ shared \subseteq shared' /\ UNCHANGED <<toPeer, fromPeer>>
    BY <1>4 DEF offering, Steady
  <2> QED BY <1>2, <2>1
<1>5. ASSUME NEW n \in Negs, Serve(n) PROVE Channels'
  <2>1. PICK c \in Requests : c = sid[n] /\ remote[c] = n /\ ~FarClosed(c) /\ toPeer[c] # <<>>
    BY <1>5 DEF AnswererAccounted, FarEnd, FarClosed, Far, Serve, TypeOK
  <2>2. UNCHANGED <<at, conn, pc, shared>>
    BY <1>5 DEF Serve, offering
  <2>3. /\ toPeer' = [toPeer EXCEPT ![c] = Tail(@)]
        /\ fromPeer' = [fromPeer EXCEPT ![c] =
                          @ \o << <<"head", Head(toPeer[c])>>, <<"body", Head(toPeer[c])>> >>]
    BY <1>5, <2>1 DEF Serve
  <2> SUFFICES ASSUME NEW d \in Requests, d \notin shared PROVE Channel(d)'
    BY <2>2 DEF Channels
  <2>5. Channel(d)
    BY DEF Channels
  <2>6. CASE d # c
    <3>1. toPeer'[d] = toPeer[d] /\ fromPeer'[d] = fromPeer[d]
      BY <2>3, <2>6 DEF TypeOK
    <3>2. FarClosed(d) => FarClosed(d)'
      BY <1>1
    <3>3. Steady
      BY <2>2 DEF Steady
    <3> QED BY <2>5, <3>1, <3>2, <3>3, ChannelKept
  <2>7. CASE d = c
    <3>1. ~Idle(c) /\ \A r \in Requests : ~Answering(c, r)
      BY <2>1 DEF Idle, Answering
    <3>2. ASSUME NEW r \in Requests, Asked(c, r) PROVE Asked(c, r)'
      <4>1. fromPeer[c] = <<>> /\ toPeer[c] = <<r>>
        BY <2>1, <3>2 DEF Asked
      <4>2. /\ toPeer'[c] = Tail(toPeer[c])
            /\ fromPeer'[c] = <<>> \o << <<"head", Head(toPeer[c])>>, <<"body", Head(toPeer[c])>> >>
        BY <2>3, <4>1 DEF TypeOK
      <4>3. toPeer'[c] = <<>> /\ fromPeer'[c] = << <<"head", r>>, <<"body", r>> >>
        BY <4>1, <4>2
      <4> QED BY <4>3 DEF Asked
    <3> QED BY <2>2, <2>5, <2>7, <3>1, <3>2 DEF Channel
  <2> QED BY <2>6, <2>7
<1>6. ASSUME NEW r \in Requests, Stream(r), NEW d \in Requests, d = conn[r],
             \A c \in Requests \ {d} : toPeer'[c] = toPeer[c] /\ fromPeer'[c] = fromPeer[c],
             d \notin shared' => Channel(d)'
      PROVE  Channels'
  <2> SUFFICES ASSUME NEW c \in Requests, c # d, c \notin shared' PROVE Channel(c)'
    BY <1>6 DEF Channels
  <2>1. Channel(c) /\ conn[r] # c
    BY <1>6, StreamMoves DEF Channels
  <2>2. Idle(c) => Idle(c)'
    BY <1>1, <1>6 DEF Idle
  <2>3. \A q \in Requests : /\ Asked(c, q) => Asked(c, q)'
                            /\ Answering(c, q) => Answering(c, q)'
    BY <1>1, <1>6 DEF Asked, Answering
  <2>4. UNCHANGED <<conn, pc>> /\ \A q \in Requests \ {r} : at'[q] = at[q]
    <3>1. PICK p : at' = [at EXCEPT ![r] = p]
      BY <1>6, StreamMoves
    <3> QED BY <1>6, <3>1, StreamMoves DEF TypeOK
  <2> QED BY <2>1, <2>2, <2>3, <2>4 DEF Channel
<1>7. ASSUME NEW r \in Requests, Write(r) PROVE Channels'
  <2>0. PICK c \in Requests : c = conn[r]
    BY <1>7 DEF TypeOK, Write
  <2>1. pc[c] = "open" /\ at[r] = "write" /\ at' = [at EXCEPT ![r] = "head"]
    BY <1>7, <2>0 DEF TypeOK, Write, Usable
  <2>2. /\ toPeer'[c] = Append(toPeer[c], r) /\ UNCHANGED <<fromPeer, conn, pc, shared>>
        /\ \A d \in Requests \ {c} : toPeer'[d] = toPeer[d]
    BY <1>7, <2>0, <2>1 DEF Write, TypeOK
  <2>3. ASSUME c \notin shared PROVE Channel(c)'
    <3>1. \A q \in Requests : conn[q] = c => at[q] \notin {"head", "body"}
      BY <2>0, <2>1, <2>3 DEF OneUser, Using
    <3>2. Idle(c)
      BY <2>1, <2>3, <3>1 DEF Channels, Channel
    <3>3. Asked(c, r)'
      <4>1. toPeer[c] = <<>> => toPeer'[c] = <<r>>
        BY <2>2
      <4> QED BY <1>1, <2>1, <2>2, <3>2, <4>1 DEF Idle, Asked
    <3> QED BY <2>1, <2>2, <2>3, <3>3, <2>0, UserSteps
  <2> QED BY <1>6, <1>7, <2>0, <2>2, <2>3 DEF Stream
<1>8. ASSUME NEW r \in Requests, ReadHead(r) PROVE Channels'
  <2>0. PICK c \in Requests : c = conn[r]
    BY <1>8 DEF TypeOK, ReadHead
  <2>1. at[r] = "head" /\ fromPeer[c] # <<>>
    BY <1>8, <2>0 DEF TypeOK, ReadHead
  <2>2. /\ fromPeer'[c] = Tail(fromPeer[c]) /\ UNCHANGED <<toPeer, conn, pc, shared>>
        /\ \A d \in Requests \ {c} : fromPeer'[d] = fromPeer[d]
    BY <1>8, <2>0, <2>1 DEF ReadHead, TypeOK
  <2>3. ASSUME c \notin shared PROVE Channel(c)'
    <3>1. toPeer[c] = <<>> /\ fromPeer[c] = << <<"head", r>>, <<"body", r>> >>
      BY <2>0, <2>1, <2>3 DEF Channels, Channel, Asked
    <3>2. Head(fromPeer[c])[1] = "head" /\ Tail(fromPeer[c]) = << <<"body", r>> >>
      BY <3>1
    <3>3. at' = [at EXCEPT ![r] = "body"]
      BY <1>8, <2>0, <3>2 DEF ReadHead
    <3>4. Answering(c, r)'
      BY <2>2, <3>1, <3>2 DEF Answering
    <3> QED BY <2>1, <2>2, <2>3, <3>3, <3>4, <2>0, UserSteps
  <2> QED BY <1>6, <1>8, <2>0, <2>2, <2>3 DEF Stream
<1>9. ASSUME NEW r \in Requests, ReadBody(r) PROVE Channels'
  <2>0. PICK c \in Requests : c = conn[r]
    BY <1>9 DEF TypeOK, ReadBody
  <2>1. at[r] = "body" /\ at' = [at EXCEPT ![r] = "end"]
    BY <1>9, <2>0 DEF TypeOK, ReadBody, Finish
  <2>2. /\ fromPeer'[c] = Tail(fromPeer[c]) /\ UNCHANGED <<toPeer, conn, pc, shared>>
        /\ \A d \in Requests \ {c} : fromPeer'[d] = fromPeer[d]
    BY <1>9, <2>0, <2>1 DEF ReadBody, TypeOK
  <2>3. ASSUME c \notin shared PROVE Channel(c)'
    <3>1. toPeer[c] = <<>> /\ fromPeer[c] = << <<"body", r>> >>
      BY <2>0, <2>1, <2>3 DEF Channels, Channel, Answering
    <3>2. Tail(fromPeer[c]) = <<>>
      BY <3>1
    <3>3. Idle(c)'
      BY <2>2, <3>1, <3>2 DEF Idle
    <3> QED BY <2>1, <2>2, <2>3, <3>3, <2>0, UserSteps
  <2> QED BY <1>6, <1>9, <2>0, <2>2, <2>3 DEF Stream
<1>10. ASSUME NEW r \in Requests, ClientGone(r) PROVE Channels'
  <2>0. PICK c \in Requests : c = conn[r]
    BY <1>10 DEF TypeOK, ClientGone
  <2>1. c \in shared' /\ UNCHANGED <<toPeer, fromPeer>>
    BY <1>10, <2>0 DEF ClientGone
  <2> QED BY <1>6, <1>10, <2>0, <2>1 DEF Stream
<1>11. ASSUME NEW r \in Requests, Broken(r) PROVE Channels'
  <2>0. PICK c \in Requests : c = conn[r]
    BY <1>11 DEF TypeOK, Broken
  <2>1. /\ at[r] \in {"write", "head", "body"} /\ at' = [at EXCEPT ![r] = "end"]
        /\ UNCHANGED <<conn, pc, toPeer, fromPeer, shared>>
    BY <1>11, <2>0 DEF TypeOK, Broken, Finish, data
  <2>2. pc[c] # "closed" => Idle(c)'
    BY <1>1, <1>11, <2>0, <2>1 DEF Broken, Idle
  <2>3. ASSUME c \notin shared PROVE Channel(c)'
    BY <2>1, <2>2, <2>3, <2>0, UserSteps
  <2> QED BY <1>6, <1>11, <2>0, <2>1, <2>3 DEF Stream
<1> QED
  BY <1>3, <1>4, <1>5, <1>7, <1>8, <1>9, <1>10, <1>11, AnswererAlone, AnswererMoves
  DEF Next, Stream, vars, data

LEMMA StepCopies ==
  ASSUME IInv, [Next]_vars
  PROVE  Copies'
<1> USE DEF IInv
<1>1. ASSUME NEW r \in Requests, Offerer(r) PROVE Copies'
  <2>1. UNCHANGED copied /\ shared \subseteq shared'
    BY <1>1, OffererMoves DEF Use
  <2>2. \A q \in Requests :
          at'[q] \in {"new", "offer", "wait", "write", "head"}
            => at[q] \in {"new", "offer", "wait", "write", "head"}
    <3>1. CASE \E c \in {r, cache} : Use(r, c) /\ at[r] \in {"new", "wait"}
      BY <3>1 DEF Use, TypeOK
    <3>2. CASE \/ UNCHANGED at
               \/ at[r] = "new" /\ at' = [at EXCEPT ![r] = "offer"]
               \/ /\ at[r] \in {"offer", "wait"}
                  /\ at' \in {[at EXCEPT ![r] = "wait"], [at EXCEPT ![r] = "nexttier"]}
      BY <3>2 DEF TypeOK
    <3> QED BY <1>1, <3>1, <3>2, OffererMoves
  <2>3. \A q \in Requests : conn'[q] = conn[q] \/ copied[q] = {}
    BY <1>1, OffererMoves DEF Use, TypeOK, Copies
  <2> QED BY <2>1, <2>2, <2>3 DEF Copies
<1>2. ASSUME NEW r \in Requests, Stream(r), UNCHANGED copied PROVE Copies'
  <2>1. PICK p \in {"head", "body", "end"} : at' = [at EXCEPT ![r] = p]
    BY <1>2, StreamMoves
  <2>2. at[r] \in {"write", "head"} => copied[r] = {}
    BY DEF Copies
  <2>3. p = "head" => at[r] = "write"
    BY <1>2, <2>1 DEF Stream, Write, ReadHead, ReadBody, ClientGone, Broken, Finish, TypeOK
  <2>4. /\ at[r] \in {"write", "head", "body"} /\ conn' = conn /\ shared \subseteq shared'
    BY <1>2, StreamMoves
  <2>5. at'[r] = p /\ \A q \in Requests \ {r} : at'[q] = at[q]
    BY <2>1 DEF TypeOK
  <2> QED BY <1>2, <2>1, <2>2, <2>3, <2>4, <2>5 DEF Copies
<1>3. ASSUME NEW r \in Requests, ReadHead(r) \/ ReadBody(r) PROVE Copies'
  <2>0. PICK c \in Requests : c = conn[r]
    BY <1>3 DEF TypeOK, ReadHead, ReadBody
  <2>1. at'[r] \in {"body", "end"} /\ \A q \in Requests \ {r} : at'[q] = at[q]
    BY <1>3 DEF ReadHead, ReadBody, Finish, TypeOK
  <2>2. UNCHANGED <<conn, shared>> /\ \A q \in Requests \ {r} : copied'[q] = copied[q]
    BY <1>3 DEF ReadHead, ReadBody, TypeOK
  <2>3. CASE c \in shared
    BY <2>0, <2>1, <2>2, <2>3 DEF Copies
  <2>4. CASE c \notin shared
    <3>1. Head(fromPeer[c])[2] = r /\ copied[r] \subseteq {r}
      <4>1. fromPeer[c] \in {<<>>, << <<"head", r>>, <<"body", r>> >>, << <<"body", r>> >>}
        BY <1>3, <2>0, <2>4 DEF Channels, Channel, Asked, Answering, ReadHead, ReadBody
      <4>2. fromPeer[c] # <<>>
        BY <1>3, <2>0 DEF ReadHead, ReadBody
      <4> QED BY <2>0, <2>4, <4>1, <4>2 DEF Copies
    <3>2. copied'[r] \subseteq {r}
      BY <1>3, <2>0, <3>1 DEF ReadHead, ReadBody, TypeOK
    <3> QED BY <2>1, <2>2, <3>2 DEF Copies
  <2> QED BY <2>3, <2>4
<1>4. ASSUME UNCHANGED <<at, conn, copied, shared>> PROVE Copies'
  BY <1>4 DEF Copies
<1>5. ASSUME NEW n \in Negs, Serve(n) PROVE UNCHANGED <<at, conn, copied, shared>>
  BY <1>5 DEF Serve, offering
<1>6. ASSUME NEW r \in Requests, Stream(r), ~ReadHead(r), ~ReadBody(r) PROVE UNCHANGED copied
  BY <1>6 DEF Stream, Write, ClientGone, Broken, data
<1> QED
  BY <1>1, <1>2, <1>3, <1>4, <1>5, <1>6, AnswererAlone, AnswererMoves
  DEF Next, offering, vars, data

-----------------------------------------------------------------------------
\* IInv is inductive.
THEOREM Inductive == Spec => []IInv
<1>1. Init => IInv
  <2>1. Init => OneUser /\ Channels /\ FarEnd /\ Copies /\ NewHasNone
    BY PeerAudioAssumption
    DEF Init, OneUser, Using, Channels, Channel, Idle, FarEnd, Copies, NewHasNone
  <2> QED BY <2>1, InitTypes DEF IInv
<1>2. IInv /\ [Next]_vars => IInv'
  BY StepTypes, StepAccounted, StepOneUser, StepChannels, StepFarEnd, StepCopies, StepNewHasNone
  DEF IInv
<1> QED BY <1>1, <1>2, PTL DEF Spec

\* Every variable keeps its type, and a SID is claimed exactly while its dial runs
\* (webrtc.go:352-378).
THEOREM TypeCorrect == Spec => []TypeOK
<1>1. IInv => TypeOK
  BY DEF IInv
<1> QED BY <1>1, Inductive, PTL

\* However offers are repeated, late or lost, an answering PeerConnection holds its SID
\* until it is closed, and no other does (webrtc.go:236-256).
THEOREM AnswerersAccounted == Spec => []AnswererAccounted
<1>1. IInv => AnswererAccounted
  BY DEF IInv
<1> QED BY <1>1, Inductive, PTL

\* Requests that have the channel to themselves get their own tracks, for any number of
\* them on one connection (webrtc_audio.go:121-152).
THEOREM AloneGetsItsOwn == Spec => []OwnAnswerAlone
<1>1. ASSUME IInv PROVE OwnAnswerAlone
  <2> SUFFICES ASSUME NEW r \in Requests, conn[r] \notin shared
               PROVE  /\ copied[r] \subseteq {r}
                      /\ at[r] \in {"head", "body"} =>
                           \A i \in DOMAIN fromPeer[conn[r]] : fromPeer[conn[r]][i][2] = r
    BY DEF OwnAnswerAlone
  <2>1. copied[r] \subseteq {r}
    BY <1>1 DEF IInv, Copies
  <2>2. ASSUME at[r] \in {"head", "body"}
        PROVE  \A i \in DOMAIN fromPeer[conn[r]] : fromPeer[conn[r]][i][2] = r
    <3>1. conn[r] \in Requests \ shared
      BY <1>1, <2>2 DEF IInv, TypeOK
    <3>2. fromPeer[conn[r]] \in {<<>>, << <<"head", r>>, <<"body", r>> >>, << <<"body", r>> >>}
      BY <1>1, <2>2, <3>1 DEF IInv, Channels, Channel, Asked, Answering
    <3> QED BY <3>2
  <2> QED BY <2>1, <2>2
<1> QED BY <1>1, Inductive, PTL

\* A dial that fails, or a connection that ends, never takes another dial's live
\* connection out of the cache (webrtc.go:383-390, 669-674).
THEOREM EvictsItsOwn == Spec => OwnEviction
<1> DEFINE A == \A c \in Requests :
                  cache = c /\ cache' # c /\ pc[c] = "open" /\ pc'[c] = "open"
                    => cache' # None /\ opening[cache'] = "put"
<1>1. ASSUME TypeOK, [Next]_vars PROVE [A]_vars
  <2> USE PeerAudioAssumption
  <2>1. CASE UNCHANGED cache
    BY <2>1
  <2>2. ASSUME NEW r \in Requests, Offerer(r) PROVE A
    BY <1>1, <2>2 DEF Offerer, Dial, SendOffer, GiveUp, Return, Opened, Put, Store, Lost, Fail,
                      Release, TypeOK
  <2>3. ASSUME NEW r \in Requests, Stream(r) PROVE UNCHANGED cache
    BY <2>3, StreamMoves
  <2>4. UNCHANGED offering => UNCHANGED cache
    BY DEF offering
  <2> QED BY <1>1, <2>1, <2>2, <2>3, <2>4, AnswererAlone DEF Next, vars
<1> QED BY <1>1, TypeCorrect, PTL DEF Spec, OwnEviction
=============================================================================
