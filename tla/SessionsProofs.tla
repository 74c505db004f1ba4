--------------------------- MODULE SessionsProofs ---------------------------
(***************************************************************************)
(* Proofs about Sessions, for any sets of peers, members and connections:  *)
(* the registries are exact whatever dials, accepts, removals, cuts and    *)
(* restarts interleave, and the peer table accepts nobody by accident.     *)
(***************************************************************************)
EXTENDS Sessions, TLAPS

USE DEF Writing

\* The parts of IInv that are about sessions, and those about the table.
SessionTypes ==
  /\ link \in [Conns -> (Nodes \X Nodes) \cup {None}]
  /\ at \in [Conns -> [Sides -> Places]]
  /\ acked \in SUBSET Conns /\ up \in [Conns -> SUBSET Sides]
  /\ reg \in [Nodes -> [Nodes -> Conns \cup {None}]]
  /\ \A c \in Conns : /\ link[c] = None <=> \A s \in Sides : at[c][s] = "done"
                      /\ \A s \in up[c] : at[c][s] # "done"

Table == ApprovalTypes /\ Earned /\ SureOnes /\ OneIdentity
Net == SessionTypes /\ Shape /\ RegistryExact
Counters == events \in Nat

LEMMA Parts == IInv <=> Table /\ Net /\ Presented /\ Counters
BY DEF IInv, Table, Net, Counters, TypeOK, SessionTypes

\* The two ends of a connection in use.
LEMMA Ends2 ==
  ASSUME Net, NEW c \in Conns, link[c] # None
  PROVE  /\ link[c] \in Nodes \X Nodes
         /\ link[c][1] \in Nodes /\ link[c][2] \in Nodes /\ link[c][1] # link[c][2]
         /\ SideOf(c, link[c][1]) = "dial" /\ SideOf(c, link[c][2]) = "accept"
BY DEF Net, SessionTypes, Shape, SideOf, Nodes

LEMMA InUse ==
  ASSUME Net, NEW c \in Conns, NEW s \in Sides, at[c][s] # "done"
  PROVE  link[c] # None
BY DEF Net, SessionTypes

-----------------------------------------------------------------------------
LEMMA InitNet == Init => Net
<1> SUFFICES ASSUME Init PROVE Net
  OBVIOUS
<1>1. SessionTypes
  BY DEF Init, SessionTypes, Sides, Places
<1>2. Shape
  BY DEF Init, Shape, Sides
<1>3. RegistryExact
  BY DEF Init, RegistryExact
<1> QED BY <1>1, <1>2, <1>3 DEF Net

LEMMA InitTable == Init => Table
<1> SUFFICES ASSUME Init PROVE Table
  OBVIOUS
<1> DEFINE Blank == [a \in Addresses |-> NoRow]
           Entered == [a \in Addresses |-> IF a = "listen" THEN [status |-> "accepted", auth |-> TRUE]
                                                         ELSE NoRow]
<1>1. Blank \in [Addresses -> RowOf] /\ Entered \in [Addresses -> RowOf]
  BY DEF Addresses, RowOf, Statuses, NoRow
<1>2. \A n, m \in Peers : rows[n][m] \in {Blank, Entered}
  BY DEF Init
<1>3. ApprovalTypes
  <2>1. rows \in [Peers -> [Peers -> {Blank, Entered}]]
    BY DEF Init
  <2>2. \A n \in Peers : rows[n] \in [Peers -> [Addresses -> RowOf]]
    <3> HIDE DEF Blank, Entered
    <3> QED BY <1>1, <2>1
  <2>3. rows \in [Peers -> [Peers -> [Addresses -> RowOf]]]
    BY <2>1, <2>2
  <2>4. /\ vouched \in [Peers -> SUBSET Peers]
        /\ save \in [Peers -> [Writers -> SaveOf \cup {None}]]
        /\ unsure \in [Peers -> [Peers -> SUBSET Addresses]]
    BY DEF Init
  <2> QED BY <2>3, <2>4 DEF ApprovalTypes
<1>4. Earned
  BY <1>2 DEF Init, Earned, Deserves, Dialable, NoRow, Addresses
<1>5. SureOnes
  BY DEF Init, SureOnes
<1>6. OneIdentity
  <2>1. \A n, m \in Peers, a \in Addresses : rows[n][m][a].status \in Trusting => a = "listen"
    BY <1>2 DEF NoRow, Trusting
  <2> QED BY <2>1 DEF OneIdentity, Trusted
<1> QED BY <1>3, <1>4, <1>5, <1>6 DEF Table

-----------------------------------------------------------------------------
(* Steps of the net.                                                        *)

\* An end is closed and its goroutine returns; what it had registered is gone.
LEMMA FinishStep ==
  ASSUME Net, NEW c \in Conns, NEW s \in Sides, at[c][s] # "done", Finish(c, s),
         reg' \in [Nodes -> [Nodes -> Conns \cup {None}]],
         \A n, m \in Nodes :
           reg'[n][m] = IF n = NodeOf(c, s) /\ m = PeerOf(c, s) /\ reg[n][m] = c
                        THEN None ELSE reg[n][m]
  PROVE  Net'
<1>1. link[c] # None
  BY InUse
<1>2. /\ link[c] \in Nodes \X Nodes /\ link[c][1] \in Nodes /\ link[c][2] \in Nodes
      /\ link[c][1] # link[c][2]
      /\ SideOf(c, link[c][1]) = "dial" /\ SideOf(c, link[c][2]) = "accept"
  BY <1>1, Ends2
<1>3. /\ link \in [Conns -> (Nodes \X Nodes) \cup {None}] /\ at \in [Conns -> [Sides -> Places]]
      /\ up \in [Conns -> SUBSET Sides]
  BY DEF Net, SessionTypes
<1>4. /\ \A d \in Conns \ {c} : link'[d] = link[d] /\ at'[d] = at[d] /\ up'[d] = up[d]
      /\ link'[c] = (IF at[c][Other(s)] = "done" THEN None ELSE link[c])
      /\ at'[c] = [at[c] EXCEPT ![s] = "done"] /\ up'[c] = up[c] \ {s}
  BY <1>3 DEF Finish
<1>5. at'[c][s] = "done" /\ at'[c][Other(s)] = at[c][Other(s)] /\ Sides = {s, Other(s)}
  BY <1>3, <1>4 DEF Sides, Other
<1>6. SessionTypes'
  <2>1. /\ link' \in [Conns -> (Nodes \X Nodes) \cup {None}] /\ up' \in [Conns -> SUBSET Sides]
        /\ acked' \in SUBSET Conns
    BY <1>3 DEF Finish, Net, SessionTypes
  <2>2. at' \in [Conns -> [Sides -> Places]]
    BY <1>3 DEF Finish, Places
  <2>3. ASSUME NEW d \in Conns
        PROVE  /\ link'[d] = None <=> \A t \in Sides : at'[d][t] = "done"
               /\ \A t \in up'[d] : at'[d][t] # "done"
    <3>1. CASE d = c
      BY <1>1, <1>3, <1>4, <1>5, <3>1 DEF Net, SessionTypes
    <3>2. CASE d # c
      BY <1>4, <3>2 DEF Net, SessionTypes
    <3> QED BY <3>1, <3>2
  <2> QED BY <2>1, <2>2, <2>3 DEF SessionTypes
<1>7. Shape'
  <2> SUFFICES ASSUME NEW d \in Conns
               PROVE  /\ link'[d] # None => /\ link'[d] \in (Peers \X Peers) \cup (Members \X {Hub})
                                            /\ link'[d][1] # link'[d][2]
                      /\ at'[d]["dial"] \in {"ack", "put", "serve", "remove", "done"}
                      /\ at'[d]["accept"] \in {"line", "try", "serve", "remove", "done"} \cup Writing
                      /\ at'[d]["accept"] \in Writing => link'[d][2] # Hub
    BY DEF Shape
  <2>1. CASE d = c
    <3>1. at'[c]["dial"] \in {at[c]["dial"], "done"} /\ at'[c]["accept"] \in {at[c]["accept"], "done"}
      BY <1>3, <1>4 DEF Sides
    <3>2. at'[c]["accept"] \in Writing => link'[c] = link[c]
      BY <1>4, <1>5, <1>3, <3>1 DEF Sides, Other
    <3> QED BY <1>4, <2>1, <3>1, <3>2 DEF Net, Shape
  <2>2. CASE d # c
    BY <1>4, <2>2 DEF Net, Shape
  <2> QED BY <2>1, <2>2
<1>8. \A n, m \in Nodes : reg'[n][m] # None =>
        /\ reg'[n][m] = reg[n][m] /\ reg[n][m] \in Conns
        /\ link[reg[n][m]] \in {<<n, m>>, <<m, n>>}
        /\ at[reg[n][m]][SideOf(reg[n][m], n)] \in Writing \cup {"serve", "remove"}
  BY DEF Net, SessionTypes, RegistryExact
<1>9. RegistryExact'
  <2>1. ASSUME NEW d \in Conns, NEW t \in up'[d], at'[d][t] \in Writing \cup {"serve"}
        PROVE  reg'[NodeOf(d, t)'][PeerOf(d, t)'] = d
    <3>1. t \in up[d] /\ at[d][t] = at'[d][t] /\ t \in Sides /\ (d = c => t = Other(s))
      BY <1>3, <1>4, <1>5, <2>1
    <3>2. link'[d] = link[d] /\ link[d] # None
      BY <1>4, <1>5, <2>1, <3>1, InUse
    <3>3. NodeOf(d, t)' = NodeOf(d, t) /\ PeerOf(d, t)' = PeerOf(d, t)
      BY <3>2 DEF NodeOf, PeerOf
    <3>4. reg[NodeOf(d, t)][PeerOf(d, t)] = d
      BY <2>1, <3>1 DEF Net, RegistryExact
    <3>5. NodeOf(d, t) \in Nodes /\ PeerOf(d, t) \in Nodes
      BY <3>2, Ends2 DEF NodeOf, PeerOf, Other
    <3>6. d = c => NodeOf(d, t) # NodeOf(c, s)
      BY <1>2, <3>1 DEF NodeOf, Other, Sides
    <3> QED BY <3>3, <3>4, <3>5, <3>6
  <2>2. ASSUME NEW n \in Nodes, NEW m \in Nodes, reg'[n][m] # None
        PROVE  (/\ link[reg[n][m]] \in {<<n, m>>, <<m, n>>}
                /\ at[reg[n][m]][SideOf(reg[n][m], n)] \in Writing \cup {"serve", "remove"})'
    <3> DEFINE d == reg[n][m]
    <3>1. /\ reg'[n][m] = d /\ d \in Conns /\ link[d] \in {<<n, m>>, <<m, n>>}
          /\ at[d][SideOf(d, n)] \in Writing \cup {"serve", "remove"}
      BY <1>8, <2>2
    <3>2. CASE d # c
      BY <1>4, <3>1, <3>2 DEF SideOf
    <3>3. CASE d = c
      <4>1. ~(n = NodeOf(c, s) /\ m = PeerOf(c, s))
        BY <2>2, <3>3
      <4>2. SideOf(c, n) = Other(s)
        BY <1>2, <3>1, <3>3, <4>1 DEF SideOf, NodeOf, PeerOf, Other, Sides
      <4>3. link'[c] = link[c] /\ at'[c][Other(s)] = at[c][Other(s)]
        BY <1>4, <1>5, <3>1, <3>3, <4>2
      <4> QED BY <3>1, <3>3, <4>2, <4>3 DEF SideOf
    <3> QED BY <3>2, <3>3
  <2> QED BY <2>1, <2>2 DEF RegistryExact
<1> QED BY <1>6, <1>7, <1>9 DEF Net

\* The goroutine at an end moves on, and ends are closed at most.
LEMMA MoveTypes ==
  ASSUME Net, NEW c \in Conns, NEW s \in Sides, NEW p \in Places \ {"done"}, at[c][s] # "done",
         s = "dial" => p \in {"ack", "put", "serve", "remove"},
         s = "accept" => p \in {"line", "try", "serve", "remove"} \cup Writing,
         s = "accept" /\ p \in Writing => link[c][2] # Hub,
         Move(c, s, p), acked' \in SUBSET Conns,
         up' \in [Conns -> SUBSET Sides], \A d \in Conns : up'[d] \subseteq up[d],
         reg' \in [Nodes -> [Nodes -> Conns \cup {None}]]
  PROVE  SessionTypes' /\ Shape'
<1>1. /\ link \in [Conns -> (Nodes \X Nodes) \cup {None}] /\ at \in [Conns -> [Sides -> Places]]
      /\ link' = link /\ at' = [at EXCEPT ![c][s] = p]
  BY DEF Net, SessionTypes, Move
<1>2. /\ \A d \in Conns \ {c} : at'[d] = at[d]
      /\ at'[c] = [at[c] EXCEPT ![s] = p]
      /\ at'[c][s] = p /\ at'[c][Other(s)] = at[c][Other(s)] /\ Sides = {s, Other(s)}
  BY <1>1 DEF Sides, Other
<1>3. SessionTypes'
  <2>1. at' \in [Conns -> [Sides -> Places]]
    BY <1>1
  <2>2. ASSUME NEW d \in Conns
        PROVE  /\ link'[d] = None <=> \A t \in Sides : at'[d][t] = "done"
               /\ \A t \in up'[d] : at'[d][t] # "done"
    <3>1. CASE d = c
      BY <1>1, <1>2, <3>1, InUse DEF Net, SessionTypes
    <3>2. CASE d # c
      BY <1>1, <1>2, <3>2 DEF Net, SessionTypes
    <3> QED BY <3>1, <3>2
  <2> QED BY <1>1, <2>1, <2>2 DEF SessionTypes
<1>4. Shape'
  <2> SUFFICES ASSUME NEW d \in Conns
               PROVE  /\ link'[d] # None => /\ link'[d] \in (Peers \X Peers) \cup (Members \X {Hub})
                                            /\ link'[d][1] # link'[d][2]
                      /\ at'[d]["dial"] \in {"ack", "put", "serve", "remove", "done"}
                      /\ at'[d]["accept"] \in {"line", "try", "serve", "remove", "done"} \cup Writing
                      /\ at'[d]["accept"] \in Writing => link'[d][2] # Hub
    BY DEF Shape
  <2>1. CASE d = c
    <3>1. CASE s = "dial"
      <4>1. at'[c]["dial"] = p /\ at'[c]["accept"] = at[c]["accept"]
        BY <1>2, <3>1 DEF Other
      <4> QED BY <1>1, <2>1, <3>1, <4>1 DEF Net, Shape
    <3>2. CASE s = "accept"
      <4>1. at'[c]["accept"] = p /\ at'[c]["dial"] = at[c]["dial"]
        BY <1>2, <3>2 DEF Other
      <4> QED BY <1>1, <2>1, <3>2, <4>1 DEF Net, Shape
    <3> QED BY <3>1, <3>2 DEF Sides
  <2>2. CASE d # c
    BY <1>1, <1>2, <2>2 DEF Net, Shape
  <2> QED BY <2>1, <2>2
<1> QED BY <1>3, <1>4

\* Nothing is registered by the step: an end that comes to serve served already.
LEMMA MoveStep ==
  ASSUME Net, NEW c \in Conns, NEW s \in Sides, NEW p \in Places \ {"done"}, at[c][s] # "done",
         s = "dial" => p \in {"ack", "put", "serve", "remove"},
         s = "accept" => p \in {"line", "try", "serve", "remove"} \cup Writing,
         s = "accept" /\ p \in Writing => link[c][2] # Hub,
         p \in Writing \cup {"serve"} => at[c][s] \in Writing \cup {"serve"},
         at[c][s] \in Writing \cup {"serve", "remove"} => p \in Writing \cup {"serve", "remove"},
         Move(c, s, p), acked' \in SUBSET Conns,
         up' \in [Conns -> SUBSET Sides], \A d \in Conns : up'[d] \subseteq up[d],
         reg' = reg
  PROVE  Net'
<1>1. reg' \in [Nodes -> [Nodes -> Conns \cup {None}]]
  BY DEF Net, SessionTypes
<1>2. SessionTypes' /\ Shape'
  BY <1>1, MoveTypes
<1>3. /\ link' = link
      /\ \A d \in Conns, t \in Sides : at'[d][t] = IF d = c /\ t = s THEN p ELSE at[d][t]
  BY DEF Net, SessionTypes, Move
<1>4. RegistryExact'
  <2>1. ASSUME NEW d \in Conns, NEW t \in up'[d], at'[d][t] \in Writing \cup {"serve"}
        PROVE  reg'[NodeOf(d, t)'][PeerOf(d, t)'] = d
    <3>1. t \in up[d] /\ t \in Sides
      OBVIOUS
    <3>2. at[d][t] \in Writing \cup {"serve"}
      BY <1>3, <2>1, <3>1
    <3>3. NodeOf(d, t)' = NodeOf(d, t) /\ PeerOf(d, t)' = PeerOf(d, t)
      BY <1>3 DEF NodeOf, PeerOf
    <3> QED BY <3>1, <3>2, <3>3 DEF Net, RegistryExact
  <2>2. ASSUME NEW n \in Nodes, NEW m \in Nodes, reg'[n][m] # None
        PROVE  (/\ link[reg[n][m]] \in {<<n, m>>, <<m, n>>}
                /\ at[reg[n][m]][SideOf(reg[n][m], n)] \in Writing \cup {"serve", "remove"})'
    <3> DEFINE d == reg[n][m]
    <3>1. /\ reg'[n][m] = d /\ d \in Conns /\ link[d] \in {<<n, m>>, <<m, n>>}
          /\ at[d][SideOf(d, n)] \in Writing \cup {"serve", "remove"}
      BY <2>2 DEF Net, SessionTypes, RegistryExact
    <3>2. SideOf(d, n) \in Sides /\ SideOf(d, n)' = SideOf(d, n)
      BY <1>3 DEF SideOf, Sides
    <3>3. at'[d][SideOf(d, n)] \in Writing \cup {"serve", "remove"}
      BY <1>3, <3>1, <3>2
    <3> QED BY <1>3, <3>1, <3>2, <3>3 DEF SideOf
  <2> QED BY <2>1, <2>2 DEF RegistryExact
<1> QED BY <1>2, <1>4 DEF Net

\* Ends are closed, and no goroutine has moved.
LEMMA CloseStep ==
  ASSUME Net, link' = link, at' = at, acked' = acked, reg' = reg,
         up' \in [Conns -> SUBSET Sides], \A d \in Conns : up'[d] \subseteq up[d]
  PROVE  Net'
<1>1. SessionTypes' /\ Shape'
  BY DEF Net, SessionTypes, Shape
<1>2. ASSUME NEW d \in Conns, NEW t \in up'[d], at'[d][t] \in Writing \cup {"serve"}
      PROVE  reg'[NodeOf(d, t)'][PeerOf(d, t)'] = d
  BY <1>2 DEF Net, RegistryExact, NodeOf, PeerOf
<1>3. ASSUME NEW n \in Nodes, NEW m \in Nodes, reg'[n][m] # None
      PROVE  (/\ link[reg[n][m]] \in {<<n, m>>, <<m, n>>}
              /\ at[reg[n][m]][SideOf(reg[n][m], n)] \in Writing \cup {"serve", "remove"})'
  BY <1>3 DEF Net, RegistryExact, SideOf
<1>4. RegistryExact'
  BY <1>2, <1>3 DEF RegistryExact
<1> QED BY <1>1, <1>4 DEF Net

\* The end is registered under its id; what it takes the place of is closed.
LEMMA EnterStep ==
  ASSUME Net, NEW c \in Conns, NEW s \in Sides, NEW p \in Writing \cup {"serve"},
         at[c][s] \in {"put", "try"},
         p \in Writing => s = "accept" /\ link[c][2] # Hub,
         Move(c, s, p), acked' \in SUBSET Conns,
         up' \in [Conns -> SUBSET Sides], \A d \in Conns : up'[d] \subseteq up[d],
         reg' = [reg EXCEPT ![NodeOf(c, s)][PeerOf(c, s)] = c],
         LET old == reg[NodeOf(c, s)][PeerOf(c, s)]
         IN old # None => SideOf(old, NodeOf(c, s)) \notin up'[old]
  PROVE  Net'
<1> DEFINE N == NodeOf(c, s)
           M == PeerOf(c, s)
<1>1. link[c] # None
  BY InUse
<1>2. /\ link[c] \in Nodes \X Nodes /\ link[c][1] \in Nodes /\ link[c][2] \in Nodes
      /\ link[c][1] # link[c][2]
      /\ SideOf(c, link[c][1]) = "dial" /\ SideOf(c, link[c][2]) = "accept"
  BY <1>1, Ends2
<1>3. /\ N \in Nodes /\ M \in Nodes /\ link[c] \in {<<N, M>>, <<M, N>>} /\ SideOf(c, N) = s
      /\ link[c] = <<link[c][1], link[c][2]>>
  BY <1>2 DEF NodeOf, PeerOf, Other, Sides
<1>4. reg \in [Nodes -> [Nodes -> Conns \cup {None}]]
  BY DEF Net, SessionTypes
<1>5. \A n, m \in Nodes : reg'[n][m] = IF n = N /\ m = M THEN c ELSE reg[n][m]
  BY <1>3, <1>4
<1>6. reg' \in [Nodes -> [Nodes -> Conns \cup {None}]]
  BY <1>3, <1>4
<1>7. SessionTypes' /\ Shape'
  BY <1>6, MoveTypes DEF Places, Sides
<1>8. /\ link' = link
      /\ \A d \in Conns, t \in Sides : at'[d][t] = IF d = c /\ t = s THEN p ELSE at[d][t]
  BY DEF Net, SessionTypes, Move
<1>9. RegistryExact'
  <2>1. ASSUME NEW d \in Conns, NEW t \in up'[d], at'[d][t] \in Writing \cup {"serve"}
        PROVE  reg'[NodeOf(d, t)'][PeerOf(d, t)'] = d
    <3>1. t \in up[d] /\ t \in Sides
      OBVIOUS
    <3>2. NodeOf(d, t)' = NodeOf(d, t) /\ PeerOf(d, t)' = PeerOf(d, t)
      BY <1>8 DEF NodeOf, PeerOf
    <3>3. CASE d = c /\ t = s
      BY <1>3, <1>5, <3>2, <3>3
    <3>4. CASE ~(d = c /\ t = s)
      <4>1. at[d][t] \in Writing \cup {"serve"} /\ link[d] # None
        BY <1>8, <2>1, <3>1, <3>4, InUse
      <4>2. reg[NodeOf(d, t)][PeerOf(d, t)] = d
        BY <3>1, <4>1 DEF Net, RegistryExact
      <4>3. NodeOf(d, t) \in Nodes /\ PeerOf(d, t) \in Nodes /\ SideOf(d, NodeOf(d, t)) = t
        BY <3>1, <4>1, Ends2 DEF NodeOf, PeerOf, Other, Sides
      <4>4. ~(NodeOf(d, t) = N /\ PeerOf(d, t) = M)
        <5> SUFFICES ASSUME NodeOf(d, t) = N, PeerOf(d, t) = M PROVE FALSE
          OBVIOUS
        <5>1. reg[N][M] = d /\ SideOf(d, N) = t
          BY <4>2, <4>3
        <5>2. d # None
          BY ApprovalAssumption
        <5> QED BY <5>1, <5>2
      <4> QED BY <1>5, <3>2, <4>2, <4>3, <4>4
    <3> QED BY <3>3, <3>4
  <2>2. ASSUME NEW n \in Nodes, NEW m \in Nodes, reg'[n][m] # None
        PROVE  (/\ link[reg[n][m]] \in {<<n, m>>, <<m, n>>}
                /\ at[reg[n][m]][SideOf(reg[n][m], n)] \in Writing \cup {"serve", "remove"})'
    <3> DEFINE d == reg'[n][m]
    <3>1. CASE n = N /\ m = M
      <4>1. d = c /\ link'[c] = link[c] /\ at'[c][s] = p
        BY <1>5, <1>8, <3>1
      <4> QED BY <1>3, <3>1, <4>1 DEF SideOf
    <3>2. CASE ~(n = N /\ m = M)
      <4>1. /\ d = reg[n][m] /\ d \in Conns /\ link[d] \in {<<n, m>>, <<m, n>>}
            /\ at[d][SideOf(d, n)] \in Writing \cup {"serve", "remove"}
        BY <1>4, <1>5, <2>2, <3>2 DEF Net, RegistryExact
      <4>2. SideOf(d, n) \in Sides
        BY DEF SideOf, Sides
      <4>3. at'[d][SideOf(d, n)] = at[d][SideOf(d, n)]
        BY <1>8, <4>1, <4>2
      <4> QED BY <1>8, <4>1, <4>3 DEF SideOf
    <3> QED BY <3>1, <3>2
  <2> QED BY <2>1, <2>2 DEF RegistryExact
<1> QED BY <1>7, <1>9 DEF Net

-----------------------------------------------------------------------------
(* The actions.                                                             *)

LEMMA ConnectStep ==
  ASSUME Net, NEW c \in Conns, NEW n \in Nodes, NEW m \in Nodes, n # m,
         <<n, m>> \in (Peers \X Peers) \cup (Members \X {Hub}), Connect(c, n, m)
  PROVE  Net'
<1>1. /\ link[c] = None /\ link' = [link EXCEPT ![c] = <<n, m>>]
      /\ link' \in [Conns -> (Nodes \X Nodes) \cup {None}]
  BY DEF Connect, Net, SessionTypes
<1>2. /\ at'[c]["dial"] = "ack" /\ at'[c]["accept"] = "line" /\ up'[c] = Sides
      /\ \A d \in Conns \ {c} : link'[d] = link[d] /\ at'[d] = at[d] /\ up'[d] = up[d]
      /\ link'[c] = <<n, m>> /\ reg' = reg
  BY DEF Connect, Net, SessionTypes, Sides
<1>3. \A t \in Sides : at[c][t] = "done"
  BY <1>1 DEF Net, SessionTypes
<1>4. SessionTypes'
  <2>1. at' \in [Conns -> [Sides -> Places]] /\ up' \in [Conns -> SUBSET Sides]
    BY DEF Connect, Net, SessionTypes, Sides, Places
  <2>2. acked' \in SUBSET Conns /\ reg' \in [Nodes -> [Nodes -> Conns \cup {None}]]
    BY DEF Connect, Net, SessionTypes
  <2>3. ASSUME NEW d \in Conns
        PROVE  /\ link'[d] = None <=> \A t \in Sides : at'[d][t] = "done"
               /\ \A t \in up'[d] : at'[d][t] # "done"
    <3>1. CASE d = c
      <4>1. <<n, m>> # None
        BY SessionsAssumption
      <4> QED BY <1>2, <3>1, <4>1 DEF Sides
    <3>2. CASE d # c
      BY <1>2, <3>2 DEF Net, SessionTypes
    <3> QED BY <3>1, <3>2
  <2> QED BY <1>1, <2>1, <2>2, <2>3 DEF SessionTypes
<1>5. Shape'
  BY <1>2 DEF Net, Shape
<1>6. RegistryExact'
  <2>1. ASSUME NEW d \in Conns, NEW t \in up'[d], at'[d][t] \in Writing \cup {"serve"}
        PROVE  reg'[NodeOf(d, t)'][PeerOf(d, t)'] = d
    <3>1. d # c
      BY <1>2, <2>1 DEF Sides
    <3> QED BY <1>2, <2>1, <3>1 DEF Net, RegistryExact, NodeOf, PeerOf
  <2>2. ASSUME NEW i \in Nodes, NEW j \in Nodes, reg'[i][j] # None
        PROVE  (/\ link[reg[i][j]] \in {<<i, j>>, <<j, i>>}
                /\ at[reg[i][j]][SideOf(reg[i][j], i)] \in Writing \cup {"serve", "remove"})'
    <3> DEFINE d == reg[i][j]
    <3>1. /\ reg'[i][j] = d /\ d \in Conns /\ link[d] \in {<<i, j>>, <<j, i>>}
          /\ at[d][SideOf(d, i)] \in Writing \cup {"serve", "remove"}
      BY <1>2, <2>2 DEF Net, SessionTypes, RegistryExact
    <3>2. d # c
      BY <1>3, <3>1 DEF SideOf, Sides
    <3> QED BY <1>2, <3>1, <3>2 DEF SideOf
  <2> QED BY <2>1, <2>2 DEF RegistryExact
<1> QED BY <1>4, <1>5, <1>6 DEF Net

\* An end that has not come to register, or gave up, is not registered.
LEMMA NotEntered ==
  ASSUME Net, NEW c \in Conns, NEW s \in Sides, at[c][s] \in {"ack", "put", "line", "try"}
  PROVE  reg[NodeOf(c, s)][PeerOf(c, s)] # c
<1>1. link[c] # None /\ c # None
  BY InUse, ApprovalAssumption
<1>2. /\ NodeOf(c, s) \in Nodes /\ PeerOf(c, s) \in Nodes /\ SideOf(c, NodeOf(c, s)) = s
  BY <1>1, Ends2 DEF NodeOf, PeerOf, Other, Sides
<1> QED BY <1>1, <1>2 DEF Net, RegistryExact

\* An end gives up before it is registered.
LEMMA GiveUp ==
  ASSUME Net, NEW c \in Conns, NEW s \in Sides, at[c][s] \in {"ack", "put", "line", "try"},
         Finish(c, s), reg' = reg
  PROVE  Net'
<1>1. reg' \in [Nodes -> [Nodes -> Conns \cup {None}]]
  BY DEF Net, SessionTypes
<1>2. \A n, m \in Nodes :
        reg'[n][m] = IF n = NodeOf(c, s) /\ m = PeerOf(c, s) /\ reg[n][m] = c
                     THEN None ELSE reg[n][m]
  BY NotEntered
<1> QED BY <1>1, <1>2, FinishStep

LEMMA SameNet == Net /\ UNCHANGED <<link, at, acked, up, reg>> => Net'
BY CloseStep DEF Net, SessionTypes

LEMMA DialSteps ==
  ASSUME Net, NEW c \in Conns, ReadAck(c) \/ DialFails(c) \/ Put(c)
  PROVE  Net'
<1> USE DEF Sides
<1>1. CASE ReadAck(c)
  BY <1>1, MoveStep DEF ReadAck, Net, SessionTypes, Places
<1>2. CASE DialFails(c)
  BY <1>2, GiveUp DEF DialFails
<1>3. CASE Put(c)
  <2> DEFINE n == link[c][1]
             m == link[c][2]
             old == reg[n][m]
  <2>1. NodeOf(c, "dial") = n /\ PeerOf(c, "dial") = m /\ at[c]["dial"] = "put"
    BY <1>3 DEF Put, NodeOf, PeerOf, Other
  <2>2. n \in Nodes /\ m \in Nodes
    BY <2>1, InUse, Ends2
  <2>3. old \in Conns \cup {None} /\ up \in [Conns -> SUBSET Sides] /\ None \notin Conns
    BY <2>2, ApprovalAssumption DEF Net, SessionTypes
  <2>4. up' = IF old = None THEN up ELSE [up EXCEPT ![old] = @ \ {SideOf(old, n)}]
    BY <1>3 DEF Put
  <2>5. /\ up' \in [Conns -> SUBSET Sides] /\ \A d \in Conns : up'[d] \subseteq up[d]
        /\ old # None => SideOf(old, n) \notin up'[old]
    <3> HIDE DEF old, n, m
    <3> QED BY <2>3, <2>4
  <2>6. /\ reg' = [reg EXCEPT ![n][m] = c] /\ Move(c, "dial", "serve") /\ acked' \in SUBSET Conns
    BY <1>3 DEF Put, Net, SessionTypes
  <2> QED BY <2>1, <2>5, <2>6, EnterStep
<1> QED BY <1>1, <1>2, <1>3

LEMMA AcceptSteps ==
  ASSUME Net, NEW c \in Conns, Handshake(c) \/ Register(c)
  PROVE  Net'
<1> USE DEF Sides
<1>0. up \in [Conns -> SUBSET Sides] /\ acked \in SUBSET Conns
  BY DEF Net, SessionTypes
<1>1. CASE Handshake(c)
  <2>1. CASE Finish(c, "accept")
    BY <1>1, <2>1, GiveUp DEF Handshake
  <2>2. CASE ~Finish(c, "accept")
    BY <1>0, <1>1, <2>2, MoveStep DEF Handshake, Places
  <2> QED BY <2>1, <2>2
<1>2. CASE Register(c)
  <2> DEFINE n == link[c][2]
             m == link[c][1]
  <2>1. at[c]["accept"] = "try" /\ NodeOf(c, "accept") = n /\ PeerOf(c, "accept") = m
    BY <1>2 DEF Register, NodeOf, PeerOf, Other
  <2>2. CASE Live(n, m)
    BY <1>2, <2>1, <2>2, GiveUp DEF Register
  <2>3. CASE ~Live(n, m)
    <3>1. /\ reg' = [reg EXCEPT ![n][m] = c] /\ up' = up /\ acked' = acked
          /\ Move(c, "accept", IF n = Hub THEN "serve" ELSE "check")
      BY <1>2, <2>3 DEF Register
    <3>2. LET old == reg[n][m] IN old # None => SideOf(old, n) \notin up'[old]
      BY <2>3, <3>1 DEF Live
    <3>3. CASE n = Hub
      BY <1>0, <2>1, <3>1, <3>2, <3>3, EnterStep
    <3>4. CASE n # Hub
      BY <1>0, <2>1, <3>1, <3>2, <3>4, EnterStep
    <3> QED BY <3>3, <3>4
  <2> QED BY <2>2, <2>3
<1> QED BY <1>1, <1>2

LEMMA InboundNet ==
  ASSUME Net, NEW c \in Conns, CheckPeer(c) \/ MarkPeer(c) \/ LookPeer(c) \/ SavePeer(c)
  PROVE  Net'
<1> USE DEF Sides
<1>0. up \in [Conns -> SUBSET Sides] /\ acked \in SUBSET Conns
  BY DEF Net, SessionTypes
<1>1. acked' = acked /\ reg' = reg /\ at[c]["accept"] \in Writing /\ link[c][2] # Hub
  BY DEF CheckPeer, MarkPeer, LookPeer, SavePeer, Net, Shape
<1>2. up' \in [Conns -> SUBSET Sides] /\ \A d \in Conns : up'[d] \subseteq up[d]
  BY <1>0 DEF CheckPeer, MarkPeer, LookPeer, SavePeer
<1>3. \E p \in {"mark", "look", "save", "serve", "remove"} : Move(c, "accept", p)
  BY DEF CheckPeer, MarkPeer, LookPeer, SavePeer
<1> QED BY <1>0, <1>1, <1>2, <1>3, MoveStep DEF Places

LEMMA EndingSteps ==
  ASSUME Net, NEW c \in Conns, NEW s \in Sides, Leave(c, s) \/ Remove(c, s) \/ Notice(c, s)
  PROVE  Net'
<1>0. /\ up \in [Conns -> SUBSET Sides] /\ acked \in SUBSET Conns
      /\ reg \in [Nodes -> [Nodes -> Conns \cup {None}]]
  BY DEF Net, SessionTypes
<1>1. CASE Leave(c, s)
  BY <1>0, <1>1, MoveStep DEF Leave, Places
<1>2. CASE Remove(c, s)
  <2>1. /\ at[c][s] = "remove" /\ Finish(c, s)
        /\ reg' = [reg EXCEPT ![NodeOf(c, s)][PeerOf(c, s)] = IF @ = c THEN None ELSE @]
    BY <1>2 DEF Remove
  <2>2. NodeOf(c, s) \in Nodes /\ PeerOf(c, s) \in Nodes
    BY <2>1, InUse, Ends2 DEF NodeOf, PeerOf
  <2>3. /\ reg' \in [Nodes -> [Nodes -> Conns \cup {None}]]
        /\ \A n, m \in Nodes :
             reg'[n][m] = IF n = NodeOf(c, s) /\ m = PeerOf(c, s) /\ reg[n][m] = c
                          THEN None ELSE reg[n][m]
    BY <1>0, <2>1, <2>2
  <2> QED BY <2>1, <2>3, FinishStep
<1>3. CASE Notice(c, s)
  BY <1>0, <1>3, CloseStep DEF Notice
<1> QED BY <1>1, <1>2, <1>3

LEMMA CutStep ==
  ASSUME Net, NEW c \in Conns, Cut(c)
  PROVE  Net'
BY CloseStep DEF Cut, Net, SessionTypes

\* A restarted process has no ends and no registrations.
LEMMA RestartStep ==
  ASSUME Net, NEW n \in Nodes, Restart(n)
  PROVE  Net'
<1>0. /\ link \in [Conns -> (Nodes \X Nodes) \cup {None}] /\ at \in [Conns -> [Sides -> Places]]
      /\ up \in [Conns -> SUBSET Sides] /\ acked \in SUBSET Conns
      /\ reg \in [Nodes -> [Nodes -> Conns \cup {None}]]
  BY DEF Net, SessionTypes
<1>1. \A d \in Conns, t \in Sides :
        at'[d][t] = IF d \in Ends(n) /\ t = SideOf(d, n) THEN "done" ELSE at[d][t]
  <2> TAKE d \in Conns, t \in Sides
  <2>1. CASE d \in Ends(n)
    <3>1. at'[d] = [at[d] EXCEPT ![SideOf(d, n)] = "done"]
      BY <2>1 DEF Restart
    <3> QED BY <1>0, <2>1, <3>1
  <2>2. CASE d \notin Ends(n)
    BY <2>2 DEF Restart
  <2> QED BY <2>1, <2>2
<1>2. \A d \in Conns : /\ up'[d] = IF d \in Ends(n) THEN up[d] \ {SideOf(d, n)} ELSE up[d]
                       /\ link'[d] = IF \A t \in Sides : at'[d][t] = "done" THEN None ELSE link[d]
  BY DEF Restart
<1>3. /\ reg' \in [Nodes -> [Nodes -> Conns \cup {None}]]
      /\ \A i, j \in Nodes : reg'[i][j] = IF i = n THEN None ELSE reg[i][j]
  BY <1>0 DEF Restart
<1>4. \A d \in Conns : SideOf(d, n) \in Sides
  BY DEF SideOf, Sides
<1>5. at' \in [Conns -> [Sides -> Places]]
  <2>1. \A d \in Conns : [at[d] EXCEPT ![SideOf(d, n)] = "done"] \in [Sides -> Places]
    BY <1>0 DEF Places
  <2> QED BY <1>0, <2>1 DEF Restart
<1>6. SessionTypes'
  <2>1. up' \in [Conns -> SUBSET Sides]
    BY <1>0 DEF Restart
  <2>2. link' \in [Conns -> (Nodes \X Nodes) \cup {None}]
    BY <1>0 DEF Restart
  <2>3. acked' \in SUBSET Conns
    BY <1>0 DEF Restart
  <2>4. ASSUME NEW d \in Conns
        PROVE  /\ link'[d] = None <=> \A t \in Sides : at'[d][t] = "done"
               /\ \A t \in up'[d] : at'[d][t] # "done"
    <3>1. link[d] = None <=> \A t \in Sides : at[d][t] = "done"
      BY DEF Net, SessionTypes
    <3>2. (\A t \in Sides : at[d][t] = "done") => \A t \in Sides : at'[d][t] = "done"
      BY <1>1
    <3>3. \A t \in up'[d] : t \in Sides /\ t \in up[d] /\ ~(d \in Ends(n) /\ t = SideOf(d, n))
      BY <1>0, <1>2
    <3>4. \A t \in up[d] : at[d][t] # "done"
      BY DEF Net, SessionTypes
    <3>5. \A t \in up'[d] : at'[d][t] # "done"
      BY <1>1, <3>3, <3>4
    <3> QED BY <1>2, <3>1, <3>2, <3>5
  <2> QED BY <1>3, <1>5, <2>1, <2>2, <2>3, <2>4 DEF SessionTypes
<1>7. \A d \in Conns : link'[d] # None => link'[d] = link[d]
  BY <1>2
<1>8. Shape'
  <2> SUFFICES ASSUME NEW d \in Conns
               PROVE  /\ link'[d] # None => /\ link'[d] \in (Peers \X Peers) \cup (Members \X {Hub})
                                            /\ link'[d][1] # link'[d][2]
                      /\ at'[d]["dial"] \in {"ack", "put", "serve", "remove", "done"}
                      /\ at'[d]["accept"] \in {"line", "try", "serve", "remove", "done"} \cup Writing
                      /\ at'[d]["accept"] \in Writing => link'[d][2] # Hub
    BY DEF Shape
  <2>1. /\ at'[d]["dial"] \in {at[d]["dial"], "done"} /\ at'[d]["accept"] \in {at[d]["accept"], "done"}
    BY <1>1 DEF Sides
  <2>2. at'[d]["accept"] \in Writing => link'[d] = link[d]
    BY <1>2 DEF Sides
  <2> QED BY <1>7, <2>1, <2>2 DEF Net, Shape
<1>9. RegistryExact'
  <2>1. ASSUME NEW d \in Conns, NEW t \in up'[d], at'[d][t] \in Writing \cup {"serve"}
        PROVE  reg'[NodeOf(d, t)'][PeerOf(d, t)'] = d
    <3>1. t \in up[d] /\ t \in Sides /\ at[d][t] = at'[d][t] /\ ~(d \in Ends(n) /\ t = SideOf(d, n))
      BY <1>0, <1>1, <1>2, <2>1
    <3>2. link[d] # None /\ link'[d] = link[d]
      BY <1>2, <2>1, <3>1, InUse
    <3>3. NodeOf(d, t)' = NodeOf(d, t) /\ PeerOf(d, t)' = PeerOf(d, t)
      BY <3>2 DEF NodeOf, PeerOf
    <3>4. reg[NodeOf(d, t)][PeerOf(d, t)] = d
      BY <2>1, <3>1 DEF Net, RegistryExact
    <3>5. NodeOf(d, t) \in Nodes /\ PeerOf(d, t) \in Nodes /\ SideOf(d, NodeOf(d, t)) = t
      BY <3>1, <3>2, Ends2 DEF NodeOf, PeerOf, Other, Sides
    <3>6. NodeOf(d, t) # n
      BY <3>1, <3>2, <3>5 DEF Ends, NodeOf, Sides
    <3> QED BY <1>3, <3>3, <3>4, <3>5, <3>6
  <2>2. ASSUME NEW i \in Nodes, NEW j \in Nodes, reg'[i][j] # None
        PROVE  (/\ link[reg[i][j]] \in {<<i, j>>, <<j, i>>}
                /\ at[reg[i][j]][SideOf(reg[i][j], i)] \in Writing \cup {"serve", "remove"})'
    <3> DEFINE d == reg[i][j]
    <3>1. /\ reg'[i][j] = d /\ d \in Conns /\ link[d] \in {<<i, j>>, <<j, i>>} /\ i # n
          /\ at[d][SideOf(d, i)] \in Writing \cup {"serve", "remove"}
      BY <1>0, <1>3, <2>2 DEF Net, RegistryExact
    <3>2. link[d] # None /\ SideOf(d, i) \in Sides
      BY <3>1, InUse DEF SideOf, Sides
    <3>3. d \in Ends(n) => SideOf(d, n) # SideOf(d, i)
      BY <3>1, <3>2, Ends2 DEF Ends, SideOf
    <3>4. at'[d][SideOf(d, i)] = at[d][SideOf(d, i)]
      BY <1>1, <3>1, <3>2, <3>3
    <3>5. link'[d] = link[d]
      BY <1>2, <3>1, <3>2, <3>4
    <3> QED BY <3>1, <3>4, <3>5 DEF SideOf
  <2> QED BY <2>1, <2>2 DEF RegistryExact
<1> QED BY <1>6, <1>8, <1>9 DEF Net

LEMMA NetStep ==
  ASSUME Net, [Next]_vars
  PROVE  Net'
<1>1. CASE \E n, m \in Peers : DialPeer(n, m)
  <2> PICK n \in Peers, m \in Peers : DialPeer(n, m)
    BY <1>1
  <2>1. n # m /\ n \in Nodes /\ m \in Nodes /\ \E c \in Conns : Connect(c, n, m)
    BY DEF DialPeer, Nodes
  <2> QED BY <2>1, ConnectStep
<1>2. CASE \E m \in Members : DialHub(m)
  <2> PICK m \in Members : DialHub(m)
    BY <1>2
  <2>1. /\ m # Hub /\ m \in Nodes /\ Hub \in Nodes /\ \E c \in Conns : Connect(c, m, Hub)
    BY SessionsAssumption DEF DialHub, Nodes
  <2> QED BY <2>1, ConnectStep
<1>3. CASE \E c \in Conns : EndStep(c) \/ Cut(c)
  <2> PICK c \in Conns : EndStep(c) \/ Cut(c)
    BY <1>3
  <2>1. CASE ReadAck(c) \/ DialFails(c) \/ Put(c)
    BY <2>1, DialSteps
  <2>2. CASE Handshake(c) \/ Register(c)
    BY <2>2, AcceptSteps
  <2>5. CASE CheckPeer(c) \/ MarkPeer(c) \/ LookPeer(c) \/ SavePeer(c)
    BY <2>5, InboundNet
  <2>3. CASE \E s \in Sides : Leave(c, s) \/ Remove(c, s) \/ Notice(c, s)
    BY <2>3, EndingSteps
  <2>4. CASE Cut(c)
    BY <2>4, CutStep
  <2> QED BY <2>1, <2>2, <2>3, <2>4, <2>5 DEF EndStep
<1>4. CASE \E n \in Nodes : Restart(n)
  BY <1>4, RestartStep
<1>5. CASE Edit
  BY <1>5, SameNet DEF Edit
<1>7. CASE \E n \in Peers, w \in {"lan", "admin"} : EditSaved(n, w)
  BY <1>7, SameNet DEF EditSaved
<1>6. CASE UNCHANGED vars
  BY <1>6, SameNet DEF vars
<1> QED BY <1>1, <1>2, <1>3, <1>4, <1>5, <1>6, <1>7 DEF Next

-----------------------------------------------------------------------------
(* The table.                                                               *)

\* A SELECT: the upsert that follows is sure, or will be quarantined, or neither.
LEMMA LookStep ==
  ASSUME Table, NEW n \in Peers, NEW w \in Writers, NEW m \in Peers, NEW a \in Addresses,
         NEW row \in RowOf, Look(n, w, m, a, row),
         vouched' \in [Peers -> SUBSET Peers], \A i \in Peers : vouched[i] \subseteq vouched'[i],
         row.auth \/ row.status = "accepted" => m \in vouched'[n]
  PROVE  Table'
<1> PICK found \in {Taken(rows[n][m], a), FALSE} :
      save' = [save EXCEPT ![n][w] =
                 [of |-> m, to |-> a, row |-> IF found THEN Quarantined ELSE row,
                  sure |-> found = Taken(rows[n][m], a)]]
  BY DEF Look
<1> DEFINE taken == Taken(rows[n][m], a)
           new == IF found THEN Quarantined ELSE row
           s == [of |-> m, to |-> a, row |-> new, sure |-> found = taken]
<1>1. /\ rows \in [Peers -> [Peers -> [Addresses -> RowOf]]]
      /\ save \in [Peers -> [Writers -> SaveOf \cup {None}]]
      /\ unsure \in [Peers -> [Peers -> SUBSET Addresses]]
  BY DEF Table, ApprovalTypes
<1>2. rows' = rows /\ unsure' = unsure
  BY DEF Look
<1>3. Quarantined \in RowOf /\ found \in BOOLEAN
  BY DEF Quarantined, RowOf, Statuses, Taken
<1>4. s \in SaveOf
  BY <1>3 DEF SaveOf
<1>5. /\ save' \in [Peers -> [Writers -> SaveOf \cup {None}]]
      /\ \A i \in Peers, x \in Writers : save'[i][x] = IF i = n /\ x = w THEN s ELSE save[i][x]
  <2>1. save' = [save EXCEPT ![n][w] = s]
    OBVIOUS
  <2> HIDE DEF s
  <2> QED BY <1>1, <1>4, <2>1
<1>6. ApprovalTypes'
  BY <1>1, <1>2, <1>5 DEF ApprovalTypes
<1>7. s.of = m /\ s.to = a /\ s.row = new /\ (s.sure <=> (found = taken))
  OBVIOUS
<1>8. new.auth \/ new.status = "accepted" => m \in vouched'[n]
  BY DEF Quarantined
<1>9. Earned'
  <2>1. ASSUME NEW i \in Peers, NEW j \in Peers, NEW b \in Addresses
        PROVE  Deserves(i, j, rows[i][j][b])'
    BY <1>2 DEF Table, Earned, Deserves
  <2>2. ASSUME NEW i \in Peers, NEW j \in Peers, NEW x \in Writers,
               save'[i][x] # None, save'[i][x].of = j,
               save'[i][x].row.auth \/ save'[i][x].row.status = "accepted"
        PROVE  j \in vouched'[i]
    <3>1. CASE i = n /\ x = w
      <4> HIDE DEF s, new
      <4> QED BY <1>5, <1>7, <1>8, <2>2, <3>1
    <3>2. CASE ~(i = n /\ x = w)
      <4>1. save'[i][x] = save[i][x]
        BY <1>5, <3>2
      <4> QED BY <2>2, <4>1 DEF Table, Earned, Deserves
    <3> QED BY <3>1, <3>2
  <2> QED BY <2>1, <2>2 DEF Earned, Deserves
<1>10. SureOnes'
  <2> SUFFICES ASSUME NEW i \in Peers, NEW x \in Writers, save'[i][x] # None, save'[i][x].sure,
                      save'[i][x].row.status \in Trusting
               PROVE  ~Taken(rows[i][save'[i][x].of], save'[i][x].to)
    BY <1>2 DEF SureOnes
  <2>1. CASE i = n /\ x = w
    <3>1. save'[i][x] = s
      BY <1>5, <2>1
    <3>2. ~found
      BY <1>7, <3>1 DEF Quarantined, Trusting
    <3>3. ~taken
      BY <1>3, <1>7, <3>1, <3>2
    <3> QED BY <1>7, <2>1, <3>1, <3>3
  <2>2. CASE ~(i = n /\ x = w)
    <3>1. save'[i][x] = save[i][x]
      BY <1>5, <2>2
    <3> QED BY <3>1 DEF Table, SureOnes
  <2> QED BY <2>1, <2>2
<1>11. OneIdentity'
  BY <1>2 DEF Table, OneIdentity, Trusted
<1> QED BY <1>6, <1>9, <1>10, <1>11 DEF Table

\* The upsert of one writer; what others have looked up is not sure any more.
LEMMA UpsertStep ==
  ASSUME Table, NEW n \in Peers, NEW w \in Writers, Upsert(n, w)
  PROVE  Table'
<1> DEFINE s == save[n][w]
           over(v) == v # None /\ v.of = s.of /\ v.to # s.to /\ v.row # Quarantined
<1>1. /\ rows \in [Peers -> [Peers -> [Addresses -> RowOf]]]
      /\ save \in [Peers -> [Writers -> SaveOf \cup {None}]]
      /\ unsure \in [Peers -> [Peers -> SUBSET Addresses]]
      /\ vouched \in [Peers -> SUBSET Peers]
  BY DEF Table, ApprovalTypes
<1>2. /\ s # None /\ vouched' = vouched
      /\ rows' = [rows EXCEPT ![n][s.of][s.to] = s.row]
      /\ unsure' = [unsure EXCEPT ![n][s.of] = IF s.sure THEN @ \ {s.to} ELSE @ \cup {s.to}]
      /\ save' = [save EXCEPT ![n] = [x \in Writers |->
                    CASE x = w -> None
                      [] x # w /\ over(@[x]) -> [@[x] EXCEPT !.sure = FALSE]
                      [] OTHER -> @[x]]]
  BY DEF Upsert
<1>3. s \in SaveOf
  BY <1>1, <1>2
<1>4. s.of \in Peers /\ s.to \in Addresses /\ s.row \in RowOf /\ s.sure \in BOOLEAN
  BY <1>3 DEF SaveOf
<1>5. /\ rows' \in [Peers -> [Peers -> [Addresses -> RowOf]]]
      /\ \A i, j \in Peers, b \in Addresses :
           rows'[i][j][b] = IF i = n /\ j = s.of /\ b = s.to THEN s.row ELSE rows[i][j][b]
  <2> HIDE DEF s
  <2> QED BY <1>1, <1>2, <1>4
<1>6. /\ unsure' \in [Peers -> [Peers -> SUBSET Addresses]]
      /\ \A i, j \in Peers : ~(i = n /\ j = s.of) => unsure'[i][j] = unsure[i][j]
      /\ unsure'[n][s.of] = IF s.sure THEN unsure[n][s.of] \ {s.to} ELSE unsure[n][s.of] \cup {s.to}
  <2> HIDE DEF s
  <2> QED BY <1>1, <1>2, <1>4
<1>7. \A i \in Peers : i # n => save'[i] = save[i]
  BY <1>1, <1>2
<1>8. \A x \in Writers :
        save'[n][x] = CASE x = w -> None
                        [] x # w /\ over(save[n][x]) -> [save[n][x] EXCEPT !.sure = FALSE]
                        [] OTHER -> save[n][x]
  <2> HIDE DEF over
  <2> QED BY <1>1, <1>2
<1>9. \A i \in Peers, x \in Writers : save'[i][x] # None =>
        /\ save[i][x] # None /\ save[i][x] \in SaveOf /\ save'[i][x] \in SaveOf
        /\ save'[i][x].of = save[i][x].of /\ save'[i][x].to = save[i][x].to
        /\ save'[i][x].row = save[i][x].row
        /\ save'[i][x].sure => save[i][x].sure /\ ~(i = n /\ over(save[i][x]))
  <2> TAKE i \in Peers, x \in Writers
  <2> HAVE save'[i][x] # None
  <2>1. CASE i # n
    BY <1>1, <1>7, <2>1
  <2>2. CASE i = n /\ x # w /\ over(save[n][x])
    <3>1. save[n][x] # None
      BY <2>2
    <3> HIDE DEF over, s
    <3>2. save[n][x] \in SaveOf
      BY <1>1, <3>1
    <3>3. save'[n][x] = [save[n][x] EXCEPT !.sure = FALSE]
      BY <1>8, <2>2
    <3> QED BY <2>2, <3>1, <3>2, <3>3 DEF SaveOf
  <2>3. CASE i = n /\ x # w /\ ~over(save[n][x])
    <3>1. save'[n][x] = save[n][x]
      BY <1>8, <2>3
    <3> HIDE DEF over
    <3> QED BY <1>1, <2>3, <3>1
  <2>4. CASE i = n /\ x = w
    BY <1>8, <2>4
  <2> QED BY <2>1, <2>2, <2>3, <2>4
<1>10. save' \in [Peers -> [Writers -> SaveOf \cup {None}]]
  <2>1. DOMAIN save' = Peers /\ \A i \in Peers : DOMAIN save'[i] = Writers
    BY <1>1, <1>2
  <2>2. \A i \in Peers : save'[i] = [x \in Writers |-> save'[i][x]]
    BY <1>1, <1>2, <1>7
  <2>3. \A i \in Peers : save'[i] \in [Writers -> SaveOf \cup {None}]
    BY <1>9, <2>2
  <2>4. save' = [i \in Peers |-> save'[i]]
    BY <1>1, <1>2
  <2> HIDE DEF over, s
  <2> QED BY <2>3, <2>4
<1>11. ApprovalTypes'
  BY <1>1, <1>2, <1>5, <1>6, <1>10 DEF ApprovalTypes
<1> HIDE DEF over, s
<1>12. s.row.auth \/ s.row.status = "accepted" => s.of \in vouched[n]
  BY <1>2, <1>4 DEF Table, Earned, Deserves, s
<1>13. Earned'
  <2>1. ASSUME NEW i \in Peers, NEW j \in Peers, NEW b \in Addresses,
               rows'[i][j][b].auth \/ rows'[i][j][b].status = "accepted"
        PROVE  j \in vouched'[i]
    BY <1>2, <1>5, <1>12, <2>1 DEF Table, Earned, Deserves
  <2>2. ASSUME NEW i \in Peers, NEW j \in Peers, NEW x \in Writers,
               save'[i][x] # None, save'[i][x].of = j,
               save'[i][x].row.auth \/ save'[i][x].row.status = "accepted"
        PROVE  j \in vouched'[i]
    <3>1. /\ save[i][x] \in SaveOf /\ save[i][x].of = j
          /\ save[i][x].row.auth \/ save[i][x].row.status = "accepted"
      BY <1>9, <2>2
    <3>2. save[i][x] # None
      BY <1>9, <2>2
    <3> QED BY <1>2, <3>1, <3>2 DEF Table, Earned, Deserves
  <2> QED BY <2>1, <2>2 DEF Earned, Deserves
<1>14. SureOnes'
  <2> SUFFICES ASSUME NEW i \in Peers, NEW x \in Writers, save'[i][x] # None, save'[i][x].sure,
                      save'[i][x].row.status \in Trusting,
                      NEW b \in Addresses, b # save'[i][x].to
               PROVE  rows'[i][save'[i][x].of][b].status = "none"
    BY DEF SureOnes, Taken
  <2> DEFINE v == save[i][x]
  <2>1. /\ v \in SaveOf /\ save'[i][x].of = v.of /\ save'[i][x].to = v.to /\ v.sure
        /\ v.row.status \in Trusting /\ ~(i = n /\ over(v))
    BY <1>9
  <2>2. v # None
    BY <1>9
  <2>3. ~Taken(rows[i][v.of], v.to)
    BY <2>1, <2>2 DEF Table, SureOnes
  <2>4. rows[i][v.of][b].status = "none"
    BY <2>1, <2>3 DEF Taken
  <2>5. ~(i = n /\ v.of = s.of /\ b = s.to)
    <3>1. v.row # Quarantined
      BY <2>1 DEF Quarantined, Trusting
    <3> QED BY <2>1, <2>2, <3>1 DEF over
  <2>6. v.of \in Peers
    BY <2>1 DEF SaveOf
  <2> QED BY <1>5, <2>1, <2>4, <2>5, <2>6
<1>15. OneIdentity'
  <2> SUFFICES ASSUME NEW i \in Peers, NEW j \in Peers, NEW b \in Addresses, NEW d \in Addresses,
                      rows'[i][j][b].status \in Trusting, rows'[i][j][d].status \in Trusting,
                      b \notin unsure'[i][j], d \notin unsure'[i][j]
               PROVE  b = d
    BY DEF OneIdentity, Trusted
  <2>1. CASE ~(i = n /\ j = s.of)
    <3>1. /\ rows'[i][j][b] = rows[i][j][b] /\ rows'[i][j][d] = rows[i][j][d]
          /\ unsure'[i][j] = unsure[i][j]
      BY <1>5, <1>6, <2>1
    <3> QED BY <3>1 DEF Table, OneIdentity, Trusted
  <2>2. CASE i = n /\ j = s.of /\ b # s.to /\ d # s.to
    <3>1. /\ rows'[i][j][b] = rows[i][j][b] /\ rows'[i][j][d] = rows[i][j][d]
          /\ b \notin unsure[i][j] /\ d \notin unsure[i][j]
      BY <1>5, <1>6, <2>2
    <3> QED BY <3>1 DEF Table, OneIdentity, Trusted
  <2>3. CASE i = n /\ j = s.of /\ s.to \in {b, d}
    <3>1. s.sure /\ s.row.status \in Trusting
      BY <1>4, <1>5, <1>6, <2>3
    <3>2. ~Taken(rows[n][s.of], s.to)
      BY <1>2, <3>1 DEF Table, SureOnes, s
    <3>3. \A x \in Addresses \ {s.to} : rows'[i][j][x].status = "none"
      BY <1>5, <2>3, <3>2 DEF Taken
    <3> QED BY <2>3, <3>3 DEF Trusting
  <2> QED BY <2>1, <2>2, <2>3
<1> QED BY <1>11, <1>13, <1>14, <1>15 DEF Table

\* An UPDATE of the rows of one peer, which makes no row trusted and no row known.
LEMMA RowChange ==
  ASSUME Table, NEW n \in Peers, NEW m \in Peers, NEW r \in [Addresses -> RowOf],
         rows' = [rows EXCEPT ![n][m] = r], save' = save, unsure' = unsure, vouched' = vouched,
         \A a \in Addresses : /\ r[a].status \in Trusting => rows[n][m][a].status \in Trusting
                              /\ r[a].status = "none" <=> rows[n][m][a].status = "none",
         \A a \in Addresses : r[a].auth \/ r[a].status = "accepted" => m \in vouched[n]
  PROVE  Table'
<1>1. rows \in [Peers -> [Peers -> [Addresses -> RowOf]]]
  BY DEF Table, ApprovalTypes
<1>2. \A i, j \in Peers : rows'[i][j] = IF i = n /\ j = m THEN r ELSE rows[i][j]
  BY <1>1
<1>3. ApprovalTypes'
  BY <1>1 DEF ApprovalTypes, Table
<1>4. Earned'
  <2>1. ASSUME NEW i \in Peers, NEW j \in Peers, NEW a \in Addresses,
               rows'[i][j][a].auth \/ rows'[i][j][a].status = "accepted"
        PROVE  j \in vouched[i]
    <3>1. CASE i = n /\ j = m
      BY <1>2, <2>1, <3>1
    <3>2. CASE ~(i = n /\ j = m)
      BY <1>2, <2>1, <3>2 DEF Table, Earned, Deserves
    <3> QED BY <3>1, <3>2
  <2> QED BY <2>1 DEF Table, Earned, Deserves
<1>5. \A i, j \in Peers, a \in Addresses :
        /\ rows'[i][j][a].status \in Trusting => rows[i][j][a].status \in Trusting
        /\ rows'[i][j][a].status = "none" <=> rows[i][j][a].status = "none"
  BY <1>2
<1>6. SureOnes'
  <2> SUFFICES ASSUME NEW i \in Peers, NEW w \in Writers, save[i][w] # None, save[i][w].sure,
                      save[i][w].row.status \in Trusting
               PROVE  ~Taken(rows'[i][save[i][w].of], save[i][w].to)
    BY DEF SureOnes
  <2>1. save[i][w].of \in Peers
    BY DEF Table, ApprovalTypes, SaveOf
  <2>2. ~Taken(rows[i][save[i][w].of], save[i][w].to)
    BY DEF Table, SureOnes
  <2> QED BY <1>5, <2>1, <2>2 DEF Taken
<1>7. OneIdentity'
  BY <1>5 DEF Table, OneIdentity, Trusted
<1> QED BY <1>3, <1>4, <1>6, <1>7 DEF Table

\* The rows of one peer.
LEMMA RowFacts ==
  ASSUME Table, NEW n \in Peers, NEW m \in Peers
  PROVE  /\ rows[n][m] \in [Addresses -> RowOf]
         /\ \A a \in Addresses :
              rows[n][m][a].auth \/ rows[n][m][a].status = "accepted" => m \in vouched[n]
<1>1. rows[n][m] \in [Addresses -> RowOf]
  BY DEF Table, ApprovalTypes
<1> QED BY <1>1 DEF Table, Earned, Deserves

LEMMA MarkedStep ==
  ASSUME Table, NEW n \in Peers, NEW m \in Peers, m \in vouched[n],
         rows' = [rows EXCEPT ![n][m] = Marked(@)], save' = save, unsure' = unsure,
         vouched' = vouched
  PROVE  Table'
<1> DEFINE r == rows[n][m]
<1>1. r \in [Addresses -> RowOf]
  BY RowFacts
<1>2. \A a \in Addresses : Marked(r)[a] \in RowOf /\ Marked(r)[a].status = r[a].status
  BY <1>1 DEF Marked, RowOf
<1>3. Marked(r) \in [Addresses -> RowOf]
  BY <1>2 DEF Marked
<1>4. rows' = [rows EXCEPT ![n][m] = Marked(r)]
  OBVIOUS
<1>5. /\ \A a \in Addresses : /\ Marked(r)[a].status \in Trusting => rows[n][m][a].status \in Trusting
                              /\ Marked(r)[a].status = "none" <=> rows[n][m][a].status = "none"
      /\ \A a \in Addresses : Marked(r)[a].auth \/ Marked(r)[a].status = "accepted" => m \in vouched[n]
  BY <1>2
<1> DEFINE q == Marked(r)
<1> HIDE DEF q
<1>6. /\ q \in [Addresses -> RowOf] /\ rows' = [rows EXCEPT ![n][m] = q]
      /\ \A a \in Addresses : /\ q[a].status \in Trusting => rows[n][m][a].status \in Trusting
                              /\ q[a].status = "none" <=> rows[n][m][a].status = "none"
      /\ \A a \in Addresses : q[a].auth \/ q[a].status = "accepted" => m \in vouched[n]
  BY <1>3, <1>4, <1>5 DEF q
<1> QED BY <1>6, RowChange

LEMMA ApprovedStep ==
  ASSUME Table, NEW n \in Peers, NEW m \in Peers, ApprovePeer(n, m)
  PROVE  Table'
<1> DEFINE r == rows[n][m]
<1>1. /\ r \in [Addresses -> RowOf]
      /\ \A a \in Addresses : r[a].auth \/ r[a].status = "accepted" => m \in vouched[n]
  BY RowFacts
<1>2. \A a \in Addresses :
        /\ Approved(r)[a] \in RowOf
        /\ Approved(r)[a].auth = r[a].auth
        /\ Approved(r)[a].status = IF Approvable(r[a]) THEN "accepted" ELSE r[a].status
  BY <1>1 DEF Approved, RowOf, Statuses, Approvable
<1>3. Approved(r) \in [Addresses -> RowOf]
  BY <1>2 DEF Approved
<1>4. \A a \in Addresses :
        Approved(r)[a].auth \/ Approved(r)[a].status = "accepted" => m \in vouched[n]
  BY <1>1, <1>2 DEF Approvable
<1>5. \A a \in Addresses : /\ Approved(r)[a].status \in Trusting => r[a].status \in Trusting
                           /\ Approved(r)[a].status = "none" <=> r[a].status = "none"
  BY <1>2 DEF Approvable, Trusting
<1>6. /\ rows' = [rows EXCEPT ![n][m] = Approved(r)]
      /\ save' = save /\ unsure' = unsure /\ vouched' = vouched
  BY DEF ApprovePeer
<1> QED BY <1>3, <1>4, <1>5, <1>6, RowChange

LEMMA SameTable == Table /\ UNCHANGED table => Table'
BY DEF table, Table, ApprovalTypes, Earned, Deserves, SureOnes, OneIdentity, Trusted

LEMMA EditStep ==
  ASSUME Table, Edit
  PROVE  Table'
<1> PICK n \in Peers, m \in Peers : Announce(n, m) \/ AddPeer(n, m) \/ ApprovePeer(n, m)
  BY SessionsAssumption DEF Edit
<1>1. vouched \in [Peers -> SUBSET Peers]
  BY DEF Table, ApprovalTypes
<1>2. "listen" \in Addresses /\ "lan" \in Writers /\ "admin" \in Writers
  BY DEF Addresses, Writers
<1>3. CASE Announce(n, m)
  <2> DEFINE row == [status |-> "pending", auth |-> FALSE]
  <2>1. row \in RowOf /\ ~(row.auth \/ row.status = "accepted")
    BY DEF RowOf, Statuses
  <2>2. Look(n, "lan", m, "listen", row) /\ vouched' = vouched
    BY <1>3 DEF Announce
  <2> HIDE DEF row
  <2> QED BY <1>1, <1>2, <2>1, <2>2, LookStep
<1>4. CASE AddPeer(n, m)
  <2> DEFINE row == [status |-> "accepted", auth |-> TRUE]
  <2>1. row \in RowOf
    BY DEF RowOf, Statuses
  <2>2. Look(n, "admin", m, "listen", row) /\ vouched' = [vouched EXCEPT ![n] = @ \cup {m}]
    BY <1>4 DEF AddPeer
  <2>3. /\ vouched' \in [Peers -> SUBSET Peers] /\ \A i \in Peers : vouched[i] \subseteq vouched'[i]
        /\ m \in vouched'[n]
    BY <1>1, <2>2
  <2> HIDE DEF row
  <2> QED BY <1>2, <2>1, <2>2, <2>3, LookStep
<1>5. CASE ApprovePeer(n, m)
  BY <1>5, ApprovedStep
<1> QED BY <1>3, <1>4, <1>5

\* The two ends of an inbound connection that is looked at are peers, as Shape has it.
LEMMA Inbound ==
  ASSUME Net, NEW c \in Conns, at[c]["accept"] \in Writing
  PROVE  link[c][1] \in Peers /\ link[c][2] \in Peers
<1>1. link[c] # None
  BY InUse DEF Sides
<1> QED BY <1>1 DEF Net, Shape

LEMMA InboundStep ==
  ASSUME Table, Net, Presented, NEW c \in Conns,
         CheckPeer(c) \/ MarkPeer(c) \/ LookPeer(c) \/ SavePeer(c)
  PROVE  Table'
<1> DEFINE m == link[c][1]
           n == link[c][2]
<1>1. m \in Peers /\ n \in Peers /\ c \in Addresses /\ c \in Writers
  BY Inbound DEF CheckPeer, MarkPeer, LookPeer, SavePeer, Addresses, Writers
<1>2. vouched \in [Peers -> SUBSET Peers]
  BY DEF Table, ApprovalTypes
<1>3. CASE CheckPeer(c)
  <2>1. /\ rows' = rows /\ save' = save /\ unsure' = unsure
        /\ vouched' = [vouched EXCEPT ![n] = @ \cup {m}]
    BY <1>3 DEF CheckPeer
  <2>2. vouched' \in [Peers -> SUBSET Peers] /\ \A i \in Peers : vouched[i] \subseteq vouched'[i]
    BY <1>1, <1>2, <2>1
  <2>3. Earned'
    BY <2>1, <2>2 DEF Table, Earned, Deserves
  <2> QED BY <2>1, <2>2, <2>3 DEF Table, ApprovalTypes, SureOnes, OneIdentity, Trusted
<1>4. CASE MarkPeer(c)
  <2>1. /\ rows' = [rows EXCEPT ![n][m] = Marked(@)] /\ save' = save /\ unsure' = unsure
        /\ vouched' = vouched /\ m \in vouched[n]
    BY <1>4 DEF MarkPeer, Presented
  <2> HIDE DEF m, n
  <2> QED BY <1>1, <2>1, MarkedStep
<1>5. CASE LookPeer(c)
  <2>1. CASE UNCHANGED table
    BY <2>1, SameTable
  <2>2. CASE WriteDown(n, m, c)
    <3> DEFINE row == [status |-> "pending", auth |-> TRUE]
    <3>1. row \in RowOf
      BY DEF RowOf, Statuses
    <3>2. Look(n, c, m, c, row) /\ vouched' = vouched /\ m \in vouched[n]
      BY <1>5, <2>2 DEF WriteDown, LookPeer, Presented
    <3> HIDE DEF m, n, row
    <3> QED BY <1>1, <1>2, <3>1, <3>2, LookStep
  <2> QED BY <1>5, <2>1, <2>2 DEF LookPeer
<1>6. CASE SavePeer(c)
  BY <1>1, <1>6, UpsertStep, SameTable DEF SavePeer
<1> QED BY <1>3, <1>4, <1>5, <1>6

\* What a process was about to save is lost with it.
LEMMA RestartTable ==
  ASSUME Table, NEW n \in Nodes, Restart(n)
  PROVE  Table'
<1>1. /\ rows' = rows /\ unsure' = unsure /\ vouched' = vouched
      /\ save' = [p \in Peers |-> IF p = n THEN [w \in Writers |-> None] ELSE save[p]]
  BY DEF Restart
<1>2. /\ save' \in [Peers -> [Writers -> SaveOf \cup {None}]]
      /\ \A p \in Peers, w \in Writers : save'[p][w] # None => save'[p][w] = save[p][w]
  BY <1>1 DEF Table, ApprovalTypes
<1>3. ApprovalTypes'
  BY <1>1, <1>2 DEF Table, ApprovalTypes
<1>4. Earned'
  BY <1>1, <1>2 DEF Table, Earned, Deserves
<1>5. SureOnes'
  BY <1>1, <1>2 DEF Table, SureOnes
<1>6. OneIdentity'
  BY <1>1 DEF Table, OneIdentity, Trusted
<1> QED BY <1>3, <1>4, <1>5, <1>6 DEF Table

TableMoves ==
  \/ Edit \/ \E n \in Peers, w \in {"lan", "admin"} : Upsert(n, w)
  \/ \E c \in Conns : CheckPeer(c) \/ MarkPeer(c) \/ LookPeer(c) \/ SavePeer(c)
  \/ \E n \in Nodes : Restart(n)

LEMMA TableStep ==
  ASSUME Table, Net, Presented, [Next]_vars
  PROVE  Table'
<1>1. CASE Edit
  BY <1>1, EditStep
<1>2. CASE \E n \in Peers, w \in {"lan", "admin"} : Upsert(n, w)
  BY <1>2, UpsertStep DEF Writers
<1>3. CASE \E c \in Conns : CheckPeer(c) \/ MarkPeer(c) \/ LookPeer(c) \/ SavePeer(c)
  BY <1>3, InboundStep
<1>4. CASE \E n \in Nodes : Restart(n)
  BY <1>4, RestartTable
<1>5. CASE UNCHANGED table
  BY <1>5, SameTable
<1>6. TableMoves \/ UNCHANGED table
  <2>1. ASSUME NEW c \in Conns, EndStep(c) PROVE TableMoves \/ UNCHANGED table
    BY <2>1 DEF EndStep, ReadAck, DialFails, Put, Handshake, Register, Leave, Remove, Notice, TableMoves
  <2>2. ASSUME NEW c \in Conns, Cut(c) PROVE UNCHANGED table
    BY <2>2 DEF Cut
  <2>3. ASSUME NEW n \in Peers, NEW w \in {"lan", "admin"}, EditSaved(n, w) PROVE TableMoves
    BY <2>3 DEF EditSaved, TableMoves
  <2>4. ASSUME NEW n \in Peers, NEW m \in Peers, DialPeer(n, m) PROVE UNCHANGED table
    BY <2>4 DEF DialPeer, Connect
  <2>5. ASSUME NEW m \in Members, DialHub(m) PROVE UNCHANGED table
    BY <2>5 DEF DialHub, Connect
  <2>6. ASSUME UNCHANGED vars PROVE UNCHANGED table
    BY <2>6 DEF vars
  <2> QED BY <2>1, <2>2, <2>3, <2>4, <2>5, <2>6 DEF Next, TableMoves
<1> QED BY <1>1, <1>2, <1>3, <1>4, <1>5, <1>6 DEF TableMoves

\* Who has come past acceptsPeer presented the token.
LEMMA PresentedStep ==
  ASSUME Table, Net, Presented, [Next]_vars
  PROVE  Presented'
<1> DEFINE Past == {"mark", "look", "save"}
<1>0. /\ link \in [Conns -> (Nodes \X Nodes) \cup {None}] /\ at \in [Conns -> [Sides -> Places]]
      /\ vouched \in [Peers -> SUBSET Peers]
  BY DEF Net, SessionTypes, Table, ApprovalTypes
<1>1. \A i \in Peers : vouched[i] \subseteq vouched'[i]
  <2>1. ASSUME NEW c \in Conns, EndStep(c)
        PROVE  vouched' = vouched \/ vouched' = [vouched EXCEPT ![link[c][2]] = @ \cup {link[c][1]}]
    BY <2>1 DEF EndStep, ReadAck, DialFails, Put, Handshake, Register, CheckPeer, MarkPeer,
                LookPeer, SavePeer, WriteDown, Upsert, Leave, Remove, Notice, table
  <2>2. ASSUME NEW c \in Conns, Cut(c) PROVE vouched' = vouched
    BY <2>2 DEF Cut, table
  <2>3. ASSUME NEW n \in Nodes, Restart(n) PROVE vouched' = vouched
    BY <2>3 DEF Restart
  <2>4. ASSUME NEW n \in Peers, NEW m \in Peers, DialPeer(n, m) PROVE vouched' = vouched
    BY <2>4 DEF DialPeer, Connect, table
  <2>5. ASSUME NEW m \in Members, DialHub(m) PROVE vouched' = vouched
    BY <2>5 DEF DialHub, Connect, table
  <2>6. ASSUME Edit PROVE \A i \in Peers : vouched[i] \subseteq vouched'[i]
    <3> PICK n \in Peers, m \in Peers : Announce(n, m) \/ AddPeer(n, m) \/ ApprovePeer(n, m)
      BY <2>6, SessionsAssumption DEF Edit
    <3>1. vouched' = vouched \/ vouched' = [vouched EXCEPT ![n] = @ \cup {m}]
      BY DEF Announce, AddPeer, ApprovePeer
    <3> QED BY <1>0, <3>1
  <2>7. ASSUME NEW n \in Peers, NEW w \in {"lan", "admin"}, EditSaved(n, w) PROVE vouched' = vouched
    BY <2>7 DEF EditSaved, Upsert
  <2>8. ASSUME UNCHANGED vars PROVE vouched' = vouched
    BY <2>8 DEF vars, table
  <2>9. (\E c \in Conns : vouched' = [vouched EXCEPT ![link[c][2]] = @ \cup {link[c][1]}])
          => \A i \in Peers : vouched[i] \subseteq vouched'[i]
    BY <1>0
  <2> QED BY <2>1, <2>2, <2>3, <2>4, <2>5, <2>6, <2>7, <2>8, <2>9 DEF Next
<1>2. ASSUME NEW d \in Conns, at'[d]["accept"] \in Past, ~CheckPeer(d)
      PROVE  at[d]["accept"] \in Past /\ link'[d] = link[d]
  <2> USE DEF Sides
  <2>1. ASSUME NEW c \in Conns, EndStep(c)
        PROVE  at[d]["accept"] \in Past /\ link'[d] = link[d]
    <3>1. ASSUME NEW s \in Sides, NEW p \in Places, Move(c, s, p),
                 ~(c = d /\ s = "accept") \/ at[c][s] \in Past \/ p \notin Past
          PROVE  at[d]["accept"] \in Past /\ link'[d] = link[d]
      BY <1>0, <1>2, <3>1 DEF Move
    <3>2. ASSUME NEW s \in Sides, Finish(c, s)
          PROVE  at[d]["accept"] \in Past /\ link'[d] = link[d]
      <4>1. at'[d]["accept"] = IF c = d /\ s = "accept" THEN "done" ELSE at[d]["accept"]
        BY <1>0, <3>2 DEF Finish
      <4>2. at[d]["accept"] = at'[d]["accept"] /\ ~(c = d /\ s = "accept")
        BY <1>2, <4>1
      <4>3. c = d => s = "dial"
        BY <4>2
      <4>4. link'[d] = link[d]
        BY <1>0, <1>2, <3>2, <4>2, <4>3 DEF Finish, Other
      <4> QED BY <1>2, <4>2, <4>4
    <3>3. CASE ReadAck(c) \/ Put(c)
      BY <3>1, <3>3 DEF ReadAck, Put, Places
    <3>4. CASE DialFails(c)
      BY <3>2, <3>4 DEF DialFails
    <3>5. CASE Handshake(c) \/ Register(c)
      <4>1. "try" \in Places /\ "serve" \in Places /\ "check" \in Places
        BY DEF Places
      <4> QED BY <3>1, <3>2, <3>5, <4>1 DEF Handshake, Register
    <3>6. CASE CheckPeer(c)
      <4>1. c # d
        BY <1>2, <3>6
      <4>2. "mark" \in Places /\ "look" \in Places
        BY DEF Places
      <4> QED BY <3>1, <3>6, <4>1, <4>2 DEF CheckPeer
    <3>7. CASE MarkPeer(c) \/ LookPeer(c) \/ SavePeer(c)
      BY <3>1, <3>7 DEF MarkPeer, LookPeer, SavePeer, Places
    <3>8. CASE \E s \in Sides : Leave(c, s) \/ Remove(c, s) \/ Notice(c, s)
      <4> PICK s \in Sides : Leave(c, s) \/ Remove(c, s) \/ Notice(c, s)
        BY <3>8
      <4>1. CASE Leave(c, s)
        BY <3>1, <4>1 DEF Leave, Places
      <4>2. CASE Remove(c, s)
        BY <3>2, <4>2 DEF Remove
      <4>3. CASE Notice(c, s)
        BY <1>2, <4>3 DEF Notice
      <4> QED BY <4>1, <4>2, <4>3
    <3> QED BY <2>1, <3>3, <3>4, <3>5, <3>6, <3>7, <3>8 DEF EndStep
  <2>2. ASSUME NEW c \in Conns, NEW n \in Nodes, NEW m \in Nodes, Connect(c, n, m)
        PROVE  at[d]["accept"] \in Past /\ link'[d] = link[d]
    <3>1. c # d
      BY <1>0, <1>2, <2>2 DEF Connect
    <3> QED BY <1>0, <1>2, <2>2, <3>1 DEF Connect
  <2>3. ASSUME NEW n \in Nodes, Restart(n)
        PROVE  at[d]["accept"] \in Past /\ link'[d] = link[d]
    <3>1. link'[d] = link[d]
      BY <1>2, <2>3 DEF Restart
    <3>2. CASE d \in Ends(n)
      <4>1. at'[d] = [at[d] EXCEPT ![SideOf(d, n)] = "done"]
        BY <2>3, <3>2 DEF Restart
      <4> QED BY <1>0, <1>2, <3>1, <4>1
    <3>3. CASE d \notin Ends(n)
      BY <1>2, <2>3, <3>1, <3>3 DEF Restart
    <3> QED BY <3>2, <3>3
  <2>4. ASSUME UNCHANGED <<link, at>> PROVE at[d]["accept"] \in Past /\ link'[d] = link[d]
    BY <1>2, <2>4
  <2>5. \A i, j \in Peers : DialPeer(i, j) => \E c \in Conns, n \in Nodes, m \in Nodes : Connect(c, n, m)
    BY DEF DialPeer, Nodes
  <2>6. \A j \in Members : DialHub(j) => \E c \in Conns, n \in Nodes, m \in Nodes : Connect(c, n, m)
    BY DEF DialHub, Nodes
  <2>7. (\E c \in Conns : Cut(c)) \/ Edit \/ (\E n \in Peers, w \in {"lan", "admin"} : EditSaved(n, w))
          \/ UNCHANGED vars => UNCHANGED <<link, at>>
    BY DEF Cut, Edit, EditSaved, vars
  <2> QED BY <2>1, <2>2, <2>3, <2>4, <2>5, <2>6, <2>7 DEF Next
<1>3. ASSUME NEW d \in Conns, at'[d]["accept"] \in Past
      PROVE  link'[d][1] \in vouched'[link'[d][2]]
  <2>1. CASE CheckPeer(d)
    <3>1. link[d][2] \in Peers
      BY <2>1, Inbound DEF CheckPeer
    <3>2. link' = link /\ vouched' = [vouched EXCEPT ![link[d][2]] = @ \cup {link[d][1]}]
      BY <2>1 DEF CheckPeer, Move
    <3> QED BY <1>0, <3>1, <3>2
  <2>2. CASE ~CheckPeer(d)
    <3>1. at[d]["accept"] \in Past /\ link'[d] = link[d]
      BY <1>2, <1>3, <2>2
    <3>2. link[d][1] \in vouched[link[d][2]] /\ link[d][2] \in Peers
      BY <3>1, Inbound DEF Presented
    <3> QED BY <1>1, <3>1, <3>2
  <2> QED BY <2>1, <2>2
<1> QED BY <1>3 DEF Presented

-----------------------------------------------------------------------------
LEMMA CountersStep ==
  ASSUME Counters, [Next]_vars
  PROVE  Counters'
<1>1. ASSUME NEW c \in Conns, EndStep(c) PROVE events' = events
  BY <1>1 DEF EndStep, ReadAck, DialFails, Put, Handshake, Register, CheckPeer, MarkPeer, LookPeer,
              SavePeer, Leave, Remove, Notice
<1>2. ASSUME NEW c \in Conns, Cut(c) PROVE events' = events + 1
  BY <1>2 DEF Cut, Event
<1>3. ASSUME NEW n \in Nodes, Restart(n) PROVE events' = events + 1
  BY <1>3 DEF Restart, Event
<1>4. ASSUME NEW n \in Peers, NEW m \in Peers, DialPeer(n, m) PROVE events' = events
  BY <1>4 DEF DialPeer, Connect
<1>5. ASSUME NEW m \in Members, DialHub(m) PROVE events' = events
  BY <1>5 DEF DialHub, Connect
<1>6. ASSUME Edit PROVE events' = events + 1
  BY <1>6 DEF Edit, Event
<1>7. ASSUME NEW n \in Peers, NEW w \in {"lan", "admin"}, EditSaved(n, w) PROVE events' = events
  BY <1>7 DEF EditSaved
<1>8. ASSUME UNCHANGED vars PROVE events' = events
  BY <1>8 DEF vars
<1>9. events' \in {events, events + 1}
  BY <1>1, <1>2, <1>3, <1>4, <1>5, <1>6, <1>7, <1>8 DEF Next
<1> QED BY <1>9 DEF Counters

\* IInv is inductive.
THEOREM Inductive == Spec => []IInv
<1>1. Init => Presented /\ Counters
  BY DEF Init, Presented, Counters, Sides
<1>2. Init => Table /\ Net /\ Presented /\ Counters
  BY <1>1, InitNet, InitTable
<1>3. Table /\ Net /\ Presented /\ Counters /\ [Next]_vars
        => (Table /\ Net /\ Presented /\ Counters)'
  BY NetStep, TableStep, PresentedStep, CountersStep
<1>4. Spec => [](Table /\ Net /\ Presented /\ Counters)
  BY <1>2, <1>3, PTL DEF Spec
<1> QED BY <1>4, Parts, PTL

\* TypeOK holds for any sets of peers, members and connections.
THEOREM TypeCorrect == Spec => []TypeOK
<1>1. IInv => TypeOK
  BY DEF IInv
<1> QED BY <1>1, Inductive, PTL

\* The registries are exact (session.go:28-30, 45-79): the ends that serve are the ones
\* registered, and what is registered is served or about to be removed.
THEOREM RegistriesExact == Spec => []RegistryExact
<1>1. IInv => RegistryExact
  BY DEF IInv
<1> QED BY <1>1, Inductive, PTL

\* Whoever is accepted was entered by an administrator or presented the token.
THEOREM AcceptanceEarned == Spec => []AcceptedEarned
<1>1. IInv => AcceptedEarned
  BY DEF IInv, Earned, Deserves, AcceptedEarned, Accepts
<1> QED BY <1>1, Inductive, PTL

\* An id is trusted under one address at most, but for rows whose SELECT failed, or was
\* overtaken by a save of the same id before its upsert (fed_peers.go:29-48).
THEOREM IdentityIsOne == Spec => []OneIdentity
<1>1. IInv => OneIdentity
  BY DEF IInv
<1> QED BY <1>1, Inductive, PTL

\* The step of IncumbentStays.
IncumbentStep ==
  \A n, m \in Nodes : Live(n, m) /\ reg'[n][m] \notin {reg[n][m], None}
    => at[reg'[n][m]]["dial"] = "put" /\ link[reg'[n][m]] = <<n, m>>

LEMMA IncumbentLemma ==
  ASSUME Net, Next
  PROVE  IncumbentStep
<1> SUFFICES ASSUME NEW n \in Nodes, NEW m \in Nodes, Live(n, m), reg'[n][m] \notin {reg[n][m], None}
             PROVE  at[reg'[n][m]]["dial"] = "put" /\ link[reg'[n][m]] = <<n, m>>
  BY DEF IncumbentStep
<1>0. reg \in [Nodes -> [Nodes -> Conns \cup {None}]]
  BY DEF Net, SessionTypes
<1>1. ASSUME NEW c \in Conns, Put(c)
      PROVE  at[reg'[n][m]]["dial"] = "put" /\ link[reg'[n][m]] = <<n, m>>
  <2>1. at[c]["dial"] = "put" /\ reg' = [reg EXCEPT ![link[c][1]][link[c][2]] = c]
    BY <1>1 DEF Put
  <2>2. link[c] \in Nodes \X Nodes
    BY <2>1, InUse, Ends2 DEF Sides
  <2>3. reg'[n][m] = c /\ n = link[c][1] /\ m = link[c][2]
    BY <1>0, <2>1
  <2> QED BY <2>1, <2>2, <2>3
<1>2. ASSUME NEW c \in Conns, Register(c) PROVE FALSE
  <2>1. \/ reg' = reg
        \/ reg' = [reg EXCEPT ![link[c][2]][link[c][1]] = c] /\ ~Live(link[c][2], link[c][1])
    BY <1>2 DEF Register
  <2>2. reg'[n][m] # reg[n][m] => ~(n = link[c][2] /\ m = link[c][1])
    BY <1>0, <2>1
  <2>3. reg'[n][m] # reg[n][m] => n = link[c][2] /\ m = link[c][1]
    BY <1>0, <2>1
  <2> QED BY <2>2, <2>3
<1>3. ASSUME NEW c \in Conns, NEW s \in Sides, Remove(c, s) PROVE FALSE
  BY <1>0, <1>3 DEF Remove
<1>4. ASSUME NEW i \in Nodes, Restart(i) PROVE FALSE
  BY <1>0, <1>4 DEF Restart
<1>5. reg' # reg
  OBVIOUS
<1>6. ASSUME NEW c \in Conns, EndStep(c)
      PROVE  Put(c) \/ Register(c) \/ \E s \in Sides : Remove(c, s)
  BY <1>5, <1>6 DEF EndStep, ReadAck, DialFails, Handshake, CheckPeer, MarkPeer, LookPeer, SavePeer,
                     Leave, Notice
<1>7. ASSUME NEW c \in Conns, Cut(c) PROVE FALSE
  BY <1>5, <1>7 DEF Cut
<1>8. ASSUME NEW i \in Peers, NEW j \in Peers, DialPeer(i, j) PROVE FALSE
  BY <1>5, <1>8 DEF DialPeer, Connect
<1>9. ASSUME NEW j \in Members, DialHub(j) PROVE FALSE
  BY <1>5, <1>9 DEF DialHub, Connect
<1>10. ~Edit /\ \A i \in Peers, w \in {"lan", "admin"} : ~EditSaved(i, w)
  BY <1>5 DEF Edit, EditSaved
<1> QED BY <1>1, <1>2, <1>3, <1>4, <1>6, <1>7, <1>8, <1>9, <1>10 DEF Next

\* A live session gives way only to a dial of its own instance (session.go:56-70).
THEOREM IncumbentsStay == Spec => IncumbentStays
<1>1. IInv /\ [Next]_vars => [IncumbentStep]_vars
  BY IncumbentLemma, Parts
<1>2. Spec => [][IncumbentStep]_vars
  BY <1>1, Inductive, PTL DEF Spec
<1> QED BY <1>2 DEF IncumbentStays, IncumbentStep

\* Two instances with nothing under way between them name the same session.
THEOREM RegistriesAgree == Spec => []QuietAgree
<1>1. Net => QuietAgree
  <2> SUFFICES ASSUME Net, NEW n \in Nodes, NEW m \in Nodes, Settled(n, m)
               PROVE  reg[n][m] = reg[m][n]
    BY DEF QuietAgree
  <2>1. ASSUME NEW i \in Nodes, NEW j \in Nodes, {i, j} = {n, m}, reg[i][j] # None
        PROVE  reg[j][i] = reg[i][j]
    <3> DEFINE c == reg[i][j]
    <3>1. c \in Conns /\ link[c] \in {<<i, j>>, <<j, i>>}
      BY <2>1 DEF Net, SessionTypes, RegistryExact
    <3>2. link[c] \in {<<n, m>>, <<m, n>>}
      BY <2>1, <3>1
    <3>3. up[c] = Sides /\ \A s \in Sides : at[c][s] = "serve"
      BY <3>1, <3>2 DEF Settled
    <3>4. \A s \in Sides : reg[NodeOf(c, s)][PeerOf(c, s)] = c
      BY <3>1, <3>3 DEF Net, RegistryExact
    <3>5. reg[link[c][1]][link[c][2]] = c /\ reg[link[c][2]][link[c][1]] = c
      BY <3>4 DEF Sides, NodeOf, PeerOf, Other
    <3> QED BY <3>1, <3>5
  <2>2. CASE reg[n][m] # None
    BY <2>1, <2>2
  <2>3. CASE reg[m][n] # None
    BY <2>1, <2>3
  <2> QED BY <2>2, <2>3
<1>2. IInv => QuietAgree
  BY <1>1, Parts
<1> QED BY <1>2, Inductive, PTL
=============================================================================
