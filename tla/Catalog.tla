------------------------------ MODULE Catalog ------------------------------
(***************************************************************************)
(* Catalogs between federated instances (fed/sync.go, fed/relay.go,        *)
(* fed/peer_routes.go, fed/manager.go, store/library.go,                   *)
(* store/fed_groups.go).  A member pushes the tracks it shares to the hub  *)
(* and pulls what the hub shows it; a peer that also has a direct session  *)
(* with another pulls that peer's tracks from itself.  What is shown is    *)
(* scoped by the listening groups of whoever answers, and what is pulled   *)
(* is written row by row next to the rows of earlier answers.  Rounds      *)
(* overlap: an old session's loop finishes its round while the new one's   *)
(* is running, and the hub goes on with a push whose session has ended.    *)
(***************************************************************************)
EXTENDS FiniteSets, Naturals

CONSTANTS
  Hub, Members,
  Tracks, OwnerOf, LibraryOf,  \* whose each track is, and in which of its libraries
  Loops,           \* the sync loops: at which member, and with whom its session is
  Groups, Default, \* the names of listening groups, and the one that is seeded
  Accepted,        \* Accepted[n]: the accepted rows of federation_peer at n
  Upgraded,        \* the nodes that have not been started since there are listening groups
  None,
  MaxBusy,         \* bound on the rounds in progress at once
  MaxChanges,      \* bound on changes to libraries and groups
  MaxFaults        \* bound on crashes, broken sessions, failed statements and requests for
                   \* tracks that are kept, together

Nodes == Members \cup {Hub}

ASSUME CatalogAssumption ==
  /\ Hub \notin Members /\ Default \in Groups
  /\ None \notin Nodes /\ \A rows \in (SUBSET Nodes) \cup SUBSET Tracks : None # rows
  /\ OwnerOf \in [Tracks -> Nodes] /\ DOMAIN LibraryOf = Tracks
  /\ Loops \subseteq [at : Members, from : Nodes]
  /\ \A l \in Loops : l.at # l.from
  /\ Accepted \in [Nodes -> SUBSET Nodes] /\ Upgraded \subseteq Nodes
  /\ MaxBusy \in Nat /\ MaxChanges \in Nat /\ MaxFaults \in Nat

VARIABLES
  shared,   \* the tracks that are in an enabled library of their owner
  cache,    \* the hub's catalogs, in memory: what each member pushed last
  held,     \* held[n]: the rows n keeps of tracks of others
  queued,   \* queued[n]: those of them that n's queue refers to
  group,    \* group[n][g]: the members of n's group g, None if there is no such group
  seeded,   \* seeded[n]: the flag federation_groups_seeded
  boot,     \* how far the start of n has come
  round,    \* round[s]: where loop s[1] is, and its local variables, if s[2] is "new"; if it
            \* is "old", those of what is left of a round whose session has ended
  shown,    \* shown[s]: the peers that the viewer of s's present push or pull was entitled to
            \* see at some time since it began
  lacking,  \* lacking[m]: the tracks m did not share when it read what the hub keeps of it
  absent,   \* absent[s]: the tracks that were not shared when the answer of round s was read,
            \* and those of the peers its viewer was refused since
  seeds,    \* how often each node has created its default group
  slips,    \* how many statements of its seeding have failed
  changes, faults

tables == <<shared, held, queued>>
start == <<seeded, boot, seeds, slips>>
groups == <<group, start>>
counts == <<changes, faults>>
vars == <<tables, cache, groups, round, shown, lacking, absent, counts>>

Boots == {"flag", "create", "self", "peers", "mark", "up"}
Places == {"idle", "post", "get", "scope", "export", "apply", "upsert", "prune"}

\* job: what the loop is doing; left: the peers it has yet to decide on or to apply;
\* who: the one it is at;
\* answer: the rows shown of each peer, None if it is not named; todo, libs: the rows
\* and the libraries of who still to be applied.
Round == [at : Places, job : {"push", "pull", "direct"}, left : SUBSET Nodes, who : Nodes \cup {None},
          answer : [Nodes -> (SUBSET Tracks) \cup {None}], todo : SUBSET Tracks,
          libs : SUBSET {LibraryOf[t] : t \in Tracks}]

Slots == Loops \X {"new", "old"}
Nothing == [n \in Nodes |-> None]
Idle == [at |-> "idle", job |-> "pull", left |-> {}, who |-> None,
         answer |-> Nothing, todo |-> {}, libs |-> {}]

TypeOK ==
  /\ shared \in SUBSET Tracks /\ cache \in [Members -> (SUBSET Tracks) \cup {None}]
  /\ held \in [Nodes -> SUBSET Tracks] /\ queued \in [Nodes -> SUBSET Tracks]
  /\ group \in [Nodes -> [Groups -> (SUBSET Nodes) \cup {None}]]
  /\ seeded \in [Nodes -> BOOLEAN] /\ boot \in [Nodes -> Boots]
  /\ round \in [Slots -> Round] /\ shown \in [Slots -> SUBSET Nodes]
  /\ lacking \in [Members -> SUBSET Tracks] /\ absent \in [Slots -> SUBSET Tracks]
  /\ seeds \in [Nodes -> Nat] /\ slips \in [Nodes -> Nat]
  /\ changes \in Nat /\ faults \in Nat

Init ==
  /\ shared = Tracks /\ cache = [m \in Members |-> None]
  /\ held = [n \in Nodes |-> {}] /\ queued = [n \in Nodes |-> {}]
  /\ group = [n \in Nodes |-> [g \in Groups |-> None]]
  /\ seeded = [n \in Nodes |-> n \notin Upgraded]
  /\ boot = [n \in Nodes |-> IF n \in Upgraded THEN "flag" ELSE "up"]
  /\ round = [l \in Slots |-> Idle] /\ shown = [l \in Slots |-> {}]
  /\ lacking = [m \in Members |-> {}] /\ absent = [l \in Slots |-> {}]
  /\ seeds = [n \in Nodes |-> 0] /\ slips = [n \in Nodes |-> 0]
  /\ changes = 0 /\ faults = 0

Of(n, rows) == {t \in rows : OwnerOf[t] = n}

-----------------------------------------------------------------------------
(* Listening groups.                                                       *)

\* FederationGroupsExist
Active(n) == \E g \in Groups : group[n][g] # None

\* The second question of FederationCatalogVisible.
Share(n, owner, viewer) ==
  \E g \in Groups : group[n][g] # None /\ {owner, viewer} \subseteq group[n][g]

\* FederationCatalogVisible
Visible(n, owner, viewer) == Active(n) => Share(n, owner, viewer)

\* Those whose groups decide whether v is shown the tracks of n.
Authorities(v, n) == {Hub} \cup {a \in {n} : [at |-> v, from |-> a] \in Loops}

Write(n, g, members) == group' = [group EXCEPT ![n][g] = members]
Change == changes < MaxChanges /\ changes' = changes + 1
Fault == faults < MaxFaults /\ faults' = faults + 1
Up(n) == boot[n] = "up"

\* The statements of the store.  The name of a group is unique, and its members go with it.
Create(n, g) == group[n][g] = None /\ Write(n, g, {})
Dissolve(n, g) == group[n][g] # None /\ Write(n, g, None)
Join(n, g, p) == group[n][g] # None /\ Write(n, g, group[n][g] \cup {p})
Part(n, g, p) == group[n][g] # None /\ Write(n, g, group[n][g] \ {p})

\* createFederationGroup
CreateGroup(n, g) ==
  /\ Up(n) /\ Create(n, g) /\ Change
  /\ UNCHANGED <<tables, cache, start, round, faults>>

\* deleteFederationGroup
DeleteGroup(n, g) ==
  /\ Up(n) /\ Dissolve(n, g) /\ Change
  /\ UNCHANGED <<tables, cache, start, round, faults>>

\* addFederationGroupMember
AddMember(n, g, p) ==
  /\ Up(n) /\ Join(n, g, p) /\ p \notin group[n][g] /\ Change
  /\ UNCHANGED <<tables, cache, start, round, faults>>

\* removeFederationGroupMember
RemoveMember(n, g, p) ==
  /\ Up(n) /\ Part(n, g, p) /\ p \in group[n][g] /\ Change
  /\ UNCHANGED <<tables, cache, start, round, faults>>

-----------------------------------------------------------------------------
(* The start of an instance: SeedDefaultFederationGroup, statement by      *)
(* statement.                                                              *)

BootTo(n, b) == boot[n] # b /\ boot' = [boot EXCEPT ![n] = b]
Booting(n, b) == boot[n] = b /\ UNCHANGED <<tables, cache, round, changes>>

\* What the groups and the accepted peers say is to be done.
Found(n) == IF Active(n) \/ Accepted[n] = {} THEN "mark" ELSE "create"

\* Mutant: the flag is not looked at.
SeedReadAgain(n) ==
  /\ Booting(n, "flag")
  /\ BootTo(n, Found(n))
  /\ UNCHANGED <<group, seeded, seeds, slips, faults>>

SeedRead(n) ==
  /\ Booting(n, "flag")
  /\ BootTo(n, IF seeded[n] THEN "up" ELSE Found(n))
  /\ UNCHANGED <<group, seeded, seeds, slips, faults>>

SeedCreate(n) ==
  /\ Booting(n, "create") /\ BootTo(n, "self")
  /\ Create(n, Default)
  /\ seeds' = [seeds EXCEPT ![n] = @ + 1]
  /\ UNCHANGED <<seeded, slips, faults>>

SeedSelf(n) ==
  /\ Booting(n, "self") /\ BootTo(n, "peers")
  /\ Join(n, Default, n)
  /\ UNCHANGED <<seeded, seeds, slips, faults>>

SeedPeer(n) ==
  /\ Booting(n, "peers")
  /\ \E p \in Accepted[n] \ group[n][Default] : Join(n, Default, p)
  /\ UNCHANGED <<start, faults>>

SeedMark(n) ==
  /\ \/ Booting(n, "mark")
     \/ Booting(n, "peers") /\ Accepted[n] \subseteq group[n][Default]
  /\ BootTo(n, "up")
  /\ seeded' = [seeded EXCEPT ![n] = TRUE]
  /\ UNCHANGED <<group, seeds, slips, faults>>

Slip(n) ==
  /\ Fault /\ slips' = [slips EXCEPT ![n] = @ + 1]
  /\ UNCHANGED <<group, seeded, seeds>>

\* metaFlag: a flag that cannot be read is not set.
SeedUnread(n) == Booting(n, "flag") /\ BootTo(n, Found(n)) /\ Slip(n)

\* Any other statement that fails is logged, and the instance comes up as it is.
SeedFails(n) == (\E b \in Boots \ {"up"} : Booting(n, b)) /\ BootTo(n, "up") /\ Slip(n)

Boot(n) ==
  \/ SeedRead(n) \/ SeedCreate(n) \/ SeedSelf(n) \/ SeedPeer(n) \/ SeedMark(n)
  \/ SeedUnread(n) \/ SeedFails(n)

-----------------------------------------------------------------------------
(* A round of a loop.                                                      *)

Node(l) == l[1].at
From(l) == l[1].from
On(l, p) == round[l].at = p
Doing(l, j) == round[l].job = j
To(l, next) == round' = [round EXCEPT ![l] = next]

\* Whose groups decide, whose catalogs are asked for, and where they are written.
Authority(l) == From(l)
Viewer(l) == IF Doing(l, "push") THEN Hub ELSE Node(l)

\* The far end is at work on a push once it has it, and on an answer until it has given
\* it; a round that waits for the far end has nothing to go on with without it.
Waiting(l) ==
  \/ round[l].at \in {"post", "get"}
  \/ ~Doing(l, "push") /\ round[l].at \in {"scope", "export"}
Worker(l) == IF Doing(l, "push") \/ Waiting(l) THEN From(l) ELSE Node(l)

Busy == {l \in Slots : ~On(l, "idle")}
Step(l, p) == On(l, p) /\ UNCHANGED <<groups, counts>>

\* The end of a push or a pull: a push of a session that is up is followed by a pull.
After(l) ==
  IF Doing(l, "push") /\ l[2] = "new" THEN [Idle EXCEPT !.at = "get"] ELSE Idle

\* startSyncLoop, syncOnce, PushCatalog: what is shared is read, then posted.
\* startDirectSyncLoop: the peer is asked at once.
Start(l) ==
  /\ Step(l, "idle") /\ l[2] = "new" /\ Cardinality(Busy) < MaxBusy
  /\ Up(Node(l)) /\ Up(From(l))
  /\ To(l, IF From(l) = Hub
           THEN [Idle EXCEPT !.at = "post", !.job = "push",
                             !.answer[Node(l)] = Of(Node(l), shared)]
           ELSE [Idle EXCEPT !.at = "scope", !.job = "direct", !.left = {From(l)}])
  /\ UNCHANGED <<tables, cache>>

\* Mutant: the hub writes what it is pushed without asking its groups.
ReceiveAll(l) ==
  /\ Step(l, "post")
  /\ cache' = [cache EXCEPT ![Node(l)] = round[l].answer[Node(l)]]
  /\ To(l, [round[l] EXCEPT !.at = "apply", !.left = {Node(l)}])
  /\ UNCHANGED tables

\* receiveCatalog: the rows are kept whether or not the hub may see them.
Receive(l) ==
  /\ Step(l, "post")
  /\ cache' = [cache EXCEPT ![Node(l)] = round[l].answer[Node(l)]]
  /\ To(l, [round[l] EXCEPT !.at = "scope", !.left = {Node(l)}])
  /\ UNCHANGED tables

Named(answer) == {n \in Nodes : answer[n] # None}

\* Mutant: a member that has not pushed since the hub started has an empty catalog.
CatalogsEmptied(m) ==
  [n \in Nodes |-> CASE n = m -> None
                     [] n = Hub -> IF Of(Hub, shared) = {} THEN None ELSE Of(Hub, shared)
                     [] OTHER -> IF cache[n] = None THEN {} ELSE cache[n]]

\* The catalogs the hub has: those pushed to it, and its own if it is not empty.
Catalogs(m) ==
  [n \in Nodes |-> CASE n = m -> None
                     [] n = Hub -> IF Of(Hub, shared) = {} THEN None ELSE Of(Hub, shared)
                     [] OTHER -> cache[n]]

\* serveMerged begins.  deniedAcceptedPeers: accepted peers of which the hub has no
\* rows are asked about too.
Merged(l) ==
  /\ Step(l, "get")
  /\ LET answer == Catalogs(Node(l))
         left == Named(answer) \cup (Accepted[Hub] \ {Node(l)}) IN
     To(l, IF left = {} THEN Idle
           ELSE [round[l] EXCEPT !.at = "scope", !.left = left, !.answer = answer])
  /\ UNCHANGED <<tables, cache>>

\* Mutant: a peer that is denied is left out.
DecidedOmits(l, p, ok) ==
  LET rest == round[l].left \ {p}
      answer == IF ok THEN round[l].answer ELSE [round[l].answer EXCEPT ![p] = None]
      next == [round[l] EXCEPT !.answer = answer] IN
  CASE ok /\ Doing(l, "direct") -> [next EXCEPT !.at = "export"]
    [] rest # {} -> [next EXCEPT !.left = rest]
    [] OTHER -> IF Named(answer) = {} THEN After(l)
                ELSE [next EXCEPT !.at = "apply", !.left = Named(answer)]

\* The round after the decision on p: a peer that is denied is named with an empty catalog.
Decided(l, p, ok) ==
  LET rest == round[l].left \ {p}
      answer == IF ok THEN round[l].answer ELSE [round[l].answer EXCEPT ![p] = {}]
      next == [round[l] EXCEPT !.answer = answer] IN
  CASE ok /\ Doing(l, "direct") -> [next EXCEPT !.at = "export"]
    [] rest # {} -> [next EXCEPT !.left = rest]
    [] OTHER -> IF Named(answer) = {} THEN After(l)
                ELSE [next EXCEPT !.at = "apply", !.left = Named(answer)]

\* The peers are decided on one after another, first those the hub has rows of.
Asks(l, p) ==
  /\ On(l, "scope") /\ p \in round[l].left
  /\ round[l].answer[p] # None \/ \A q \in round[l].left : round[l].answer[q] = None

\* catalogVisible
Scope(l, p) ==
  /\ Step(l, "scope") /\ Asks(l, p)
  /\ To(l, Decided(l, p, Visible(Authority(l), p, Viewer(l))))
  /\ UNCHANGED <<tables, cache>>

\* PeerRoutes: a direct peer's own tracks, read after the decision.
Export(l) ==
  /\ Step(l, "export")
  /\ To(l, [round[l] EXCEPT !.at = "apply", !.left = {From(l)},
                            !.answer[From(l)] = Of(From(l), shared)])
  /\ UNCHANGED <<tables, cache>>

\* ApplyCatalog has dealt with a peer; PullAndApply takes them in no order.
Applied(l) ==
  LET rest == round[l].left \ {round[l].who} IN
  IF rest = {} THEN After(l)
  ELSE [round[l] EXCEPT !.at = "apply", !.left = rest, !.who = None, !.todo = {}, !.libs = {}]

\* One statement deletes rows, or none of them if the queue refers to one.
Delete(l, rows, next) ==
  IF rows \cap queued[Viewer(l)] = {}
  THEN held' = [held EXCEPT ![Viewer(l)] = @ \ rows] /\ To(l, next)
  ELSE UNCHANGED held /\ To(l, After(l))

\* ApplyCatalog begins: an empty catalog deletes all that is kept of the peer.
ApplyEmpty(l, p) ==
  /\ Step(l, "apply") /\ p \in round[l].left /\ round[l].answer[p] = {}
  /\ LET rest == round[l].left \ {p} IN
     Delete(l, Of(p, held[Viewer(l)]),
            IF rest = {} THEN After(l) ELSE [round[l] EXCEPT !.left = rest])
  /\ UNCHANGED <<shared, queued, cache>>

\* RemoteSourceLibraryIDs: the libraries that there are rows of.
Libraries(rows) == {LibraryOf[u] : u \in rows}

\* UpsertRemoteTrack, of a peer's first row or of a later one; after the last, the libraries
\* to be pruned are read.
Upsert(l, p, t) ==
  /\ \/ Step(l, "apply") /\ p \in round[l].left /\ round[l].answer[p] # {}
     \/ Step(l, "upsert") /\ p = round[l].who
  /\ LET rows == held[Viewer(l)] \cup {t}
         todo == IF On(l, "apply") THEN round[l].answer[p] ELSE round[l].todo
         next == [round[l] EXCEPT !.who = p, !.todo = todo \ {t}] IN
     /\ t \in todo
     /\ held' = [held EXCEPT ![Viewer(l)] = rows]
     /\ To(l, IF todo # {t} THEN [next EXCEPT !.at = "upsert"]
              ELSE [next EXCEPT !.at = "prune",
                                !.libs = Libraries(Of(p, rows))])
  /\ UNCHANGED <<shared, queued, cache>>

\* DeleteRemoteLibraryTracksExcept
Prune(l, lib) ==
  /\ Step(l, "prune") /\ lib \in round[l].libs
  /\ LET r == round[l]
         gone == {t \in Of(r.who, held[Viewer(l)]) \ r.answer[r.who] : LibraryOf[t] = lib}
         rest == r.libs \ {lib} IN
     Delete(l, gone, IF rest = {} THEN Applied(l) ELSE [r EXCEPT !.libs = rest])
  /\ UNCHANGED <<shared, queued, cache>>

\* The steps of a round that is under way.
Work(l) ==
  \/ Receive(l) \/ Merged(l) \/ Export(l)
  \/ \E p \in round[l].left : \/ Scope(l, p) \/ ApplyEmpty(l, p)
                            \/ \E t \in Tracks : Upsert(l, p, t)
  \/ \E lib \in round[l].libs : Prune(l, lib)

-----------------------------------------------------------------------------
(* What goes wrong.                                                        *)

\* Whether there is something left of a round when its session ends, at somebody who is
\* not in gone: what has been received is worked on to its end.
Leaves(l, gone) ==
  LET s == <<l, "new">> IN ~On(s, "idle") /\ ~Waiting(s) /\ Worker(s) \notin gone

\* The sessions of the loops in ended end.  One round at a time is left over of a loop.
End(ended, gone) ==
  /\ \A l \in ended : Leaves(l, gone) => On(<<l, "old">>, "idle")
  /\ round' = [s \in Slots |->
       CASE s[1] \notin ended -> round[s]
         [] s[1] \in ended /\ s[2] = "old" /\ Leaves(s[1], gone) -> round[<<s[1], "new">>]
         [] s[1] \in ended /\ s[2] = "old" /\ ~Leaves(s[1], gone) /\ Worker(s) \notin gone -> round[s]
         [] OTHER -> Idle]

\* A session ends, and the next one begins.
Cut(l) ==
  /\ ~On(<<l, "new">>, "idle") /\ Fault
  /\ End({l}, {})
  /\ UNCHANGED <<tables, cache, groups, changes>>

\* catalogVisible: a query that fails denies.
Deny(l, p) ==
  /\ Asks(l, p) /\ Fault
  /\ To(l, Decided(l, p, FALSE))
  /\ UNCHANGED <<tables, cache, groups, changes>>

\* FederationCatalogVisible asks whether there are groups, and then whether owner and
\* viewer share one.  The last group is deleted in between: denied, though all see all
\* before it and after it.
DeleteBetween(n, g, l, p) ==
  /\ Asks(l, p) /\ Authority(l) = n
  /\ \A k \in Groups : group[n][k] # None <=> k = g
  /\ Up(n) /\ Dissolve(n, g) /\ Change
  /\ To(l, Decided(l, p, FALSE))
  /\ UNCHANGED <<tables, cache, start, faults>>

\* A statement that fails ends the push or the pull where it is.
Abort(l) ==
  /\ round[l].at \in {"export", "apply", "upsert", "prune"} /\ Fault
  /\ To(l, After(l))
  /\ UNCHANGED <<tables, cache, groups, changes>>

\* An instance stops and starts again: its tables stay, the hub's catalogs do not, and
\* the sessions with it end.
Crash(n) ==
  /\ Fault
  /\ boot' = [boot EXCEPT ![n] = "flag"]
  /\ cache' = IF n = Hub THEN [m \in Members |-> None] ELSE cache
  /\ End({l \in Loops : n \in {l.at, l.from}}, {n})
  /\ UNCHANGED <<tables, group, seeded, seeds, slips, changes>>

-----------------------------------------------------------------------------
(* The libraries and the queues.                                           *)

\* A scan finds t or misses it, or its library is switched on or off.
Scan(t) ==
  /\ Change
  /\ shared' = IF t \in shared THEN shared \ {t} ELSE shared \cup {t}
  /\ UNCHANGED <<held, queued, cache, groups, round, faults>>

\* A row that is kept is requested, and leaves the queue when it is played.
Request(n, t) ==
  /\ Up(n) /\ t \in held[n] /\ t \notin queued[n] /\ Fault
  /\ queued' = [queued EXCEPT ![n] = @ \cup {t}]
  /\ UNCHANGED <<shared, held, cache, groups, round, changes>>
Play(n, t) ==
  /\ Up(n) /\ t \in queued[n]
  /\ queued' = [queued EXCEPT ![n] = @ \ {t}]
  /\ UNCHANGED <<shared, held, cache, groups, round, counts>>

-----------------------------------------------------------------------------
\* The tracks of a peer that this step refuses the viewer of round s: its groups do not
\* show them, or a query failed, or groups changed between two.
Refused(s) ==
  {t \in Tracks : LET p == OwnerOf[t] IN
     /\ On(s, "scope") /\ round[s].answer[p] # {} /\ round'[s].answer[p] = {}
     /\ ~Visible(Authority(s), p, Viewer(s)) \/ faults' # faults \/ group' # group}

\* What the answer of s lacks as of this step.
Lacks(s) ==
  IF round'[s].at \in {"idle", "get"} THEN {}
  ELSE CASE On(s, "idle") /\ s[2] = "old" -> absent[<<s[1], "new">>]
         [] On(s, "idle") /\ s[2] = "new" /\ round'[s].at = "post" -> Of(Node(s), Tracks \ shared)
         [] On(s, "get") -> Of(Hub, Tracks \ shared) \cup UNION {Of(m, lacking[m]) : m \in Members}
         [] On(s, "export") /\ round'[s].at = "apply" -> absent[s] \cup Of(From(s), Tracks \ shared)
         [] OTHER -> absent[s] \cup Refused(s)

\* The hub takes what m has pushed in round s.
Takes(m, s) == Node(s) = m /\ On(s, "post") /\ round'[s].at \notin {"idle", "post"}

\* What the viewer of s has been shown since its push or pull began: the remains of a
\* round began where the round did.
Seen(s) ==
  CASE s[2] = "old" /\ On(s, "idle") -> shown[<<s[1], "new">>]
    [] s[2] = "new" /\ round'[s].job # round[s].job -> {}
    [] OTHER -> shown[s]

Watch ==
  /\ shown' = [s \in Slots |->
       IF round'[s].at = "idle" THEN {}
       ELSE Seen(s) \cup {n \in Nodes : Visible(Authority(s), n, Viewer(s))'}]
  /\ absent' = [s \in Slots |-> Lacks(s)]
  /\ lacking' = [m \in Members |->
       CASE cache'[m] = None -> {}
         [] \E s \in Slots : Takes(m, s) -> UNION {absent[s] : s \in {x \in Slots : Takes(m, x)}}
         [] OTHER -> lacking[m]]

Do ==
  \/ \E n \in {l.from : l \in Loops}, g \in Groups :
       \/ CreateGroup(n, g) \/ DeleteGroup(n, g)
       \/ \E p \in Nodes : AddMember(n, g, p) \/ RemoveMember(n, g, p)
       \/ \E l \in Slots : \E p \in round[l].left : DeleteBetween(n, g, l, p)
  \/ \E n \in Nodes : Boot(n) \/ Crash(n)
  \/ \E l \in Loops : Cut(l)
  \/ \E l \in Slots : Start(l) \/ Work(l) \/ Abort(l) \/ \E p \in round[l].left : Deny(l, p)
  \/ \E t \in Tracks : Scan(t)
  \/ \E n \in Nodes, t \in Tracks : Request(n, t) \/ Play(n, t)

Next == Do /\ Watch

\* Every start and every round comes to its end, and every loop has another tick: the
\* loops share nothing that one of them could keep from another.  (MaxBusy makes a loop
\* wait for others, so that this says more than the weak fairness of each of them.)
Fairness ==
  /\ \A n \in Nodes : []<>Up(n)
  /\ \A s \in Slots : []<>On(s, "idle")
  /\ \A l \in Loops : []<>~On(<<l, "new">>, "idle")

Spec == Init /\ [][Next]_vars
FairSpec == Spec /\ Fairness

-----------------------------------------------------------------------------
(* Properties.                                                             *)

\* Reconciling in place (fed/sync.go): a row keeps its id, which is to say that it is not
\* deleted, unless the answer that deletes it has a reason: its track was not shared when
\* the catalog was read that the answer goes back to, or the viewer was refused its owner
\* when the answer was made.  A hub that restarts with no catalogs is no reason, nor is a
\* round that is cut halfway.  Which answer is the newer one does not count: the remains of
\* an older round may delete, by their own answer, what a newer round has just written, and
\* the row comes back with another id.
StableRows ==
  [][\A v \in Nodes : \A t \in held[v] \ held'[v] :
       \E s \in Slots : Viewer(s) = v /\ round'[s] # round[s] /\ t \in absent[s]]_vars

\* Revoking a membership (fed/groups.go): a push or a pull that began after it, and
\* before the next change to the groups, writes no row of the peer that was revoked,
\* whatever the hub has kept of it.
NoLeak ==
  [][\A v \in Nodes : \A t \in held'[v] \ held[v] :
       \E l \in Slots : Viewer(l) = v /\ round'[l] # round[l] /\ OwnerOf[t] \in shown[l]]_vars

\* SeedDefaultFederationGroup runs at most once (keyFederationGroupsSeeded): the group an
\* administrator has deleted does not come back, and a start that crashed halfway does not
\* make a second one.  Only a failed statement of a seeding, after which the instance comes
\* up all the same, can be followed by another group.
SeededOnce == \A n \in Nodes : seeds[n] <= 1 + slips[n]

\* The comment on SeedDefaultFederationGroup: it runs at most once.
RunsOnce == \A n \in Nodes : seeds[n] <= 1

\* The comment on SeedDefaultFederationGroup: every peer already accepted joins the
\* group it creates, so those that could see each other before still can.
SeedComplete ==
  \A n \in Nodes :
    Up(n) /\ seeds[n] > 0 /\ changes = 0 => Accepted[n] \cup {n} \subseteq group[n][Default]

\* v keeps what it is shown of n, if those who may show it agree.  The hub names its own
\* catalog only when it is not empty, so the rows of the last track it shared stay.
InStep(v, n) ==
  LET ok == {a \in Authorities(v, n) : Visible(a, n, v)} IN
  \/ n = Hub /\ Of(Hub, shared) = {}
  \/ /\ ok = Authorities(v, n) => Of(n, held[v]) = Of(n, shared)
     /\ ok = {} => Of(n, held[v]) = {}

\* Once libraries and groups no longer change, everybody's rows come to be those that
\* are shown, unless a queue goes on holding one (the rounds repeat every 30 seconds).
Converges ==
  (<>[](\A n \in Nodes : queued[n] = {}))
    => <>[](\A v, n \in Nodes : v # n => InStep(v, n))

-----------------------------------------------------------------------------
(* The inductive invariants behind the theorems of CatalogProofs.          *)

\* A group is created only by a start that found none and, but for as many failures, has
\* not been marked done; nobody but an administrator of an instance that is up takes it away
\* again, and an instance that is up without the mark owes that to a failure.
Seeding ==
  \A n \in Nodes :
    /\ seeds[n] <= 1 + slips[n]
    /\ boot[n] = "create" => seeds[n] <= slips[n]
    /\ ~seeded[n] /\ (Up(n) \/ group[n][Default] = None) => seeds[n] <= slips[n]

\* The tracks of p that are not in an answer are in gone.
Missing(answer, p, gone) == Of(p, Tracks) \ answer[p] \subseteq gone

\* What a member has pushed are tracks of its own, and those it left out it did not share.
Pushed ==
  \A m \in Members : cache[m] # None =>
    cache[m] \subseteq Of(m, Tracks) /\ Missing(cache, m, lacking[m])

\* A round r of l, whose viewer has seen the peers in seen and whose answer rightly lacks
\* the tracks in gone: what is left to apply has been decided on, whoever is shown with rows
\* is one the viewer saw, and whatever an answer leaves out is in gone.
Sound(l, r, seen, gone) ==
  /\ \A p \in Nodes : r.answer[p] # None =>
       r.answer[p] \subseteq Of(p, Tracks) /\ Missing(r.answer, p, gone)
  /\ r.at \in {"idle", "get"} => Named(r.answer) = {}
  /\ r.at = "post" => r.job = "push" /\ Named(r.answer) = {Node(l)}
  /\ r.at = "get" => r.job = "pull"
  /\ r.at = "scope" =>
       /\ r.job = "direct" => r.left \subseteq {From(l)}
       /\ \A p \in Nodes \ r.left : r.answer[p] \in {None, {}} \/ p \in seen
  /\ r.at = "export" => From(l) \in seen
  /\ r.at \in {"apply", "upsert", "prune"} =>
       \A p \in r.left : r.answer[p] # None /\ (r.answer[p] = {} \/ p \in seen)
  /\ r.at \in {"upsert", "prune"} => r.who \in seen /\ r.answer[r.who] # None
  /\ r.at = "upsert" => r.todo \subseteq r.answer[r.who]

Rounds == \A l \in Slots : Sound(l, round[l], shown[l], absent[l])

IInv == TypeOK /\ Seeding /\ Pushed /\ Rounds
=============================================================================
