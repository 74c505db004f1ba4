# Exit 66 Jukebox: a TLA+ verification project

Exit 66 Jukebox is a Go server that plays a shared music library as MP3 streams.
Clients request tracks, one playback loop per stream pops the queue and
broadcasts audio, users cast to Sonos speakers, finished plays are scrobbled to
external services, and several instances federate their libraries.  This
directory models the parts whose correctness depends on interleavings, on order
or on failures; TLC checks the models on small instances and TLAPS proves the
most important safety properties for every value of the constants.

Paths below are relative to the repository root (`src/` in `PROJECT.json`).

## 1. Inventory

### Audio broadcast hub: `internal/broadcast/hub.go`
- *State*: `closed`, `listeners` (a map of buffered channels, 64 chunks each), a mutex.
- *Operations*: `Listen` and the cancel func it returns, `Close`, `Closed`,
  `ListenerCount`, `broadcast` (a non-blocking send), `Run` (gate on listeners,
  pop, play, or silence).
- *Interacts with*: the handler in `stream.go` that owns the channel; the
  pipeline teardown that calls `Close`; the reaper that reads `ListenerCount`.
- *Hard*: a close races a listener's own cancel; a slow client; a listener that
  registers while the hub closes.
- *Correct when*: no double close and no send on a closed channel, delivery in
  order without repeats, every handler let go after a close.

### Event bus: `internal/events/bus.go`
The same protocol with 16-event buffers; subscribers are SSE handlers.

### Shared-stream pipelines: `internal/api/pipeline.go`, `stream.go`, `streamadmin.go`, `main.go`
- *State*: `Server.pipes` (stream id to hub, bus, now-playing and cancel func),
  `pipesMu`, `pipeWG`, the stream rows in the database.
- *Operations*: `ensurePipeline`, `attach`, `stopPipeline`, `reapWhenIdle`,
  `RegisterStream`, `WaitForPipelines`; `createStream`, `deleteStream`.
- *Hard*: lazy creation by racing first listeners; teardown of the same id by a
  reaper and by a delete; a row read outside the lock; goroutines counted after
  the unlock; shutdown.
- *Correct when*: the map holds only live pipelines, no encoder is lost track
  of, a delete and an idle timeout release everything, shutdown waits for all.

### Request queue and station: `internal/jukebox/jukebox.go`, `internal/store/queue.go`, `station.go`, `discover.go`
- *State*: `queue_item`, `play_history`, `station` rows; the per-stream shuffle
  flag in memory; SQLite snapshots of open transactions.
- *Operations*: `Request` (queued? recently played? enqueue), `RequestAlbum`,
  `RequestArtist`, `Next` (pop, record, refill), `Remove`, `Clear`,
  `StartStation`, `StopStation`, `SetShuffle`.
- *Hard*: nothing above the database serialises these; each operation is several
  statements; a deferred transaction that reads and then writes.
- *Correct when*: a pop plays the head and removes exactly it, a station with
  enough tracks does not run dry by itself, a failed pop is not taken for an empty queue.

### Playback loop, now-playing, scrobble gate: `main.go`, `internal/api/nowplaying.go`, `internal/scrobble/threshold.go`
- *State*: the `playing` flag of the loop, the current track and its start, the
  scrobble rows it enqueues.
- *Operations*: `next` (pop, settle the previous track, publish), `settle`.
- *Hard*: a pop that fails or a track that vanished between pop and lookup; two
  services enqueued one after the other.
- *Correct when*: each finished play that passes the threshold is enqueued once.

### Scrobble delivery: `internal/scrobble/drainer.go`, `internal/store/scrobble.go`
- *State*: the durable `scrobble_queue`.
- *Operations*: `DrainOnce` per service: read a batch, submit, delete or bump.
- *Hard*: a crash between submit and delete, a failing delete, a service that
  disables itself, tracks that vanish while queued.
- *Correct when*: every queued listen is delivered at least once, in order per
  service, and one service's failures do not lose another's rows.

### Federation sessions: `internal/fed/manager.go`, `session.go`
- *State*: `Registry` (peer id to session and capabilities), listeners, the
  yamux sessions themselves.
- *Operations*: `runMember`, `runPeerDialer`, `dialPeer`, `acceptAndRegister`,
  `servePeerConn`, `serveHubConn`, `put`, `putIfFree`, `remove`, `learnCaps`.
- *Hard*: both sides dial at once; several connections claim one id; a reconnect
  races the removal of the session it replaces, at either end; capabilities
  learned after the session was registered.
- *Correct when*: what serves is registered and what is registered is served, a
  removal never takes out its successor, a live session is not evicted by whoever
  claims its id, both ends name the same session, a member gets its hub back.

### Federation catalog and groups: `internal/fed/sync.go`, `relay.go`, `groups.go`, `peer_routes.go`, `internal/store/fed_groups.go`, `library.go`
- *State*: remote track rows per peer and library, the hub's catalogs in memory,
  listening groups with their members, the flag that says they were seeded.
- *Operations*: `PushCatalog`, `receiveCatalog`, `serveMerged`, `PullAndApply`,
  `ApplyCatalog` (upsert, prune), `catalogVisible`; the four group handlers and
  `SeedDefaultFederationGroup`.
- *Interacts with*: the sessions that carry pushes and pulls; the scan, which
  changes what is shared; the queue, whose foreign key keeps rows.
- *Hard*: rows applied outside a transaction; revocation that only reaches a
  peer with a later pull; a hub that restarts with nothing in memory; rounds of
  an ended session that go on beside those of its successor.
- *Correct when*: a row is deleted only by an answer that had a reason to leave it out,
  nothing is shown again after a revocation, the seeded group is made once, and copies
  come to agree with their source.

### WebRTC signaling and transport: `internal/fed/signaling.go`, `webrtc.go`, `webrtc_audio.go`
- *State*: mailboxes per peer, negotiation slots by session id (SID), the
  cached connection per peer, and the PeerConnections themselves.
- *Operations*: `Register`, `Unregister`, `Send`; `Dial` (which takes the cached
  connection or negotiates), `handleOffer`, `routeToDial`, `put`, `get`,
  `evictConn`, the releases of either side; `serveAudioRequest`,
  `ServeAudioOverConn`.
- *Interacts with*: the federation sessions, which carry offers and answers as HTTP
  requests; the audio handlers at both ends.
- *Hard*: signals that are repeated, late, or reported as lost although they came;
  overlapping dials to one peer; setup deadlines at both ends; requests that share a
  channel.
- *Correct when*: no negotiation orphans a PeerConnection, a dial cleans up after
  itself and evicts nothing of another's, a client is given the track it asked for.

### LAN discovery and peer approval: `internal/fed/discovery.go`, `internal/store/fed_peers.go`
State: peer rows (pending, accepted, quarantined), one per id and address.
Announcements, inbound connections and administrators write them with one SELECT and
one upsert, which no transaction ties together.
Correct when nobody is accepted whom no administrator entered and who never
presented the token, and no id is trusted at two addresses but for what two writers
do at once.

### Accounts: `internal/api/auth.go`, `adminusers.go`, `personalstream.go`, `oidc.go`, `internal/store/users.go`, `invites.go`, `email_verifications.go`, `oidc.go`
- *State*: users, invitations, verification links, outside identities, personal
  stream rows, the security mode and the signup toggle, the bootstrap token in memory.
- *Operations*: signup (first administrator or self-service), invitations, OpenID
  Connect callbacks, household profiles, deletion, settings, verification, the
  provisioning of a personal stream.
- *Hard*: handlers of several statements without a transaction around them, some of
  which undo what the earlier ones did; administrators who act on each other.
- *Correct when*: no account is left half made, the bootstrap link makes one
  administrator, one administrator remains, a new account inherits nothing.

### Sign-in: `internal/api/auth.go`, `internal/store/sessions.go`, `mfa.go`, `password_resets.go`, `internal/auth/totp.go`
- *State*: the password, sessions, reset links, sign-in tickets, the second factor
  with its secret and last accepted period, recovery codes.
- *Operations*: login, its second step, enrolment in two requests, disabling,
  regeneration of codes, reset of the password in three statements.
- *Hard*: a request keeps the factor it has read while others replace, enable or
  delete it; a reset meets a login that has verified the old password.
- *Correct when*: a reset leaves no session of an older password that was there, the
  enabled secret is one its owner has shown a code of, a code is accepted once, an
  enabled factor has recovery codes.

### Sonos casting: `internal/api/sonos.go`, `internal/sonos/`
State: what each speaker plays (in the speaker).  Casting races the deletion of
the stream.

### Library configuration and scan: `internal/scan/scanner.go`, `internal/store/library.go`, `library_config.go`, `internal/api/library_config.go`
- *State*: `local_library` rows, track rows with the stamp of their file, the scan
  setting, the running scan with what it has seen and read.
- *Operations*: the form and its save, the scan setting's save, the launch of a
  scan, and the scan: walk, read, store, prune.
- *Interacts with*: the file system; the queue, whose foreign key refuses deletions;
  the catalogs, which export what a scan stores.
- *Hard*: a scan works for minutes with folders, a setting and stamps that it read at
  its beginning; forms are filled from an earlier state; a folder that cannot be read
  looks like an empty one.
- *Correct when*: what is skipped has nothing new, what is there is not deleted, no
  library shows another folder's files, an undisturbed scan ends exact.

### Metadata enrichment: `internal/enrich`
A single-flight runner that fills empty columns from external services.

### Not stateful, or pure I/O
`internal/broadcast/source.go` (ffmpeg), `internal/external` (HTTP clients;
their retry loop and Last.fm's self-disable are in `Playback`),
`internal/recommend`, `browse.go`, `cover.go` (reads), `internal/config`,
`internal/email`, `internal/web`, migrations (run once, before anything else).

### How the parts interact
Handlers share the `Server` (its pipeline map, buses and mailboxes) and the
SQLite file; there is no lock above the database.  The playback loop calls the
jukebox and the scrobble gate; the pipeline teardown closes the hub and bus that
handlers block on; scans and catalog syncs delete tracks that queues refer to;
deleting a stream asks the speakers, stops the pipeline and drops the row, in
that order.

## 2. Plan

| # | module | models | state |
|---|--------|--------|-------|
| 1 | `LossyFeed`, `FanOut`; proofs in `PipelineProofs` | hub and bus, and what they promise | done |
| 2 | `Pipeline`, `PipelineProofs` | pipeline life cycle, stream rows, shutdown | done |
| 3 | `Jukebox`, `JukeboxProofs` | queue, pops, station, SQLite snapshots | done |
| 4 | `Playback`, `PlaybackProofs` | playback loop, settle, the durable scrobble queue, drainer, Last.fm's key, crashes | done |
| 5 | `Approval`, `Sessions`, `SessionsProofs` | peer table; handshake, registries, mutual dialling, reconnects | done |
| 6 | `PeerAudio`, `PeerAudioProofs` | WebRTC: dials, SID slots, connection cache, audio channel | done |
| 7 | `Accounts`, `AccountsProofs` | every way an account is made, used and deleted | done |
| 8 | `SignIn`, `SignInProofs` | one account's password, sessions, second factor | done |
| 9 | `Catalog`, `CatalogProofs` | groups, seeding, push, pull, apply, prune, relay scoping | done |
| 10 | `Library`; proofs in `JukeboxProofs` | configuration form, scan setting, scan against files and queues | done |
| 11 | `Casting`, `Enrich` | speakers and the stream cap; single-flight enrichment | not planned: see 7 |

Every invariant and every action property of a passing run is a theorem (section 5); what
liveness asks for beyond them stays with TLC.

## 3. The modules and the code

### `LossyFeed` and `FanOut`
`LossyFeed` is the promise: items are numbered, a client that is in receives
newer items in order with possible gaps, never one published before it joined,
and is let go once the feed shuts.  `FanOut` is the code of hub and bus: one
channel per handler, the mutex' critical sections as actions.  `Listen`,
`Cancel` and `CloseOwn` (the cancel func in its two halves: map removal under
the mutex, channel close after it), `Close`, `Broadcast`; and the handler:
`LookAgain` is the `Closed()` test after registering, `Read` the receive,
`EndOfFeed` the closed channel, `Disconnect` the client.  `panicked` records
what Go would panic on.  `FeedSpec` maps `last` to the feed's position, and a
handler between `Listen` and its last step to a client that is in.

### `Pipeline`
One action per critical section of `pipesMu`, per fan-out operation or per store
call.  `pipes` is the map; `row` the stream rows; a pipeline has an identity, so
that a torn-down one and its successor under the same id differ.  Handlers walk
`Lookup`, `ReadRow`, `Ensure`, `Spawn`, `Register`, `Check`, and retry as
`attach` does; `StopStep` is `stopPipeline` in its five steps, run by a delete
or by a reaper; `DropRow` is what a delete does last, and may leave the row: then the
pipeline is gone, the deleter too, and the stream is up for the next listener.  `Tick`,
`Expire`, `ReaperExit` are `reapWhenIdle`, `RunLoop` is `Hub.Run`; `Shutdown` is
main's.  A fan-out is here its closed flag and its audience, which is what `FanOut`
shows one can rely on.  `taker` is a history variable: the stopper that took a pipeline
out of the map.

### `Jukebox`
One stream's queue.  `order[t]` is the `play_order` of the row of `t`; `history`
is the window that queries with `LIMIT` can see; `stale` is the set of
goroutines whose open read snapshot is older than the last commit.  The database
is opened without `_txlock`, so `popWith`'s transaction is deferred: its SELECT
(`Select`) takes a snapshot, its DELETE (`Commit`) asks for the write lock and is
refused when anything was committed since.  From a granted DELETE to COMMIT no
other writer can run, so the rest is one action.  Statements outside a
transaction are actions of their own: `InQueue`, `RecentlyPlayed`, `ReadMax`,
`Insert` are `Request`; `Refill`, `Count`, `Discover` and then one `Request` per
candidate are `refill`.  `Ask` is the HTTP request for a track, an album or an
artist.  `Forget` is a scan or a peer's sync deleting a track that no queue
refers to.  `PopFails`, `RefillFails` and `RequestFails` are the errors of these
statements, each with the branch the code takes for it (`Next` and `refill` pass over
them), and `Crash` is the end of the process between any two statements, a pop's commit
and the refill after it included.  `tended` is a history variable: whether, since the
station was started, nothing has left the queue but by a pop, and nothing has failed
while the queue was empty.  Two refinements of the data: `played_at` has a resolution of one
second and ties are read newest first by the index, so `history` is a sequence;
the fixed numbers of the station handler (threshold 3, batch 10) are constants.

### `Playback`
A play is the n-th track that house starts.  `NextTrack`, `GetTrack`, `Settle`,
`Enqueue`, `Start`, `PlayEnds` are the loop: `streamBuilder`'s `next` between two
returns of `Hub.play`, with its exits (nothing popped, a track that vanished).
`np` stands both for the now-playing holder and for the flag `playing`, which the
code sets and clears together; elapsed time is the flag `ripe`, which turns true
while the clock runs (`Ripen`).  `NextTrack` may find nothing although something
is queued, which finding 2 shows to happen.  `rows` is `scrobble_queue` and
survives a `Restart`; everything else of the loop and of the drainer does not.
`Cycle`, `Pick`, `Resolve`, `Delete` are `DrainOnce` and `drainService`, one
action per statement; `Accepted`, `AnswerLost`, `Unavailable`, `Refused` are the
outcomes of an attempt of `doRequest`, `TryAgain` its loop, `Disabled` the branch
for `ErrServiceDisabled`.  `stored` is the session key in `service_auth`, `held`
the one the process was started with, `live` the client's `authorized`; `Reauth`
is the separate process `exit66jukebox lastfm-auth`.  `got`, `owed`, `ripened`
and `lost` are history variables that only the properties read.

### `Approval` and `Sessions`
`Approval` is the table `federation_peer` and its writers.  A row belongs to an id
and an address; there are two addresses, the listen address, which announcements
and administrators give, and the remote address of an inbound connection, which is
never the listen address.  `SaveFederationPeer` is two statements: `Look` is the SELECT
for a duplicate, which finds none when it fails, and `Upsert` writes what was made of
its answer; `save[n][w]` is what writer `w` has in hand between the two, the writers being
the listener for announcements, an administrator and the goroutines of inbound
connections.  `Marked` and `Approved` are the two updates.  `vouched` and `unsure` are
history variables: who was entered by hand or presented the token, and which rows were
written by an upsert whose SELECT had failed or was overtaken by another save of the id.

`Sessions` adds the connections.  A connection `c` has two ends; `at[c][side]` is
where the goroutine of that end stands, `up[c]` which ends are open as far as their
own nodes know.  The dialler walks `Connect`, `ReadAck` or `DialFails`, `Put`
(which closes what it displaces); the acceptor walks `Handshake` (refuse or ack),
`Register` (`putIfFree`), at a peer `CheckPeer` and then either `MarkPeer` or, if it is
not accepted, `LookPeer` and `SavePeer`; both ends finish with `Leave` and `Remove` (by
identity).  `Edit` and `EditSaved` are announcements and administrators.  `Notice` is a keep-alive or an EOF, `Cut` a broken
connection that one end sees first, `Restart` a process that stops and starts: its
ends are gone, its registry is empty, its table is not.  A peer dials at its tick
whoever is accepted and not registered (`DialPeer`), also while an earlier dial is
under way; a member has one dial at a time (`DialHub`).  The hub is registered
under a fixed id on the member's side and checks nobody's acceptance.  `Conns` are
slots, used again once both goroutines have returned.

### `PeerAudio`
One instance that fetches tracks from one peer.  A request walks `Dial` (which takes
up the cached connection, or claims a SID and creates a PeerConnection), `SendOffer`,
`Return` or `GiveUp`, then `Write`, `ReadHead`, `ReadBody` of `serveAudioRequest`.  A
connection is named by the request that dialled it.  `Opened`, `Put`, `Store` are the
three steps of the `OnOpen` callback, which runs beside the dial; `Release` is the
closure of that name, with its eviction by identity.  At the peer, a negotiation `n`
is `handleOffer`: `ReadOffer` and `Claim` on the reader goroutine, `Answer` and
`AnswerFails` (the send that reports failure, perhaps after the answer came and the
channel opened: `failing` says which sends will), `Watchdog`, `Accept`, `Serve`,
`PeerLost`, and `Teardown`, which they share.  `mail` is a set: signals are separate
requests and keep no order, an offer may be read twice.  A body is one item of the
channel, however many reads it takes; what matters is whose it is.  `copied` and
`shared` are history variables.  What ICE does is left open: a channel may open
whenever both ends hold each other's descriptions, and need not.

### `Accounts`
The tables `user`, `invite`, `oidc_identity`, personal streams and verification links,
the two settings, and `req[r]`: where request `r` is among the statements of its
handler, with the local variables it goes on with.  Every statement or transaction is
an action; what a handler does first (the gate, the first read) is the action in which
it arrives.  `signup` is `SignupCount`, `SignupToken`, `SignupFirst`, `Claim` or
`SignupGate`, `SignupSelf`, `Mail`, `Unmail`; `inviteAccept` is `AcceptRead`, `Redeem`,
`Mark`; `oidcResolveUser` is `OIDCLookup` to `Unlink`; profiles are inserted with the
empty address and get theirs in a second statement; `deleteUser` is `DeleteStart` (the
gate, `requireAdmin`, which looks the session up), `DeleteGuard` (the check of one's own
id, which looks it up again and is skipped if there is none any more) and `Delete`.  `Remove` is `DeleteUser`'s
transaction with its foreign keys: an administrator who has issued an invitation cannot
be deleted.  A `Restart` ends every request where it is and arms the bootstrap token
again if the table is empty; `cut` names the accounts whose creation it cut short.
Everybody who exists may send a request: that they could sign in is `SignIn`'s part.

### `SignIn`
One account, as all its tables are keyed by it.  A password is its number; a session
and a ticket carry the password they were obtained with.  `factor` is the row of
`mfa_factor`; a code is the period it is of.  `Login`, `LoginFactor`, then `Session` or
`Ticket`; `Complete`, `Challenge`, then `AcceptCode`, `AcceptRecovery` or `Reject`;
`Manage` is the same for disabling and regenerating.  Enrolment is `BeginRead`, `Begin`
and `ConfirmRead`, `Codes`, `Enable`, the last writing the row as it was read.  A reset
is `Reset`, `Password`, `Purge`.  A session that was on its way when the password
changed is `late`; `crossed`, `enabled2`, `cut`, `proven`, `spent` and `replayed` are
history variables.

### `Catalog`
`round[s]` is a round of sync loop `s[1]`: of its present session if `s[2]` is `"new"`,
what is left of an earlier one's if `"old"`.  A push is `Start`, `Receive`, `Scope`,
apply; a pull is `Merged`, `Scope` for every peer, apply; a direct pull is `Scope`,
`Export`, apply.  Apply is `ApplyEmpty`, or `Upsert` row by row and `Prune` library by
library, each a statement.  `FederationCatalogVisible` is two queries; the one change
that can come between them and matters is `DeleteBetween`.  `Cut`, `Abort`, `Deny` and
`Crash` are what goes wrong; the hub's catalogs (`cache`) do not survive a crash.
`Boot` is the seeding of the default group, statement by statement; `SeedUnread` is a
flag that cannot be read, which counts as not set, and `SeedFails` any other failing
statement, which is logged and leaves the instance up with what there is.  `Scan`,
`Request` and `Play` stand for the modules `Library` and `Jukebox`.  `shown`, `lacking`,
`absent`, `seeds` and `slips` are history variables: `absent[s]` is what the answer of
round `s` had a reason to leave out, `lacking` the same of what a member pushed to the
hub, kept until a pull reads it.

### `Library`
`save[a]` is a request to save the configuration: `Open` fills the form, `Submit` is
`SaveLibraryConfiguration`'s transaction (`Transaction`, line by line, all or nothing) on a
form with at most one edit, then `Previous` and `Setting` (the setting read before its
transaction, and written), then `Gather` and `Launch` of a scan.  `scan` is the one scan: `Load`, `Folder`
(`EnsureLocalLibrary`, which creates a library that has been removed meanwhile),
`Visit` per file, `Unreadable`, `Walked`, `ReadTags` in any order beside the walk,
`Upsert`, `Prune`, `ScanDone`.  A row is the stamp that was stored, the version its tags
were read from and the setting it was grouped by.  `Rewrite`, `Lose`, `Restore` change
files, `Enqueue` and `Play` the queue.  `home` is a history variable: the folders that each
library has had.

## 4. The runs

| run | instance | what it shows |
|-----|----------|---------------|
| `fanout` | 3 clients, buffers of 2, 3 chunks | `NoPanic`, `InOrder`; `FeedSpec`: the protocol implements `LossyFeed`, liveness included |
| `pipeline` | 1 stream beside house, 2 pipelines, an audio and an SSE handler, a delete that may fail, a signal (2.3 million states) | `Accounted`, `CleanExit`, `StaleReaper` |
| `pipeline_delete` | 1 audio handler with 2 attempts, a delete | liveness: `ReleasedOnTeardown`, `IdleReaped` |
| `jukebox` | 3 tracks (2 in the genre), window 1, 2 goroutines, failing statements and crashes without limit (2.09 million states) | `PopsTheFirst`, `StationNeverDry` |
| `playback` | 1 track that may vanish, 2 plays, 2 services, 1 fault, 1 re-authorization | `NothingDropped`, `DeliveredInOrder`, `DuplicatesExplained`, `NotForgotten`; liveness: `EventuallyDelivered` |
| `sessions` | 2 peers, one also a member of a hub, 2 connections at a time, 1 event: a cut, a restart, an announcement or a deed of an administrator (747,000 states) | `RegistryExact`, `AcceptedEarned`, `OneIdentity`; liveness: `HubHeals` |
| `peer_audio` | 2 requests, 2 negotiations, 1 repeated offer, 1 broken path | `AnswererAccounted`, `OwnAnswerAlone`, `OwnEviction`; liveness: `AnswererDrains` |
| `peer_audio_shared` | as above | violates `OwnAnswer`, see 6 |
| `accounts` | 2 requests at a time, 6 in all, 3 addresses, 1 identity, 3 modes, 3 accounts, 1 invitation, 1 fault (1.28 million states) | `NoHalfMade`, `OneBootstrap`, `AdminRemains`, `PersonalOwned`, `FreshStart` |
| `sign_in` | 2 requests at a time, 7 in all, 2 tickets, 2 secrets, 2 sets of codes, 1 reset, codes of 3 periods, 1 crash (1.07 million states) | `ResetEndsSessions`, `ConfirmedSecret`, `NoReplay`, `EnabledHasCodes` |
| `catalog` | a hub, 2 members, one also a direct peer of the other, 2 tracks in 2 libraries, 2 rounds at a time, 1 change, 1 fault (427,000 states) | `SeededOnce`, `StableRows`, `NoLeak`; liveness: `Converges` |
| `library` | 2 folders side by side with a file each, 2 administrators, 2 saves, 2 versions, 1 event (1.1 million states) | `SkipSound`, `NoStrangers`, `KeepsPresent`, `CleanScan` |

The properties are stated in the modules, each with the code it is about; every
one of them is broken by a plausible mutation of the code (`mutants` in
`PROJECT.json`, operators named "Mutant of" in the modules).

### Bounds, and why they are enough
- *fanout*: three clients let a close meet one registered client, one inside its
  cancel func and one that comes late; three chunks overflow a buffer of two.
- *pipeline*: `Pipes` bounds how many pipelines are ever built, two being the
  least that gives a reaper a successor to hit; when they are used up `Ensure`
  takes the factory's "nothing" branch of the code.  `Requested` bounds what
  clients ask for; one attempt suffices for the safety run, and the second run
  has two, so that a retry happens.
- *jukebox*: two goroutines are enough to age a snapshot, to compute the same
  `play_order`, and to pop while another refills.  A genre with one track more
  than the window is the case in which a station barely survives.  `MaxOrder`
  bounds `ReadMax` only.  `Faulty` is off in `MCJukeboxBusy.cfg`, whose claim is to be
  refuted without a failure.
- *playback*: two plays make an order and a batch of two; the track may vanish
  before, between or after them.  A fault is a crash, a failed statement or a
  lost answer, at every step where one can strike; with one of them the
  bound of `DuplicatesExplained` is met exactly.  `MaxTries` is 2 for the code's
  4: one failure that is retried and one that is not.
- *sessions*: two connections at a time are the least for two peers to dial each
  other, for two dials under one id, and for a member to reconnect before the hub
  has let go of its old session; slots are used again without limit.  One event can
  strike at every step: with it an announcement or an entry by hand meets the two
  statements of an inbound connection.  `Learning` says which peers may start with an
  empty table and are announced to and administered; one is enough, as tables do not
  depend on each other.  `MCSessionsApproval.cfg` has two events.  The proofs need none of
  these bounds.
- *peer_audio*: two requests are the least that share or displace a connection, or
  whose dials overlap; two negotiations answer both, or one and its repeated offer
  after the end of the first.  A path can break at every moment.
- *accounts*: two requests at a time are what every race here needs (two redemptions,
  two callbacks, two administrators, a deletion beside a request of its account);
  six in all allow an administrator, an invitation, a second account and two that
  race.  Three accounts let one be deleted and another come after it.
- *sign_in*: two requests at a time overlap two enrolments, or one with the end of a
  factor, or a login with a reset; three periods give a code of before, now and after.
- *catalog*: two tracks in two libraries make an answer that is applied in parts and a
  prune that is refused for one of them; two rounds are the least that overlap; one
  change and one fault can strike at every step.  `MCCatalogSlips.cfg` has three faults
  and two changes and no rounds: enough for a start that fails, a group deleted and made
  again, and a start after that.  `MaxBusy` is the only bound that
  `Fairness` has to make up for.
- *library*: two folders are the least whose libraries can be confused; two saves are
  one that fills its form before the other writes; an event is a change of a file, a
  queued track, a failed read or write, or a restart, and can come at every step.
- Symmetry is used for safety and action properties, never in a run with a
  liveness property, and in `library` only among administrators.

### Fairness
A handler's own steps, the stop steps, the reaper's ticks and the hub's loop are
weakly fair: they are goroutines that the scheduler runs, and a ticker that
fires.  This assumes that a write to a client returns, as the server's handlers
do.  Clients (`Arrive`, `Leave`, `Listen`, `Disconnect`), administrators,
broadcasts and signals owe nothing.  In `Playback` the drainer's goroutine and
its timer are weakly fair, an HTTP request ends (the client has a timeout of 30
seconds), and strong fairness of `Accepted` for ListenBrainz says that a service
asked again and again accepts in the end.  That last one is an assumption about
the service: the code retries a batch for ever, so a batch that ListenBrainz will
never accept holds up those behind it, and `EventuallyDelivered` claims nothing
then.  Last.fm is assumed to do nothing at all, which is the point.  In `Sessions`
the goroutines of each connection are weakly fair, and so is the notice of a dead
connection (yamux and TCP keep-alives).  `runMember` dials again and again, which
is strong fairness of `DialHub` only because the slots of `Conns` are a bound of
the model: a dial must not be denied for ever a slot that the code would not need.
Peers' ticks, cuts, restarts and administrators owe nothing.  In `PeerAudio` timers
fire (`GiveUp`, `Watchdog`), a send returns (the request has a timeout), and each end
notices in the end that a connection is gone (`Lost`, `PeerLost`: DTLS, SCTP and ICE
tell); signals, channels and clients owe nothing.  `Jukebox`,
`Accounts`, `SignIn` and `Library` have no fairness: their properties are safety, and
nothing in them promises an end that depends on anything but the requests themselves.
In `Catalog` each start and each round comes to its end and each loop has another tick
(`Fairness`): HTTP requests have a timeout and the ticker fires every 30 seconds.  It is
stated as what recurs and not as weak fairness of the loops because `MaxBusy`, a bound
of the model, makes a loop wait for others.  `Converges` assumes further that queues
do not keep a row for ever.

`CHECK_DEADLOCK FALSE` is set for `fanout`, where with all handlers gone and the
feed closed nothing is left to do, for `sessions`, where with the bound on
events used up every session may stand for good, for `peer_audio` and
`peer_audio_shared`, where each request is made once, and for `accounts`, `sign_in`,
`catalog` and `library`, where the bounds end what arrives.

## 5. The proofs

- `PipelineProofs`, for any sets of streams, handlers, deletes and pipelines
  (finite, as they are counted): `Safe`.  The strengthening of the run's
  properties: `Exclusive` (a pipeline out of the map is held by one stopper),
  `Pristine`, `Spawning` (one handler per pipeline being started), `Reapers`,
  `Orphaned` (a pipeline out of the map has a `taker`, and if that is another than its own
  reaper, a delete struck the stream; this holds whether or not the delete could drop the
  row, and is what `StaleReaper` follows from), and `Counted`, the WaitGroup arithmetic, which is
  why cardinalities are needed.
- The same module has the proofs about `FanOut`, for any set of clients, any positive
  capacity, any number of chunks: `FanOutInv` (types, `NoPanic`, `Ownership`, `InOrder`,
  and `Fresh`: a client that has not listened has an empty buffer) is inductive.
  `Ownership` carries `NoPanic`: a channel is open exactly while registered or in the
  hands of the one cancel func that took it out.  `ImplementsFeed` shows that each step
  maps to a step or a stutter of `LossyFeed`.
- `JukeboxProofs`, for any library, genre, window, and any set of goroutines:
  `TypeOK /\ FreshSnapshot` is inductive and implies the action property
  `PopsTheFirst`.  The argument: whoever changes the queue marks every other open
  snapshot stale (`Written`), so a snapshot that is not stale shows the queue.
  `NeverDry` (`StationNeverDry`) rests on `Tended`: while the station has something left
  to play, an empty queue has a goroutine that is about to fill it.  Whoever takes the
  last track goes on to refill; a candidate exists, as at most `Window` tracks are in the
  history and the genre has more; and a refill drops a candidate only for being queued
  or played, so the queue is not empty, or somebody else took its last track and tends
  it now.  A failure or a crash ends the tending of an empty queue only by ending `tended`
  with it, and of a queue that is not empty it ends nothing.  `TablesAgree` adds the foreign key: what is queued is in the library.
- The same module has the proofs about `Library`, for any folders, files and bounds:
  `LibraryInv`.  Each conjunct carries a property.  `Tagged` (a stamp is never newer than
  the tags stored with it, nor these than the file, in the rows and in what the scan has at
  hand) carries `SkipSound`; `Housed` (no row belongs to a library that does not exist yet,
  and each file lies below a folder its library has had) carries `NoStrangers`; `Walks` (of a folder walked to its end every file was seen, or missing at
  some time) carries `KeepsPresent`; `Undisturbed` (what a scan that nothing disturbs has
  seen, has yet to store and has stored) and `Regular` (by which setting the stored tracks
  are grouped) carry `CleanScan`.  The form and the transaction run through a list of lines,
  so their definitions are recursive functions, and their types need induction.  The
  induction theorem of the standard modules takes an operator; `Induct` says the same of a set of numbers, from a least counterexample
  (`Least`), and `Recursion` that a function so defined is what its equation says, which
  is enough for `FormTyped` and `TransactionReached`.
- `PlaybackProofs`, for any library, batch size, number of attempts, plays and
  faults: `IInv`.  Beside the properties it has `LoopInv` (where the current play
  stands with its rows, at each point of the loop), `QueueInv` (a service's rows
  are ordered by id as by play, and nothing was received that has no row ever),
  `DrainInv` (what the drainer holds is a prefix of the queue, and what it deletes
  was received; this is what rules out overtaking) and `UnsentInv` (a row that may
  be sent again was received at most once per fault).

- `SessionsProofs`, for any sets of peers, members and connections and any number of
  faults and changes: `IInv`, in two parts.  The net: types, `RegistryExact` and
  `Shape` (who connects to whom, and which goroutine is at which end; without it an
  end's side would not tell its node).  Each step is one of five kinds (a new
  connection, a move, a close, a registration, an end), each kind a lemma.  The
  table: `Earned` (an authenticated flag, too, has its cause, as approval rests on it, and
  so has a row that is still to be saved), `Presented` (the peer of a connection that is
  past `acceptsPeer` presented the token), and `OneIdentity`, which rests on `SureOnes`:
  what a SELECT has not found is still not there when its upsert comes, unless another
  save of the id came in between, which makes the upsert an unsure one.  `IncumbentStays` and `QuietAgree` follow from
  `RegistryExact`.

- `PeerAudioProofs`, for any sets of requests and negotiations: `IInv`.  With types,
  `AnswererAccounted` is inductive by itself: a SID names at most one negotiation, so
  ending one frees no other's.  `OwnAnswerAlone` needs `OneUser` (a connection not
  shared has one user at most), `Channels` (what such a channel holds for each place
  its user can be at, and that it is empty when nobody reads and the connection is
  up), `FarEnd` (who serves a channel is its far end) and `Copies`.  `OwnEviction`
  follows from the types: only `Put` and a release by identity write the cache while a
  connection is open.

- `AccountsProofs`, for any sets of requests, addresses, identities and modes and any
  number of accounts, invitations and crashes: `IInv`.  Beside the tables' types (no
  row bears an id that has not been given out, which gives `FreshStart`) it says what
  a request remembers (`Holding`): the account it acts for or has made is still of the
  kind and the rank it was, or gone.  An invitation's author, if there, is an
  administrator (`Authors`).  With these `NoHalfMade` is inductive: each step that
  takes a request from its account either completes the account, removes it, or is a
  crash.  `AdminRemains` rests on `Holding`: who deletes is another than who is deleted,
  and was an administrator, so if still there, is one that remains; or the guard found no
  session, and the request is nobody's.
- `SignInProofs`, for any sets of requests and tickets and any number of secrets, sets
  of codes, resets and crashes: `IInv`.  `Kept` says what the factor a request has read
  tells of the stored one; `Spends` that a code accepted before is not newer than the
  last accepted period, unless the secret was enabled twice; `Apart` that nobody is
  deleting codes while somebody enrols, unless the two have `crossed`.

- `CatalogProofs`, for any members, groups, tracks, loops and bounds: `IInv`.  `Seeding`
  carries `SeededOnce`: a node has seeded at most once more than statements of its seeding
  have failed, and one that has seeded and is about to seed again, or is up without the
  mark, owes that to such a failure; a crash alone leaves a group, which the next start
  finds.  `StableRows` and `NoLeak` rest on `Rounds`: at each point of a round whoever is
  in its answer with rows is a peer its viewer was shown, and every track that the answer
  leaves out, or owner that it names with nothing, is in `absent`; so whatever a prune
  takes is there, and no row is written of a peer that this round did not see its viewer
  entitled to.  `Pushed` says the same, with `lacking`, of the hub's catalogs, which a pull
  reads long after the push.

Assumptions are the named `ASSUME`s of the modules, which TLC evaluates too.  Those about
`None` say no more than that it is none of the values it stands beside.

*Model-checked only*: liveness (the fair half of `FeedSpec`,
`ReleasedOnTeardown`, `IdleReaped`, `EventuallyDelivered`, `HubHeals`,
`AnswererDrains`, `Converges`), which is out of the prover's reach.  What is
proved and no longer in a run's list: the type invariants, `RegisteredAlive`,
`FreshSnapshot`, `QuietAgree`, `IncumbentStays`, and the inductive invariants.

## 6. Findings

Where the code does something else than a comment or a test of it says, a configuration
has TLC produce the steps.  Number 7 is a run; for the others start
`tlc -config X.cfg M` with the configuration named.

1. `internal/api/pipeline.go:85` says that the row may be read outside the lock
   because "the double-check below makes the race harmless".  The double check
   is of the map.  A handler that reads the row, is overtaken by a delete that
   stops the pipeline and drops the row, then builds a pipeline for a stream
   that no longer exists.  It lives as long as somebody listens to it
   (`MCPipelineOrphan.cfg` refutes
   `NoPipelineForDeleted`).  All invariants still hold: it is idle-reaped.
2. `internal/jukebox/jukebox.go:99` says "ok=false if the queue is empty".
   `Next` also returns false when the DELETE of its transaction is refused
   because another connection committed after its SELECT (`MCJukeboxBusy.cfg` refutes
   `FalseMeansEmpty`).  The
   playback loop then treats the stream as idle: it settles the current track,
   clears now-playing and tells the clients, and plays the queue a moment later.
3. `main.go:440` says "the client clears its service_auth row, reverting cleanly to
   pending-auth".  The row is deleted by the service's name, whatever key it
   holds (`MCPlaybackKey.cfg` refutes `ClearsItsOwn`): a user who revokes and re-authorizes while the server
   runs on the old key has the new key deleted when the server next meets error 9,
   and has to authorize once more after the restart.
4. `internal/store/fed_peers_test.go:5`, `TestAcceptedPeersPersistManualConfiguration`,
   says that accepted peers persist as configured by hand.  The upsert in
   `SaveFederationPeer` overwrites the status and the flags of a known row, so the
   next LAN announcement of an accepted peer at that address (one every 30 seconds)
   makes it pending and unauthenticated again (`MCSessionsApproval.cfg` refutes
   `AcceptedPersists`): it is not dialled any
   more and its connections are closed.  If a connection of that peer was written
   down meanwhile, entering it again by hand quarantines it, as its id is then known
   at a second address.

5. `internal/store/fed_groups.go:187` says of `SeedDefaultFederationGroup` that the
   peers already accepted join the group it creates.  A statement that fails, or a crash,
   after the group is created and before the last peer has joined leaves a group; the next start finds that there are
   groups and sets the flag (`MCCatalogSeed.cfg` refutes `SeedComplete`): accepted peers
   no longer see each other until somebody adds them.
6. `internal/store/library_config_test.go`,
   `TestLibraryScanSettingsChangeForcesLocalRescan`, says that a change of the scan
   setting forces the files to be read again.  A scan at work when the setting changes
   stores its tracks after the reset of the stamps, grouped by the old setting and with
   stamps that are current, and no later scan reads them (`MCLibraryRegroup.cfg` refutes
   `Regrouped`; two saves at once do the same, as each reads the old setting before its
   transaction).
7. `internal/fed/webrtc_audio.go:119` says that "a single request occupies the channel".
   `serveWebRTC` runs once per HTTP request, `Dial` hands every one of them the cached
   connection, and nothing serializes them: of two requests under way at once one
   reads the other's response frame and bytes, and a client gets another track
   (`peer_audio_shared`).  A client that goes away in mid-answer has the same effect on
   the next request.  `OwnAnswerAlone` says that this is all there is to it.
8. `internal/store/fed_peers_test.go`, `TestDuplicatePeerIDsAreQuarantined`, says that a
   peer id that shows up at a second address is quarantined.  `SaveFederationPeer` looks
   for a duplicate in one statement and writes in another: two saves of one id at two
   addresses (an announcement and an inbound connection, say) that both look before either
   writes are both trusted, and so is one whose SELECT fails, as an error counts as no
   duplicate (`fed_peers.go:156`).  `MCSessionsRace.cfg` refutes `OneTrusted`;
   `OneIdentity` says that there is no other way.
9. `internal/api/adminusers.go:378` says of `deleteUser`: "An admin can't delete themselves
   (avoids locking out the last admin by accident)".  The handler looks the session up a
   second time for this; if it is gone by then, or the read fails, the check is skipped
   and the last administrator deletes himself.  Two administrators who delete each other
   at once need not even that.  `MCAccountsSelf.cfg` refutes `AdminAlways`; `AdminRemains`
   says that there is no third way.
10. `internal/store/fed_groups.go:190` says of `SeedDefaultFederationGroup`: "It runs at most
   once".  An error is only logged and the instance starts (`main.go:373`): after a
   statement that failed between the group's creation and the flag's, an administrator
   may delete the group, and the next start makes it again.  `MCCatalogSlips.cfg` refutes
   `RunsOnce`; `SeededOnce` says that it takes a failed statement, a crash does not do it.

Not counted as findings, as nothing in the repository promises otherwise: a
listener that registers between the reaper's count and its teardown is cut off
and has to reconnect; two concurrent requests may get the same `play_order`; a
track popped between a request's history check and its insert is queued again; two
peers that dial each other at the same tick can close both sessions, each evicting
on its dialling side the one it has just accepted, and do so again at the next tick;
a peer that was only announced cannot become approvable, since its own connection
is written down at another address and quarantined; of two dials to one peer that
overlap, `put` (`internal/fed/webrtc.go:663`) replaces the connection of the first,
which stays open until its far end goes, as only `get` closes connections and it
looks at the cache; a delete of a stream whose last statement fails has stopped its
pipeline all the same, and a reaper that was on its way to it may then stop the one that
the next listener builds; a pop whose refill a crash or a failing statement cuts off while
the queue is empty leaves a station that plays nothing until somebody requests a track or
starts it again.

Of accounts and sign-in: an enrolment that read before another enabled the factor
replaces it and so switches it off; sign-in tickets of the old password survive a reset
(for five minutes at most), and a crash between its UPDATE and its DELETE leaves the
sessions; the last accepted period is compared without the secret it belongs to; an
administrator may end the factor while administrators are required to have one, and
has to ask another to lift the requirement; an administrator who has issued an
invitation cannot be deleted; a profile whose creation a crash has cut keeps the empty
address, and no other profile can be made until it is deleted.

Of the catalogs: the hub names its own catalog only while it is not empty, so the rows
of the last track it shared stay with its members; where hub and peer judge differently
about the same rows they come and go with every round; a query that fails denies, and
so removes rows, for one round; the first error in `PullAndApply` leaves the other
peers of that answer for the next round; a queued row keeps all rows that its statement
would have deleted; what is left of a round whose session has ended goes on beside the
next session's round and prunes by its own, older answer, so that it may delete a row which
the newer round has just written: the track is back after the next round, under another id
(the comment at `internal/fed/sync.go:16` is about one answer, and `StableRows` about the
answer that deletes).

Of the library: a scan in flight creates a library again that was removed meanwhile, and so
does a form filled before; rows of removed libraries stay, unseen; a queued row
keeps the prune of its library from deleting anything; a stamp has the resolution of
one second and the model that of a version, so that two writes within a second and of
one size are one version here, as are a file and the one it is replaced with if that has
its size and its time put back (`cp -p`, `rsync -t`), and as is all that happens behind a
symbolic link, whose own stamp the walk takes (`internal/scan/scanner.go:92`).  A library
whose folder was changed in place gets no promise from `KeepsPresent`.

## 7. Not modelled

- *Sonos casting*: what a cast changes is in the speaker, and the stop of the speakers
  before a stream is deleted is advisory; with it the stream cap and renaming.
- *Metadata enrichment*: a single goroutine that fills empty columns from services whose
  answers are arbitrary.
- *Recommendations, browse, covers*: reads without state of their own.
- *Audio sources, configuration, e-mail, web UI, migrations*: processes, parsing and
  files; migrations run once, before anything else.
- *OIDC*: the exchange with the provider (state, nonce, PKCE, tokens); a callback arrives
  with an identity and a verified address.
- *Accounts*: the attempt throttle, the setting `admin_mfa_required`, listings.
- *Catalog*: the rows of `remote_library`, the list of who is online, the audio half of
  `relay.go`.
- *Library*: the contents of tags, albums and artists and the removal of orphans; nested
  folders, which the proofs cover and the run's instance does not have.
- *Limits of SQLite*: a prune binds one variable for each track that is kept
  (`internal/store/library.go:441`), and fails for a library of more tracks than a
  statement may have variables; `Converges` is about libraries below that.

Inside the modelled components: wording and formatting of responses, ICE candidates, the
linger of a connection that is closed, the mailboxes between a signal's arrival and its
reader, pacing of audio, contents of events.

Errors of the database are modelled where the code goes on after them to a state that nothing
else leads to: in pops, refills and requests, after the stop of a deleted stream's
pipeline, in the look for a duplicate peer, in the second look at a session, in the
seeding, in scrobbling, scanning and the catalogs.  Left out are those whose branch leaves
the rows as a modelled crash at that statement does (`internal/api/auth.go:377`, `:902`,
`:945`, `internal/api/oidc.go:323`, `internal/store/users.go:197`), those that answer a
request with an error before it has written anything, and those of writes of the peer
table whose result is ignored (an upsert that fails is one that was never made).
A read of the accepted peers that fails falls back on the addresses the process was
started with (`internal/fed/manager.go:213`): whoever is configured there is taken for
accepted.

Known races that no property is about: a listener that registers between the
reaper's count and its stop (`internal/api/pipeline.go:187`), a track popped between a
request's history check and its insert (`internal/jukebox/jukebox.go:85`), a cast that
meets the deletion of its stream (`internal/api/sonos.go:334`), and the cap on shared
streams, counted in a transaction that has not written yet
(`internal/store/streams.go:110`): two creations stay below it only because SQLite
refuses the insert of a transaction whose snapshot is old.
