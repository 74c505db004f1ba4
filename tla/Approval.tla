------------------------------ MODULE Approval ------------------------------
(***************************************************************************)
(* The table federation_peer (store/fed_peers.go): whom a direct peer      *)
(* dials and serves.  LAN announcements, inbound connections and           *)
(* administrators all write it, with one SELECT and one upsert that no     *)
(* transaction ties together.  A row is identified by the peer's id and an *)
(* address: its listen address, which is what announcements and            *)
(* administrators give, or the remote address of an inbound connection,    *)
(* which is named here like the connection.  Later users of a connection's *)
(* name would get rows of their own, quarantined ones: they change nothing *)
(* and are left out.                                                       *)
(***************************************************************************)
CONSTANTS
  Peers,  \* the instances of role peer
  Conns,  \* connections; one that is over at both ends is used again
  None

Addresses == {"listen"} \cup Conns
\* Who writes at an instance: the listener for announcements, an administrator (one at
\* a time: a bound), the goroutine of an inbound connection.
Writers == {"lan", "admin"} \cup Conns

ASSUME ApprovalAssumption ==
  {"listen", "lan", "admin", None} \cap Conns = {} /\ None \notin {"listen", "lan", "admin"}

VARIABLES
  rows,    \* rows[n][m][a]: what n's table says of m at address a
  save,    \* save[n][w]: the upsert that n's writer w has still to make, or None
  unsure,  \* unsure[n][m]: the addresses whose row for m was last written by an upsert
           \* that was not sure, a history variable
  vouched  \* vouched[n]: whom an administrator of n entered, or who presented the token

table == <<rows, save, unsure, vouched>>

Statuses == {"none", "pending", "accepted", "quarantined"}
Trusting == {"pending", "accepted"}
RowOf == [status : Statuses, auth : BOOLEAN]
\* sure: the SELECT was answered, and at no other address was the id saved since.
SaveOf == [of : Peers, to : Addresses, row : RowOf, sure : BOOLEAN]

ApprovalTypes ==
  /\ rows \in [Peers -> [Peers -> [Addresses -> RowOf]]]
  /\ save \in [Peers -> [Writers -> SaveOf \cup {None}]]
  /\ unsure \in [Peers -> [Peers -> SUBSET Addresses]]
  /\ vouched \in [Peers -> SUBSET Peers]

NoRow == [status |-> "none", auth |-> FALSE]
Quarantined == [status |-> "quarantined", auth |-> FALSE]

\* Mutant of Taken: only an accepted row elsewhere makes a duplicate.
TakenAccepted(r, a) == \E b \in Addresses \ {a} : r[b].status = "accepted"

\* hasDuplicateFederationPeerID
Taken(r, a) == \E b \in Addresses \ {a} : r[b].status # "none"

\* SaveFederationPeer begins: is m known under another address?  A query that fails
\* says no.
Look(n, w, m, a, row) ==
  /\ save[n][w] = None
  /\ \E found \in {Taken(rows[n][m], a), FALSE} :
       save' = [save EXCEPT ![n][w] =
                  [of |-> m, to |-> a, row |-> IF found THEN Quarantined ELSE row,
                   sure |-> found = Taken(rows[n][m], a)]]
  /\ UNCHANGED <<rows, unsure>>

\* ... and ends: the status and the flag of a known row are overwritten, and whoever
\* else is about to save this id at another address has looked too early.
Upsert(n, w) ==
  /\ save[n][w] # None
  /\ LET s == save[n][w]
         overtaken(v) == v # None /\ v.of = s.of /\ v.to # s.to /\ v.row # Quarantined
     IN /\ rows' = [rows EXCEPT ![n][s.of][s.to] = s.row]
        /\ unsure' = [unsure EXCEPT ![n][s.of] = IF s.sure THEN @ \ {s.to} ELSE @ \cup {s.to}]
        /\ save' = [save EXCEPT ![n] = [x \in Writers |->
                      CASE x = w -> None
                        [] x # w /\ overtaken(@[x]) -> [@[x] EXCEPT !.sure = FALSE]
                        [] OTHER -> @[x]]]
  /\ UNCHANGED vouched

\* MarkFederationPeerAuthenticated
Marked(r) == [a \in Addresses |-> IF r[a].status \in Trusting
                                  THEN [r[a] EXCEPT !.auth = TRUE] ELSE r[a]]

Approvable(row) == row.status = "pending" /\ row.auth

\* ApproveFederationPeer
Approved(r) == [a \in Addresses |-> IF Approvable(r[a])
                                    THEN [r[a] EXCEPT !.status = "accepted"] ELSE r[a]]

\* Mutant of Accepts: every peer that is not quarantined is listed.
AcceptsKnown(n, m) == \E a \in Addresses : rows[n][m][a].status \in Trusting

\* acceptsPeer
Accepts(n, m) == \E a \in Addresses : rows[n][m][a].status = "accepted"

\* Whether m's listen address may be in peerAddrs, which has one address for each id;
\* nobody listens on an inbound one.
Dialable(n, m) == rows[n][m]["listen"].status = "accepted"

\* An announcement of m reaches n.
Announce(n, m) ==
  /\ Look(n, "lan", m, "listen", [status |-> "pending", auth |-> FALSE])
  /\ UNCHANGED vouched

\* An administrator of n enters m.
AddPeer(n, m) ==
  /\ Look(n, "admin", m, "listen", [status |-> "accepted", auth |-> TRUE])
  /\ vouched' = [vouched EXCEPT ![n] = @ \cup {m}]

\* An inbound connection c of m is not accepted at n.
WriteDown(n, m, c) ==
  /\ Look(n, c, m, c, [status |-> "pending", auth |-> TRUE])
  /\ UNCHANGED vouched

\* An administrator of n approves m.
ApprovePeer(n, m) ==
  /\ \E a \in Addresses : Approvable(rows[n][m][a])
  /\ rows' = [rows EXCEPT ![n][m] = Approved(@)]
  /\ UNCHANGED <<save, unsure, vouched>>

-----------------------------------------------------------------------------
\* Whoever is accepted was entered by an administrator, or presented the token and
\* was then approved, in whatever order announcements and connections came
\* (fed_peers_test.go, TestDiscoveredPeerApprovalRequiresTokenAuth).
AcceptedEarned == \A n, m \in Peers : Accepts(n, m) => m \in vouched[n]

Trusted(n, m) == {a \in Addresses : rows[n][m][a].status \in Trusting}

\* An id that shows up under several addresses is trusted under one of them only
\* (TestDuplicatePeerIDsAreQuarantined), but for what two writers do at once, or a SELECT
\* that fails, which counts as "no duplicate" (fed_peers.go:156): a row is a second one
\* only if between its SELECT and its upsert the id was saved at another address.
OneIdentity ==
  \A n, m \in Peers : \A a, b \in Trusted(n, m) \ unsure[n][m] : a = b

\* What a test's name says of the table, and the code does not do: "accepted peers
\* persist" (fed_peers_test.go:5).  Nothing is meant to take an acceptance back.
AcceptedPersists == [][\A n, m \in Peers : Accepts(n, m) => Accepts(n, m)']_rows

\* "Duplicate peer ids are quarantined" (TestDuplicatePeerIDsAreQuarantined), however
\* their saves interleave.
OneTrusted == \A n, m \in Peers : \A a, b \in Trusted(n, m) : a = b

-----------------------------------------------------------------------------
(* For the inductive invariant of SessionsProofs.                           *)

\* A row says of nobody that he presented the token, or is accepted, without cause, and
\* nor will one that is about to be written.
Deserves(n, m, row) == row.auth \/ row.status = "accepted" => m \in vouched[n]

Earned ==
  \A n, m \in Peers :
    /\ \A a \in Addresses : Deserves(n, m, rows[n][m][a])
    /\ \A w \in Writers : save[n][w] # None /\ save[n][w].of = m => Deserves(n, m, save[n][w].row)

\* What a sure SELECT has not found is still not there.
SureOnes ==
  \A n \in Peers : \A w \in Writers :
    save[n][w] # None /\ save[n][w].sure /\ save[n][w].row.status \in Trusting =>
      ~Taken(rows[n][save[n][w].of], save[n][w].to)
=============================================================================
