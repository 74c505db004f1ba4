------------------------------ MODULE Accounts ------------------------------
(***************************************************************************)
(* The accounts of an instance (api/auth.go, api/adminusers.go,            *)
(* api/oidc.go, store/users.go, store/invites.go): how one comes to exist  *)
(* - first administrator, self-service signup, invitation, OpenID Connect, *)
(* household profile - what hangs on it, and how it goes.  A handler runs  *)
(* a few statements, each of them atomic, and other requests get in        *)
(* between; a crash may cut it after any of them.  How an account signs in *)
(* is SignIn's: here everybody who exists may send a request.              *)
(***************************************************************************)
EXTENDS Naturals, FiniteSets

CONSTANTS
  Requests,    \* the requests that can be in progress at once
  Emails,
  Subjects,    \* identities at the provider
  None,
  Modes,       \* the security modes an administrator chooses from
  MaxUsers, MaxInvites,  \* bounds on the accounts and invitations ever made
  MaxAsked,    \* bound on the requests that ever arrive
  MaxFaults    \* bound on crashes and on links that expire

ASSUME AccountsAssumption ==
  /\ None \notin Emails \cup Subjects
  /\ {"open_admin_locked", "full_login"} \subseteq Modes
  /\ MaxUsers \in Nat /\ MaxInvites \in Nat /\ MaxAsked \in Nat /\ MaxFaults \in Nat

VARIABLES
  user,      \* the rows of table user, by id
  lastId,    \* its AUTOINCREMENT counter
  invite,    \* the rows of table invite, by id
  lastInvite,
  identity,  \* oidc_identity: subject -> account
  stream,    \* the accounts whose personal stream has a row
  verif,     \* the accounts that have a live verification link
  mailed,    \* the accounts whose link has been sent, or shown to an administrator
  mode, signup,  \* the settings security_mode and signup_enabled
  boot,      \* the bootstrap token, in memory
  req,       \* req[r]: where request r is, and its local variables
  cut,       \* accounts whose creation a crash has cut short
  asked, faults

links == <<identity, stream, verif, mailed>>
settings == <<mode, signup>>
db == <<user, lastId, invite, lastInvite, links>>
rest == <<settings, boot, cut, faults>>
vars == <<db, rest, req, asked>>

Ids == Nat \ {0}
Kinds == {"first", "self", "invited", "oidc", "profile"}

\* A profile has no address for a moment, and then one of its own.
Addresses == Emails \cup {"", "own"}

UserRow == [kind : Kinds, email : Addresses, admin : BOOLEAN, verified : BOOLEAN, inv : Nat]
InviteRow == [email : Emails, admin : BOOLEAN, by : Ids,
              state : {"pending", "expired", "accepted"}]

\* The next step of a request.
Places == {"idle", "token", "gate", "first", "claim", "self", "mail", "unmail",
           "redeem", "mark", "invite", "revoke", "guard", "delete", "vet", "make", "link", "unlink",
           "profile", "address", "stream", "reverify", "settings", "toggle", "guest"}

\* me: who asks, or the account just made; on: the account or invitation it is about.
Request == [at : Places, me : Nat, on : Nat, email : Emails \cup {None},
            admin : BOOLEAN, as : Subjects \cup {None}]

Idle == [at |-> "idle", me |-> 0, on |-> 0, email |-> None, admin |-> FALSE, as |-> None]

\* f maps some of S into T.
Maps(f, S, T) == DOMAIN f \in SUBSET S /\ f \in [DOMAIN f -> T]

TypeOK ==
  /\ Maps(user, 1 .. lastId, UserRow) /\ lastId \in Nat
  /\ Maps(invite, 1 .. lastInvite, InviteRow) /\ lastInvite \in Nat
  /\ Maps(identity, Subjects, Ids)
  /\ stream \in SUBSET Ids /\ verif \in SUBSET Ids /\ mailed \in SUBSET Ids
  /\ mode \in Modes /\ signup \in BOOLEAN
  /\ boot \in {"off", "armed", "claimed"}
  /\ req \in [Requests -> Request]
  /\ cut \in SUBSET Ids /\ asked \in Nat /\ faults \in Nat

NoRows == [i \in {} |-> 0]

Init ==
  /\ user = NoRows /\ lastId = 0 /\ invite = NoRows /\ lastInvite = 0
  /\ identity = NoRows /\ stream = {} /\ verif = {} /\ mailed = {}
  /\ mode = "full_login" /\ signup = FALSE
  /\ boot = "armed" /\ req = [r \in Requests |-> Idle]
  /\ cut = {} /\ asked = 0 /\ faults = 0

-----------------------------------------------------------------------------
\* The statements of the store.

Users == DOMAIN user
Without(f, x) == [y \in DOMAIN f \ {x} |-> f[y]]

\* Mutant of NewId: a plain INTEGER PRIMARY KEY takes the id after the largest in use.
NewIdReused == CHOOSE n \in 1 .. MaxUsers + 1 : n - 1 \in Users \cup {0} /\ \A u \in Users : u < n

\* AUTOINCREMENT: an id is never given out twice.
NewId == lastId + 1

\* UNIQUE(email)
EmailFree(e) == \A u \in Users : user[u].email # e

\* INSERT INTO user
Insert(kind, e, admin, verified, inv) ==
  /\ lastId < MaxUsers
  /\ user' = [u \in Users \cup {NewId} |-> IF u = NewId
       THEN [kind |-> kind, email |-> e, admin |-> admin, verified |-> verified, inv |-> inv]
       ELSE user[u]]
  /\ lastId' = NewId

\* Mutant of Remove: the personal stream is left to a foreign key nobody declared.
RemoveKeepsStream(u) ==
  IF \E i \in DOMAIN invite : invite[i].by = u
  THEN UNCHANGED <<user, links, cut>>
  ELSE /\ user' = Without(user, u)
       /\ identity' = [s \in {t \in DOMAIN identity : identity[t] # u} |-> identity[s]]
       /\ stream' = stream
       /\ verif' = verif \ {u} /\ mailed' = mailed \ {u} /\ cut' = cut \ {u}

\* DeleteUser: one transaction, which the invitations the account has issued refuse
\* (invite.created_by); everything else that refers to the account goes with it.
Remove(u) ==
  IF \E i \in DOMAIN invite : invite[i].by = u
  THEN UNCHANGED <<user, links, cut>>
  ELSE /\ user' = Without(user, u)
       /\ identity' = [s \in {t \in DOMAIN identity : identity[t] # u} |-> identity[s]]
       /\ stream' = stream \ {u}
       /\ verif' = verif \ {u} /\ mailed' = mailed \ {u} /\ cut' = cut \ {u}

\* requireAdmin, as far as the account goes.
IsAdmin(u) == u \in Users /\ user[u].admin

At(r, p) == req[r].at = p
Step(r, next) == req' = [req EXCEPT ![r] = next]
Done(r) == Step(r, Idle)
To(r, p) == Step(r, [req[r] EXCEPT !.at = p])
Made(r, p) == Step(r, [req[r] EXCEPT !.at = p, !.me = NewId])

\* A request arrives.
Arrives(r) == At(r, "idle") /\ asked < MaxAsked /\ asked' = asked + 1

\* A request that has come to an end without writing.
Refused(r) == Done(r) /\ UNCHANGED <<user, lastId, links>>

-----------------------------------------------------------------------------
\* signup: CountUsers
SignupCount(r, e) ==
  /\ Arrives(r)
  /\ Step(r, [Idle EXCEPT !.at = IF Users = {} THEN "token" ELSE "gate", !.email = e])
  /\ UNCHANGED <<db, rest>>

\* bootstrapTokenStatus: the caller has the operator's link.
SignupToken(r) ==
  /\ At(r, "token")
  /\ IF boot = "armed" THEN To(r, "first") ELSE Done(r)
  /\ UNCHANGED <<db, rest, asked>>

\* The mode and the toggle, for everybody else.
SignupGate(r) ==
  /\ At(r, "gate")
  /\ IF mode = "full_login" /\ signup THEN To(r, "self") ELSE Done(r)
  /\ UNCHANGED <<db, rest, asked>>

\* Mutant of SignupFirst: an INSERT that trusts the earlier count.
SignupFirstCounted(r) ==
  /\ At(r, "first")
  /\ IF EmailFree(req[r].email)
     THEN Insert("first", req[r].email, TRUE, TRUE, 0) /\ Made(r, "claim") /\ UNCHANGED links
     ELSE Refused(r)
  /\ UNCHANGED <<invite, lastInvite, rest, asked>>

\* CreateFirstAdmin: INSERT ... WHERE NOT EXISTS.
SignupFirst(r) ==
  /\ At(r, "first")
  /\ IF Users = {}
     THEN Insert("first", req[r].email, TRUE, TRUE, 0) /\ Made(r, "claim") /\ UNCHANGED links
     ELSE Refused(r)
  /\ UNCHANGED <<invite, lastInvite, rest, asked>>

\* markBootstrapClaimed
Claim(r) ==
  /\ At(r, "claim")
  /\ boot' = "claimed" /\ Done(r)
  /\ UNCHANGED <<user, lastId, invite, lastInvite, links, settings, cut, faults, asked>>

\* CreateUnverifiedUserWithEmailVerification: the account and its link, one transaction.
SignupSelf(r) ==
  /\ At(r, "self")
  /\ IF EmailFree(req[r].email)
     THEN /\ Insert("self", req[r].email, FALSE, FALSE, 0) /\ Made(r, "mail")
          /\ verif' = verif \cup {NewId} /\ UNCHANGED <<identity, stream, mailed>>
     ELSE Refused(r)
  /\ UNCHANGED <<invite, lastInvite, rest, asked>>

\* The message goes out, or the account is to be taken back.
Mail(r) ==
  /\ At(r, "mail")
  /\ \/ mailed' = mailed \cup ({req[r].me} \cap Users) /\ Done(r)
     \/ To(r, "unmail") /\ UNCHANGED mailed
  /\ UNCHANGED <<user, lastId, invite, lastInvite, identity, stream, verif, rest, asked>>

Unmail(r) ==
  /\ At(r, "unmail")
  /\ Remove(req[r].me) /\ Done(r)
  /\ UNCHANGED <<lastId, invite, lastInvite, settings, boot, faults, asked>>

\* verifyEmail: ConsumeEmailVerification, one transaction.
Verify(u) ==
  /\ u \in verif \cap mailed
  /\ user' = [user EXCEPT ![u].verified = TRUE]
  /\ verif' = verif \ {u}
  /\ UNCHANGED <<lastId, invite, lastInvite, identity, stream, mailed, settings, boot, req,
                 cut, faults, asked>>

LinkExpires(u) ==
  /\ u \in verif /\ faults < MaxFaults
  /\ verif' = verif \ {u} /\ faults' = faults + 1
  /\ UNCHANGED <<user, lastId, invite, lastInvite, identity, stream, mailed, settings, boot,
                 req, cut, asked>>

\* createEmailVerification: an administrator asks for a new link for u.
ReverifyStart(r, me, u) ==
  /\ Arrives(r) /\ IsAdmin(me)
  /\ u \in Users /\ ~user[u].verified
  /\ Step(r, [Idle EXCEPT !.at = "reverify", !.on = u])
  /\ UNCHANGED <<db, rest>>

\* RegenerateEmailVerification: the old link dies, the new one goes into the answer.
Reverify(r) ==
  /\ At(r, "reverify")
  /\ verif' = verif \cup ({req[r].on} \cap Users)
  /\ mailed' = mailed \cup ({req[r].on} \cap Users)
  /\ Done(r)
  /\ UNCHANGED <<user, lastId, invite, lastInvite, identity, stream, rest, asked>>

-----------------------------------------------------------------------------
\* createInvite: the gate and currentUser, then the INSERT, which needs its author.
InviteStart(r, me, e, admin) ==
  /\ Arrives(r) /\ IsAdmin(me)
  /\ Step(r, [Idle EXCEPT !.at = "invite", !.me = me, !.email = e, !.admin = admin])
  /\ UNCHANGED <<db, rest>>

InviteInsert(r) ==
  /\ At(r, "invite") /\ Done(r)
  /\ IF req[r].me \in Users
     THEN /\ lastInvite < MaxInvites /\ lastInvite' = lastInvite + 1
          /\ invite' = [i \in DOMAIN invite \cup {lastInvite + 1} |->
               IF i = lastInvite + 1
               THEN [email |-> req[r].email, admin |-> req[r].admin, by |-> req[r].me,
                     state |-> "pending"]
               ELSE invite[i]]
     ELSE UNCHANGED <<invite, lastInvite>>
  /\ UNCHANGED <<user, lastId, links, rest, asked>>

InviteExpires(i) ==
  /\ i \in DOMAIN invite /\ invite[i].state = "pending" /\ faults < MaxFaults
  /\ invite' = [invite EXCEPT ![i].state = "expired"] /\ faults' = faults + 1
  /\ UNCHANGED <<user, lastId, lastInvite, links, settings, boot, req, cut, asked>>

\* deleteInvite
RevokeStart(r, me, i) ==
  /\ Arrives(r) /\ IsAdmin(me) /\ i \in DOMAIN invite
  /\ Step(r, [Idle EXCEPT !.at = "revoke", !.on = i])
  /\ UNCHANGED <<db, rest>>

Revoke(r) ==
  /\ At(r, "revoke") /\ Done(r)
  /\ invite' = Without(invite, req[r].on)
  /\ UNCHANGED <<user, lastId, lastInvite, links, rest, asked>>

\* inviteAccept: PendingInvite is read, the account made, the invitation marked.
AcceptRead(r, i) ==
  /\ Arrives(r)
  /\ i \in DOMAIN invite /\ invite[i].state = "pending"
  /\ Step(r, [Idle EXCEPT !.at = "redeem", !.on = i, !.email = invite[i].email,
                          !.admin = invite[i].admin])
  /\ UNCHANGED <<db, rest>>

\* Mutant of Redeem: the invitation is not marked.
RedeemUnmarked(r) ==
  /\ At(r, "redeem")
  /\ IF EmailFree(req[r].email)
     THEN /\ Insert("invited", req[r].email, req[r].admin, TRUE, req[r].on) /\ Done(r)
          /\ UNCHANGED links
     ELSE Refused(r)
  /\ UNCHANGED <<invite, lastInvite, rest, asked>>

Redeem(r) ==
  /\ At(r, "redeem")
  /\ IF EmailFree(req[r].email)
     THEN /\ Insert("invited", req[r].email, req[r].admin, TRUE, req[r].on) /\ Made(r, "mark")
          /\ UNCHANGED links
     ELSE Refused(r)
  /\ UNCHANGED <<invite, lastInvite, rest, asked>>

\* MarkInviteAccepted; a revoked invitation is no error.
Mark(r) ==
  /\ At(r, "mark") /\ Done(r)
  /\ invite' = [i \in DOMAIN invite |-> IF i = req[r].on
                  THEN [invite[i] EXCEPT !.state = "accepted"] ELSE invite[i]]
  /\ UNCHANGED <<user, lastId, lastInvite, links, rest, asked>>

-----------------------------------------------------------------------------
\* deleteUser, behind requireAdmin.
DeleteStart(r, me, u) ==
  /\ Arrives(r) /\ IsAdmin(me)
  /\ Step(r, [Idle EXCEPT !.at = "guard", !.me = me, !.on = u])
  /\ UNCHANGED <<db, rest>>

\* Mutant of DeleteGuard: the administrator's own account is not refused.
DeleteGuardNone(r) ==
  /\ At(r, "guard")
  /\ To(r, "delete")
  /\ UNCHANGED <<db, rest, asked>>

\* deleteUser asks again who is there: any id but one's own.  A session that is gone by
\* now, or cannot be read, is nobody's, and nobody has an account of his own to spare.
DeleteGuard(r) ==
  /\ At(r, "guard")
  /\ \/ req[r].me \in Users /\ IF req[r].on = req[r].me THEN Done(r) ELSE To(r, "delete")
     \/ Step(r, [req[r] EXCEPT !.at = "delete", !.me = 0])
  /\ UNCHANGED <<db, rest, asked>>

Delete(r) ==
  /\ At(r, "delete")
  /\ Remove(req[r].on) /\ Done(r)
  /\ UNCHANGED <<lastId, invite, lastInvite, settings, boot, faults, asked>>

-----------------------------------------------------------------------------
\* oidcResolveUser.  A linked identity is signed in; any other goes on.
OIDCLookup(r, s, e) ==
  /\ Arrives(r) /\ s \notin DOMAIN identity
  /\ Step(r, [Idle EXCEPT !.at = "vet", !.email = e, !.as = s])
  /\ UNCHANGED <<db, rest>>

\* GetUserByEmail, CountUsers, the mode and the toggle.
OIDCVet(r) ==
  /\ At(r, "vet")
  /\ IF EmailFree(req[r].email) /\ Users # {} /\ mode = "full_login" /\ signup
     THEN To(r, "make") ELSE Done(r)
  /\ UNCHANGED <<db, rest, asked>>

OIDCMake(r) ==
  /\ At(r, "make")
  /\ IF EmailFree(req[r].email)
     THEN Insert("oidc", req[r].email, FALSE, TRUE, 0) /\ Made(r, "link") /\ UNCHANGED links
     ELSE Refused(r)
  /\ UNCHANGED <<invite, lastInvite, rest, asked>>

\* Mutant of OIDCLink: the account stays when it cannot be linked.
OIDCLinkKeeps(r) ==
  /\ At(r, "link")
  /\ IF req[r].as \notin DOMAIN identity /\ req[r].me \in Users
     THEN /\ identity' = [s \in DOMAIN identity \cup {req[r].as} |->
               IF s = req[r].as THEN req[r].me ELSE identity[s]]
          /\ Done(r)
     ELSE Done(r) /\ UNCHANGED identity
  /\ UNCHANGED <<user, lastId, invite, lastInvite, stream, verif, mailed, rest, asked>>

\* LinkOIDCIdentity: its primary key refuses an identity that got linked meanwhile.
OIDCLink(r) ==
  /\ At(r, "link")
  /\ IF req[r].as \notin DOMAIN identity /\ req[r].me \in Users
     THEN /\ identity' = [s \in DOMAIN identity \cup {req[r].as} |->
               IF s = req[r].as THEN req[r].me ELSE identity[s]]
          /\ Done(r)
     ELSE To(r, "unlink") /\ UNCHANGED identity
  /\ UNCHANGED <<user, lastId, invite, lastInvite, stream, verif, mailed, rest, asked>>

Unlink(r) ==
  /\ At(r, "unlink")
  /\ Remove(req[r].me) /\ Done(r)
  /\ UNCHANGED <<lastId, invite, lastInvite, settings, boot, faults, asked>>

-----------------------------------------------------------------------------
\* createPasswordlessProfile: inserted without an address, which is made from its id.
ProfileStart(r) ==
  /\ Arrives(r) /\ mode = "household_profiles"
  /\ Step(r, [Idle EXCEPT !.at = "profile"])
  /\ UNCHANGED <<db, rest>>

ProfileInsert(r) ==
  /\ At(r, "profile")
  /\ IF EmailFree("")
     THEN Insert("profile", "", FALSE, TRUE, 0) /\ Made(r, "address") /\ UNCHANGED links
     ELSE Refused(r)
  /\ UNCHANGED <<invite, lastInvite, rest, asked>>

ProfileAddress(r) ==
  /\ At(r, "address") /\ Done(r)
  /\ user' = [u \in Users |-> IF u = req[r].me THEN [user[u] EXCEPT !.email = "own"]
                                               ELSE user[u]]
  /\ UNCHANGED <<lastId, invite, lastInvite, links, rest, asked>>

\* resolvePersonalStream: whose stream it is, and EnsurePrivateStream.
StreamStart(r, me) ==
  /\ Arrives(r) /\ me \in Users
  /\ mode \in {"household_profiles", "full_login"}
  /\ Step(r, [Idle EXCEPT !.at = "stream", !.me = me])
  /\ UNCHANGED <<db, rest>>

StreamEnsure(r) ==
  /\ At(r, "stream") /\ Done(r)
  /\ stream' = stream \cup {req[r].me}
  /\ UNCHANGED <<user, lastId, invite, lastInvite, identity, verif, mailed, rest, asked>>

\* setAdminSettings: the mode and then the signup toggle, or, in a request that names no
\* mode, the signup toggle and then the guest toggle, which sets the mode.
SettingsStart(r, me) ==
  /\ Arrives(r) /\ IsAdmin(me)
  /\ Step(r, [Idle EXCEPT !.at = "settings"])
  /\ UNCHANGED <<db, rest>>

SetMode(r) ==
  /\ At(r, "settings") /\ To(r, "toggle")
  /\ mode' \in Modes
  /\ UNCHANGED <<user, lastId, invite, lastInvite, links, signup, boot, cut, faults, asked>>

SetToggle(r) ==
  /\ \/ At(r, "toggle") /\ Done(r)
     \/ At(r, "settings") /\ To(r, "guest")
  /\ signup' \in BOOLEAN
  /\ UNCHANGED <<user, lastId, invite, lastInvite, links, mode, boot, cut, faults, asked>>

\* SetGuestAccessEnabled
SetGuest(r) ==
  /\ At(r, "guest") /\ Done(r)
  /\ mode' \in {"open_admin_locked", "full_login"}
  /\ UNCHANGED <<user, lastId, invite, lastInvite, links, signup, boot, cut, faults, asked>>

\* A crash and a restart: the database stays, a token is armed for an empty one.
Restart ==
  /\ faults < MaxFaults /\ faults' = faults + 1
  /\ cut' = cut \cup ({req[r].me : r \in {s \in Requests :
                        req[s].at \in {"mail", "unmail", "mark", "link", "unlink", "address"}}}
                      \cap Users)
  /\ req' = [r \in Requests |-> Idle]
  /\ boot' = IF Users = {} THEN "armed" ELSE "off"
  /\ UNCHANGED <<user, lastId, invite, lastInvite, links, settings, asked>>

Arrive(r) ==
  \/ \E e \in Emails : SignupCount(r, e) \/ \E s \in Subjects : OIDCLookup(r, s, e)
  \/ \E i \in DOMAIN invite : AcceptRead(r, i)
  \/ ProfileStart(r)
  \/ \E me \in Users :
       \/ StreamStart(r, me) \/ SettingsStart(r, me)
       \/ \E u \in 1 .. MaxUsers : DeleteStart(r, me, u) \/ ReverifyStart(r, me, u)
       \/ \E i \in DOMAIN invite : RevokeStart(r, me, i)
       \/ \E e \in Emails, admin \in BOOLEAN : InviteStart(r, me, e, admin)

Continue(r) ==
  \/ SignupToken(r) \/ SignupGate(r) \/ SignupFirst(r) \/ Claim(r)
  \/ SignupSelf(r) \/ Mail(r) \/ Unmail(r) \/ Reverify(r)
  \/ InviteInsert(r) \/ Revoke(r) \/ Redeem(r) \/ Mark(r)
  \/ DeleteGuard(r) \/ Delete(r)
  \/ OIDCVet(r) \/ OIDCMake(r) \/ OIDCLink(r) \/ Unlink(r)
  \/ ProfileInsert(r) \/ ProfileAddress(r) \/ StreamEnsure(r) \/ SetMode(r) \/ SetToggle(r)
  \/ SetGuest(r)

Next ==
  \/ \E r \in Requests : Arrive(r) \/ Continue(r)
  \/ \E u \in Users : Verify(u) \/ LinkExpires(u)
  \/ \E i \in DOMAIN invite : InviteExpires(i)
  \/ Restart

Spec == Init /\ [][Next]_vars

-----------------------------------------------------------------------------
\* Request r is at work on account u.
WorkingOn(u, P) == \E r \in Requests : req[r].me = u /\ req[r].at \in P

\* What has been made of account u is not all of it: nobody can sign in to it, its
\* address is not its own, or the invitation it came from is still good.
HalfMade(u) ==
  \/ user[u].kind = "oidc" /\ \A s \in DOMAIN identity : identity[s] # u
  \/ user[u].kind = "self" /\ ~user[u].verified /\ u \notin mailed
  \/ user[u].kind = "profile" /\ user[u].email = ""
  \/ /\ user[u].kind = "invited" /\ user[u].inv \in DOMAIN invite
     /\ invite[user[u].inv].state # "accepted"

\* A half-made account is somebody's work in progress, or a crash has left it
\* (api/oidc.go:321, api/auth.go:374, store/users.go:185, api/auth.go:936).
NoHalfMade ==
  \A u \in Users : HalfMade(u) =>
    u \in cut \/ WorkingOn(u, {"mail", "unmail", "mark", "link", "unlink", "address"})

\* Two signups with the bootstrap link never make two first administrators
\* (store/users.go, CreateFirstAdmin).
OneBootstrap == Cardinality({u \in Users : user[u].kind = "first"}) <= 1

Admins == {u \in Users : user[u].admin}

\* The last administrator is deleted only by a request that is nobody's any more: its
\* author has been deleted, or his session was gone, or could not be read, when deleteUser
\* looked for it the second time (api/adminusers.go, deleteUser: "avoids locking out the
\* last admin by accident").
AdminRemains ==
  [][Admins # {} /\ Admins' = {} =>
       \E r \in Requests : At(r, "delete") /\ Done(r) /\ req[r].me \notin Users]_vars

\* What that comment promises: an instance with administrators keeps one.
AdminAlways == [][Admins # {} => Admins' # {}]_vars

\* A personal stream without its account comes only from a request of the account that
\* was under way when it was deleted (store/users.go, DeleteUser).
PersonalOwned ==
  [][\A u \in stream' \ Users' :
       u \in stream \ Users \/ \E r \in Requests : At(r, "stream") /\ req[r].me = u]_vars

\* A new account inherits nothing: no row bore its id, nobody was acting under it.
FreshStart ==
  [][\A u \in Users' \ Users :
       /\ u \notin stream \cup verif \cup mailed
       /\ \A s \in DOMAIN identity : identity[s] # u
       /\ \A r \in Requests : req[r].me # u]_vars
=============================================================================
