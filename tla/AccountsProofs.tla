--------------------------- MODULE AccountsProofs ---------------------------
(***************************************************************************)
(* Proofs about Accounts, for any number of requests, addresses,           *)
(* identities, accounts, invitations and crashes.                          *)
(***************************************************************************)
EXTENDS Accounts, FiniteSetTheorems, TLAPS

\* Nothing bears an id that has not been given out yet.
Tables ==
  /\ lastId \in Nat /\ lastInvite \in Nat
  /\ Users \subseteq 1 .. lastId /\ user \in [Users -> UserRow]
  /\ DOMAIN invite \subseteq 1 .. lastInvite /\ invite \in [DOMAIN invite -> InviteRow]
  /\ identity \in [DOMAIN identity -> 1 .. lastId]
  /\ stream \in SUBSET (1 .. lastId) /\ verif \in SUBSET (1 .. lastId) /\ mailed \in SUBSET (1 .. lastId)
Own == req \in [Requests -> Request]

\* An invitation is an administrator's, if its author is still there; an account was made
\* from an invitation of before.
Authors ==
  /\ \A i \in DOMAIN invite :
       invite[i].by <= lastId /\ (invite[i].by \in Users => user[invite[i].by].admin)
  /\ \A u \in Users : user[u].inv <= lastInvite

\* The places of a request about somebody with an address.
Addressed == {"token", "gate", "first", "self", "invite", "redeem", "vet", "make"}

\* What a request remembers of the account it acts for, or has just made.
Fits(q) ==
  /\ q.me <= lastId
  /\ q.at = "guard" => q.on > 0
  /\ q.at = "delete" => q.me # q.on
  /\ q.at \in {"guard", "delete", "invite"} /\ q.me \in Users => user[q.me].admin
  /\ q.at \in {"mail", "unmail"} /\ q.me \in Users => user[q.me].kind = "self" /\ ~user[q.me].admin
  /\ q.at \in {"link", "unlink"} /\ q.me \in Users => user[q.me].kind = "oidc" /\ ~user[q.me].admin
  /\ q.at \in {"redeem", "mark"} => q.on <= lastInvite
  /\ q.at = "mark" /\ q.me \in Users => user[q.me].kind = "invited" /\ user[q.me].inv = q.on
  /\ q.at = "address" /\ q.me \in Users => user[q.me].kind = "profile"
  /\ q.at \in Addressed => q.email \in Emails
  /\ q.at = "stream" => q.me > 0
Holding == \A r \in Requests : Fits(req[r])

OneFirst == \A u, v \in Users : user[u].kind = "first" /\ user[v].kind = "first" => u = v

IInv == Tables /\ Own /\ Authors /\ Holding /\ OneFirst /\ NoHalfMade

\* The places of a request that is at work on an account it has made.
Work == {"mail", "unmail", "mark", "link", "unlink", "address"}

-----------------------------------------------------------------------------
(* A step of a request.                                                    *)

LEMMA RequestTypes ==
  ASSUME Own, NEW r \in Requests
  PROVE  /\ Idle \in Request /\ req[r] \in Request
         /\ Idle.at = "idle" /\ Idle.me = 0
BY DEF Own, Request, Idle, Places

LEMMA Goes ==
  ASSUME Own, NEW r \in Requests, NEW next \in Request, Step(r, next)
  PROVE  /\ Own'
         /\ \A s \in Requests : req'[s] = IF s = r THEN next ELSE req[s]
BY DEF Own, Step

LEMMA IdleFits == Tables => Fits(Idle)
BY DEF Tables, Fits, Idle, Addressed

\* A step that leaves the accounts and the invitations as they are.
LEMMA Quiet ==
  ASSUME IInv, NEW r \in Requests, NEW next \in Request, Step(r, next), Fits(next),
         UNCHANGED <<user, lastId, invite, lastInvite, identity, mailed, cut>>,
         stream' \in SUBSET (1 .. lastId), verif' \in SUBSET (1 .. lastId),
         req[r].at \in Work => next.at \in Work /\ next.me = req[r].me
  PROVE  IInv'
<1>1. Own' /\ \A s \in Requests : req'[s] = IF s = r THEN next ELSE req[s]
  BY Goes DEF IInv
<1>2. Tables' /\ Authors' /\ OneFirst'
  BY DEF IInv, Tables, Authors, OneFirst, Users
<1>3. Holding'
  BY <1>1 DEF IInv, Holding, Fits, Users
<1>4. NoHalfMade'
  <2> SUFFICES ASSUME NEW u \in Users', HalfMade(u)', u \notin cut'
               PROVE  WorkingOn(u, Work)'
    BY DEF NoHalfMade, Work
  <2>1. PICK s \in Requests : req[s].me = u /\ req[s].at \in Work
    BY DEF IInv, NoHalfMade, HalfMade, WorkingOn, Work, Users
  <2> QED BY <1>1, <2>1 DEF WorkingOn
<1> QED BY <1>1, <1>2, <1>3, <1>4 DEF IInv

\* What an insertion makes, and at which place its request goes on.
Creations == {<<"first", "claim">>, <<"self", "mail">>, <<"invited", "mark">>, <<"oidc", "link">>,
              <<"profile", "address">>}

LEMMA NewRow ==
  ASSUME Tables, NEW kind \in Kinds, NEW e \in Addresses, NEW admin \in BOOLEAN, NEW verified \in BOOLEAN,
         NEW inv \in Nat, Insert(kind, e, admin, verified, inv)
  PROVE  /\ lastId' = lastId + 1 /\ Users' = Users \cup {lastId + 1} /\ lastId + 1 \notin Users
         /\ \A u \in Users : user'[u] = user[u]
         /\ user'[lastId + 1] = [kind |-> kind, email |-> e, admin |-> admin, verified |-> verified,
                                 inv |-> inv]
         /\ user' \in [Users' -> UserRow]
BY DEF Tables, Insert, NewId, Users, UserRow

LEMMA Inserts ==
  ASSUME IInv, NEW r \in Requests, NEW c \in Creations, NEW e \in Addresses, NEW admin \in BOOLEAN,
         NEW verified \in BOOLEAN, NEW inv \in Nat,
         Insert(c[1], e, admin, verified, inv), Made(r, c[2]), req[r].at \notin Work,
         c[1] = "first" => Users = {}, c[1] \in {"self", "oidc"} => ~admin,
         c[1] = "invited" => inv = req[r].on /\ inv <= lastInvite, c[1] # "invited" => inv = 0,
         UNCHANGED <<invite, lastInvite, identity, stream, mailed, cut>>,
         verif' \in SUBSET (1 .. lastId + 1)
  PROVE  IInv'
<1> DEFINE n == lastId + 1
           next == [req[r] EXCEPT !.at = c[2], !.me = n]
<1>1. lastId \in Nat /\ c[1] \in Kinds /\ c[2] \in Places
  BY DEF IInv, Tables, Creations, Kinds, Places
<1>2. /\ lastId' = n /\ Users' = Users \cup {n} /\ n \notin Users
      /\ \A u \in Users : user'[u] = user[u]
      /\ user'[n] = [kind |-> c[1], email |-> e, admin |-> admin, verified |-> verified, inv |-> inv]
      /\ user' \in [Users' -> UserRow]
  BY <1>1, NewRow DEF IInv
<1>3. next \in Request /\ next.at = c[2] /\ next.me = n /\ next.on = req[r].on
  <2>1. req[r] \in Request /\ n \in Nat
    BY <1>1, RequestTypes DEF IInv
  <2> QED BY <1>1, <2>1 DEF Request
<1>4. Step(r, next)
  BY DEF Made, NewId
<1> HIDE DEF next
<1>5. Own' /\ \A s \in Requests : req'[s] = IF s = r THEN next ELSE req[s]
  BY <1>3, <1>4, Goes DEF IInv
<1>6. Tables'
  BY <1>1, <1>2 DEF IInv, Tables
<1>7. Authors'
  <2>1. \A i \in DOMAIN invite : invite[i].by \in Nat
    BY DEF IInv, Tables, InviteRow, Ids
  <2>2. lastInvite \in Nat /\ inv <= lastInvite
    BY DEF IInv, Tables
  <2> QED BY <1>1, <1>2, <2>1, <2>2 DEF IInv, Authors
<1>8. Holding'
  <2> SUFFICES ASSUME NEW s \in Requests PROVE Fits(req[s])'
    BY DEF Holding
  <2>1. CASE s = r
    BY <1>1, <1>2, <1>3, <1>5, <2>1 DEF Addressed, Fits, Creations
  <2>2. CASE s # r
    <3>1. req'[s] = req[s] /\ req[s].me \in Nat /\ req[s].me <= lastId /\ Fits(req[s])
      BY <1>5, <2>2, RequestTypes DEF IInv, Holding, Fits, Request
    <3>2. req[s].me # n
      BY <1>1, <3>1
    <3> QED BY <1>1, <1>2, <3>1, <3>2 DEF Addressed, Fits
  <2> QED BY <2>1, <2>2
<1>9. OneFirst'
  BY <1>2 DEF IInv, OneFirst
<1>10. NoHalfMade'
  <2> SUFFICES ASSUME NEW u \in Users', HalfMade(u)', u \notin cut'
               PROVE  WorkingOn(u, Work)'
    BY DEF NoHalfMade, Work
  <2>1. CASE u = n
    <3>1. c[1] # "first"
      <4>1. user'[u].kind = c[1]
        BY <1>2, <2>1
      <4>2. user'[u].kind \in {"oidc", "self", "profile", "invited"}
        BY DEF HalfMade
      <4> QED BY <4>1, <4>2
    <3>2. c[2] \in Work
      BY <3>1 DEF Creations, Work
    <3> QED BY <1>3, <1>5, <2>1, <3>2 DEF WorkingOn
  <2>2. CASE u # n
    <3>1. u \in Users /\ HalfMade(u) /\ u \notin cut
      BY <1>2, <2>2 DEF HalfMade
    <3>2. PICK s \in Requests : req[s].me = u /\ req[s].at \in Work
      BY <3>1 DEF IInv, NoHalfMade, WorkingOn, Work
    <3> QED BY <1>5, <3>2 DEF WorkingOn
  <2> QED BY <2>1, <2>2
<1> QED BY <1>5, <1>6, <1>7, <1>8, <1>9, <1>10 DEF IInv

\* A deletion; an account that is only half made is none that invitations could keep.
LEMMA Removes ==
  ASSUME IInv, NEW r \in Requests, NEW x \in Nat, Remove(x), Done(r), UNCHANGED <<lastId, invite, lastInvite>>,
         req[r].at \in Work => req[r].at \in {"unmail", "unlink"} /\ x = req[r].me
  PROVE  IInv'
<1>1. Own' /\ \A s \in Requests : req'[s] = IF s = r THEN Idle ELSE req[s]
  BY Goes, RequestTypes DEF IInv, Done
<1>2. CASE \E i \in DOMAIN invite : invite[i].by = x
  <2>1. UNCHANGED <<user, identity, stream, verif, mailed, cut>>
    BY <1>2 DEF Remove, links
  <2>2. Tables' /\ Authors' /\ OneFirst'
    BY <2>1 DEF IInv, Tables, Authors, OneFirst, Users
  <2>3. Holding'
    BY <1>1, <2>1, IdleFits DEF IInv, Holding, Fits, Users
  <2>4. NoHalfMade'
    <3> SUFFICES ASSUME NEW u \in Users', HalfMade(u)', u \notin cut'
                 PROVE  WorkingOn(u, Work)'
      BY DEF NoHalfMade, Work
    <3>1. u \in Users /\ HalfMade(u) /\ u \notin cut
      BY <2>1 DEF HalfMade, Users
    <3>2. PICK s \in Requests : req[s].me = u /\ req[s].at \in Work
      BY <3>1 DEF IInv, NoHalfMade, WorkingOn, Work
    <3>3. s # r
      <4> SUFFICES ASSUME s = r PROVE FALSE
        OBVIOUS
      <4>1. req[r].at \in {"unmail", "unlink"} /\ u = x
        BY <3>2
      <4>2. ~user[x].admin
        BY <3>1, <3>2, <4>1 DEF IInv, Holding, Fits
      <4>3. user[x].admin
        BY <1>2, <3>1, <4>1 DEF IInv, Authors
      <4> QED BY <4>2, <4>3
    <3> QED BY <1>1, <3>2, <3>3 DEF WorkingOn
  <2> QED BY <1>1, <2>2, <2>3, <2>4 DEF IInv
<1>3. CASE ~\E i \in DOMAIN invite : invite[i].by = x
  <2>1. /\ Users' = Users \ {x} /\ \A u \in Users' : user'[u] = user[u]
        /\ stream' \subseteq stream /\ verif' \subseteq verif /\ mailed' = mailed \ {x} /\ cut' = cut \ {x}
        /\ DOMAIN identity' = {t \in DOMAIN identity : identity[t] # x}
        /\ \A t \in DOMAIN identity' : identity'[t] = identity[t]
        /\ user' \in [Users' -> UserRow] /\ identity' \in [DOMAIN identity' -> 1 .. lastId]
    BY <1>3 DEF Remove, Without, Users, IInv, Tables
  <2>2. Tables'
    BY <2>1 DEF IInv, Tables
  <2>3. Authors' /\ OneFirst'
    BY <2>1 DEF IInv, Authors, OneFirst
  <2>4. Holding'
    <3> SUFFICES ASSUME NEW s \in Requests PROVE Fits(req[s])'
      BY DEF Holding
    <3>1. Fits(req'[s])
      BY <1>1, IdleFits DEF IInv, Holding
    <3> QED BY <2>1, <3>1 DEF Addressed, Fits
  <2>5. NoHalfMade'
    <3> SUFFICES ASSUME NEW u \in Users', HalfMade(u)', u \notin cut'
                 PROVE  WorkingOn(u, Work)'
      BY DEF NoHalfMade, Work
    <3>1. u \in Users /\ u # x /\ HalfMade(u) /\ u \notin cut
      BY <2>1 DEF HalfMade
    <3>2. PICK s \in Requests : req[s].me = u /\ req[s].at \in Work
      BY <3>1 DEF IInv, NoHalfMade, WorkingOn, Work
    <3> QED BY <1>1, <3>1, <3>2 DEF WorkingOn
  <2> QED BY <1>1, <2>2, <2>3, <2>4, <2>5 DEF IInv
<1> QED BY <1>2, <1>3

\* A step after which no account is half made that was not, and whose requests that are
\* still at work on it go on.
Settles ==
  \A u \in Users : HalfMade(u)' /\ u \notin cut' =>
    /\ HalfMade(u) /\ u \notin cut
    /\ \A r \in Requests : req[r].me = u /\ req[r].at \in Work => req'[r] = req[r]
SameAccounts ==
  /\ Users' = Users /\ lastId' = lastId
  /\ \A u \in Users : /\ user'[u].kind = user[u].kind
                       /\ user'[u].admin = user[u].admin
                       /\ user'[u].inv = user[u].inv
SameAuthors ==
  \A i \in DOMAIN invite' :
    invite'[i].by <= lastId /\ (invite'[i].by \in Users => user[invite'[i].by].admin)

LEMMA Settled ==
  ASSUME IInv, Tables', Own', SameAccounts, SameAuthors, Settles, lastInvite' >= lastInvite,
         \A r \in Requests : req'[r] = req[r] \/ req'[r] = Idle
  PROVE  IInv'
<1>1. Authors'
  <2>1. \A u \in Users : user[u].inv \in Nat /\ user[u].inv <= lastInvite
    BY DEF IInv, Tables, Authors, UserRow
  <2>2. lastInvite \in Nat /\ lastInvite' \in Nat
    BY DEF IInv, Tables
  <2> QED BY <2>1, <2>2 DEF SameAccounts, SameAuthors, Authors
<1>2. Holding'
  <2> SUFFICES ASSUME NEW r \in Requests PROVE Fits(req[r])'
    BY DEF Holding
  <2>1. Fits(req'[r])
    BY IdleFits DEF IInv, Holding
  <2>2. req'[r].on \in Nat /\ lastInvite \in Nat /\ lastInvite' \in Nat
    BY DEF Own, Request, IInv, Tables
  <2> QED BY <2>1, <2>2 DEF Addressed, Fits, SameAccounts
<1>3. OneFirst'
  BY DEF IInv, OneFirst, SameAccounts
<1>4. NoHalfMade'
  <2> SUFFICES ASSUME NEW u \in Users', HalfMade(u)', u \notin cut'
               PROVE  WorkingOn(u, Work)'
    BY DEF NoHalfMade, Work
  <2>1. /\ u \in Users /\ HalfMade(u) /\ u \notin cut
        /\ \A r \in Requests : req[r].me = u /\ req[r].at \in Work => req'[r] = req[r]
    BY DEF Settles, SameAccounts
  <2>2. PICK r \in Requests : req[r].me = u /\ req[r].at \in Work
    BY <2>1 DEF IInv, NoHalfMade, WorkingOn, Work
  <2> QED BY <2>1, <2>2 DEF WorkingOn
<1> QED BY <1>1, <1>2, <1>3, <1>4 DEF IInv

-----------------------------------------------------------------------------
(* The steps of a request.                                                 *)

\* The request is refused, or ends without having written.
LEMMA Ending ==
  ASSUME IInv, NEW r \in Requests, Done(r), req[r].at \notin Work,
         UNCHANGED <<user, lastId, invite, lastInvite, identity, mailed, cut>>,
         stream' \in SUBSET (1 .. lastId), verif' \in SUBSET (1 .. lastId)
  PROVE  IInv'
<1>1. Step(r, Idle) /\ Idle \in Request /\ Fits(Idle)
  BY RequestTypes, IdleFits DEF Done, IInv
<1> QED BY <1>1, Quiet

\* The request goes on; nothing is known of it that was not.
LEMMA Passing ==
  ASSUME IInv, NEW r \in Requests, NEW p \in Places, To(r, p), UNCHANGED <<db, cut>>,
         \/ p \in {"first", "self", "make"} /\ req[r].at \in {"token", "gate", "vet"}
         \/ p \in {"toggle", "guest"} /\ req[r].at \notin Work
         \/ <<req[r].at, p>> \in {<<"mail", "unmail">>, <<"link", "unlink">>}
  PROVE  IInv'
<1> DEFINE next == [req[r] EXCEPT !.at = p]
<1>1. /\ next \in Request /\ next.at = p /\ next.me = req[r].me /\ next.on = req[r].on
      /\ next.email = req[r].email /\ Step(r, next)
  BY RequestTypes DEF IInv, Request, To
<1> HIDE DEF next
<1>2. Fits(req[r])
  BY DEF IInv, Holding
<1>3. Fits(next)
  <2>1. CASE p \in {"first", "self", "make"} /\ req[r].at \in {"token", "gate", "vet"}
    BY <1>1, <1>2, <2>1 DEF Addressed, Fits
  <2>2. CASE p \in {"toggle", "guest"}
    BY <1>1, <1>2, <2>2 DEF Addressed, Fits
  <2>3. CASE req[r].at = "mail" /\ p = "unmail"
    BY <1>1, <1>2, <2>3 DEF Addressed, Fits
  <2>4. CASE req[r].at = "link" /\ p = "unlink"
    BY <1>1, <1>2, <2>4 DEF Addressed, Fits
  <2> QED BY <2>1, <2>2, <2>3, <2>4
<1>4. req[r].at \in Work => next.at \in Work /\ next.me = req[r].me
  BY <1>1 DEF Work, Addressed
<1>5. /\ UNCHANGED <<user, lastId, invite, lastInvite, identity, mailed, cut>>
      /\ stream' \in SUBSET (1 .. lastId) /\ verif' \in SUBSET (1 .. lastId)
  BY DEF db, links, IInv, Tables
<1> QED BY <1>1, <1>3, <1>4, <1>5, Quiet

LEMMA Arriving ==
  ASSUME IInv, NEW r \in Requests, Arrive(r)
  PROVE  IInv' /\ UNCHANGED <<db, rest>>
<1>1. /\ lastId \in Nat /\ lastInvite \in Nat /\ MaxUsers \in Nat
      /\ \A u \in Users : u \in Nat /\ 0 < u /\ u <= lastId
      /\ \A i \in DOMAIN invite : i \in Nat /\ i <= lastInvite /\ invite[i] \in InviteRow
  BY AccountsAssumption DEF IInv, Tables
<1>2. Idle \in Request /\ Idle.at = "idle" /\ Idle.me = 0
  BY RequestTypes DEF IInv
<1>3. At(r, "idle") /\ UNCHANGED <<db, rest>>
  BY DEF Arrive, Arrives, SignupCount, OIDCLookup, AcceptRead, ProfileStart, StreamStart, SettingsStart,
         DeleteStart, ReverifyStart, RevokeStart, InviteStart
<1>4. \E next \in Request : Step(r, next) /\ Fits(next)
  <2>1. ASSUME NEW e \in Emails, SignupCount(r, e)
        PROVE  \E next \in Request : Step(r, next) /\ Fits(next)
    <3> DEFINE p == IF Users = {} THEN "token" ELSE "gate"
               next == [Idle EXCEPT !.at = p, !.email = e]
    <3>1. p \in {"token", "gate"} /\ p \in Places
      BY DEF Places
    <3>2. Step(r, next)
      BY <2>1 DEF SignupCount
    <3> HIDE DEF p
    <3>3. next \in Request
      BY <1>2, <3>1 DEF Request
    <3>4. Fits(next)
      BY <1>1, <3>1 DEF Addressed, Fits, Idle
    <3> QED BY <3>2, <3>3, <3>4
  <2>2. ASSUME NEW e \in Emails, NEW s \in Subjects, OIDCLookup(r, s, e)
        PROVE  \E next \in Request : Step(r, next) /\ Fits(next)
    <3> DEFINE next == [Idle EXCEPT !.at = "vet", !.email = e, !.as = s]
    <3>1. next \in Request
      BY <1>2 DEF Request, Places
    <3>2. Fits(next)
      BY <1>1 DEF Addressed, Fits, Idle
    <3> QED BY <2>2, <3>1, <3>2 DEF OIDCLookup
  <2>3. ASSUME NEW i \in DOMAIN invite, AcceptRead(r, i)
        PROVE  \E next \in Request : Step(r, next) /\ Fits(next)
    <3> DEFINE next == [Idle EXCEPT !.at = "redeem", !.on = i, !.email = invite[i].email,
                                    !.admin = invite[i].admin]
    <3>1. i \in Nat /\ i <= lastInvite /\ invite[i].email \in Emails /\ invite[i].admin \in BOOLEAN
      BY <1>1 DEF InviteRow
    <3>2. next \in Request
      BY <1>2, <3>1 DEF Request, Places
    <3>3. Fits(next)
      BY <1>1, <3>1 DEF Addressed, Fits, Idle
    <3> QED BY <2>3, <3>2, <3>3 DEF AcceptRead
  <2>4. ASSUME ProfileStart(r)
        PROVE  \E next \in Request : Step(r, next) /\ Fits(next)
    <3> DEFINE next == [Idle EXCEPT !.at = "profile"]
    <3>1. next \in Request
      BY <1>2 DEF Request, Places
    <3>2. Fits(next)
      BY <1>1 DEF Addressed, Fits, Idle
    <3> QED BY <2>4, <3>1, <3>2 DEF ProfileStart
  <2>5. ASSUME NEW me \in Users, StreamStart(r, me)
        PROVE  \E next \in Request : Step(r, next) /\ Fits(next)
    <3> DEFINE next == [Idle EXCEPT !.at = "stream", !.me = me]
    <3>1. next \in Request
      BY <1>1, <1>2 DEF Request, Places
    <3>2. Fits(next)
      BY <1>1 DEF Addressed, Fits, Idle
    <3> QED BY <2>5, <3>1, <3>2 DEF StreamStart
  <2>6. ASSUME NEW me \in Users, SettingsStart(r, me)
        PROVE  \E next \in Request : Step(r, next) /\ Fits(next)
    <3> DEFINE next == [Idle EXCEPT !.at = "settings"]
    <3>1. next \in Request
      BY <1>2 DEF Request, Places
    <3>2. Fits(next)
      BY <1>1 DEF Addressed, Fits, Idle
    <3> QED BY <2>6, <3>1, <3>2 DEF SettingsStart
  <2>7. ASSUME NEW me \in Users, NEW u \in 1 .. MaxUsers, DeleteStart(r, me, u)
        PROVE  \E next \in Request : Step(r, next) /\ Fits(next)
    <3> DEFINE next == [Idle EXCEPT !.at = "guard", !.me = me, !.on = u]
    <3>1. u \in Nat /\ u > 0 /\ user[me].admin
      BY <1>1, <2>7 DEF DeleteStart, IsAdmin
    <3>2. next \in Request
      BY <1>1, <1>2, <3>1 DEF Request, Places
    <3>3. Fits(next)
      BY <1>1, <3>1 DEF Addressed, Fits, Idle
    <3> QED BY <2>7, <3>2, <3>3 DEF DeleteStart
  <2>8. ASSUME NEW me \in Users, NEW u \in 1 .. MaxUsers, ReverifyStart(r, me, u)
        PROVE  \E next \in Request : Step(r, next) /\ Fits(next)
    <3> DEFINE next == [Idle EXCEPT !.at = "reverify", !.on = u]
    <3>0. u \in Nat
      BY <1>1
    <3>1. next \in Request
      BY <1>2, <3>0 DEF Request, Places
    <3>2. Fits(next)
      BY <1>1 DEF Addressed, Fits, Idle
    <3> QED BY <2>8, <3>1, <3>2 DEF ReverifyStart
  <2>9. ASSUME NEW me \in Users, NEW i \in DOMAIN invite, RevokeStart(r, me, i)
        PROVE  \E next \in Request : Step(r, next) /\ Fits(next)
    <3> DEFINE next == [Idle EXCEPT !.at = "revoke", !.on = i]
    <3>1. next \in Request
      BY <1>1, <1>2 DEF Request, Places
    <3>2. Fits(next)
      BY <1>1 DEF Addressed, Fits, Idle
    <3> QED BY <2>9, <3>1, <3>2 DEF RevokeStart
  <2>10. ASSUME NEW me \in Users, NEW e \in Emails, NEW admin \in BOOLEAN, InviteStart(r, me, e, admin)
        PROVE  \E next \in Request : Step(r, next) /\ Fits(next)
    <3> DEFINE next == [Idle EXCEPT !.at = "invite", !.me = me, !.email = e, !.admin = admin]
    <3>1. user[me].admin
      BY <2>10 DEF InviteStart, IsAdmin
    <3>2. next \in Request
      BY <1>1, <1>2 DEF Request, Places
    <3>3. Fits(next)
      BY <1>1, <3>1 DEF Addressed, Fits, Idle
    <3> QED BY <2>10, <3>2, <3>3 DEF InviteStart
  <2> QED BY <2>1, <2>2, <2>3, <2>4, <2>5, <2>6, <2>7, <2>8, <2>9, <2>10 DEF Arrive
<1>5. PICK next \in Request : Step(r, next) /\ Fits(next)
  BY <1>4
<1>6. req[r].at \notin Work
  BY <1>3 DEF At, Work
<1>7. /\ UNCHANGED <<user, lastId, invite, lastInvite, identity, mailed, cut>>
      /\ stream' \in SUBSET (1 .. lastId) /\ verif' \in SUBSET (1 .. lastId)
  BY <1>3 DEF db, rest, links, IInv, Tables
<1> QED BY <1>3, <1>5, <1>6, <1>7, Quiet

\* The five statements that make an account.
LEMMA Creating ==
  ASSUME IInv, NEW r \in Requests,
         SignupFirst(r) \/ SignupSelf(r) \/ Redeem(r) \/ OIDCMake(r) \/ ProfileInsert(r)
  PROVE  IInv'
<1>1. /\ lastId \in Nat /\ lastInvite \in Nat
      /\ stream \in SUBSET (1 .. lastId) /\ verif \in SUBSET (1 .. lastId)
      /\ verif \in SUBSET (1 .. lastId + 1)
  BY DEF IInv, Tables
<1>2. /\ req[r].on \in Nat /\ req[r].admin \in BOOLEAN /\ Fits(req[r])
      /\ req[r].at \in Addressed => req[r].email \in Emails
  BY DEF IInv, Own, Request, Holding, Fits
<1>3. req[r].at \notin Work
  BY DEF SignupFirst, SignupSelf, Redeem, OIDCMake, ProfileInsert, At, Work
<1>4. Refused(r) /\ UNCHANGED <<invite, lastInvite, rest>> => IInv'
  BY <1>1, <1>3, Ending DEF Refused, links, rest
<1>5. ASSUME SignupFirst(r), ~Refused(r) PROVE IInv'
  <2> DEFINE c == <<"first", "claim">>
  <2>1. /\ Users = {} /\ Insert("first", req[r].email, TRUE, TRUE, 0) /\ Made(r, "claim")
        /\ UNCHANGED <<invite, lastInvite, identity, stream, verif, mailed, cut>>
        /\ req[r].email \in Addresses
    BY <1>2, <1>5 DEF SignupFirst, links, rest, At, Addressed, Addresses
  <2>2. c \in Creations /\ c[1] = "first" /\ c[2] = "claim"
    BY DEF Creations
  <2> HIDE DEF c
  <2>3. Insert(c[1], req[r].email, TRUE, TRUE, 0) /\ Made(r, c[2])
    BY <2>1, <2>2
  <2> QED BY <1>1, <1>3, <2>1, <2>2, <2>3, Inserts
<1>6. ASSUME SignupSelf(r), ~Refused(r) PROVE IInv'
  <2> DEFINE c == <<"self", "mail">>
  <2>1. /\ Insert("self", req[r].email, FALSE, FALSE, 0) /\ Made(r, "mail")
        /\ UNCHANGED <<invite, lastInvite, identity, stream, mailed, cut>>
        /\ verif' = verif \cup {lastId + 1} /\ req[r].email \in Addresses
    BY <1>2, <1>6 DEF SignupSelf, rest, At, Addressed, Addresses, NewId
  <2>2. c \in Creations /\ c[1] = "self" /\ c[2] = "mail"
    BY DEF Creations
  <2> HIDE DEF c
  <2>3. Insert(c[1], req[r].email, FALSE, FALSE, 0) /\ Made(r, c[2])
    BY <2>1, <2>2
  <2>4. verif' \in SUBSET (1 .. lastId + 1)
    BY <1>1, <2>1
  <2> QED BY <1>1, <1>3, <2>1, <2>2, <2>3, <2>4, Inserts
<1>7. ASSUME Redeem(r), ~Refused(r) PROVE IInv'
  <2> DEFINE c == <<"invited", "mark">>
  <2>1. /\ Insert("invited", req[r].email, req[r].admin, TRUE, req[r].on) /\ Made(r, "mark")
        /\ UNCHANGED <<invite, lastInvite, identity, stream, verif, mailed, cut>>
        /\ req[r].email \in Addresses /\ req[r].on <= lastInvite
    BY <1>2, <1>7 DEF Redeem, links, rest, At, Addressed, Addresses, Fits
  <2>2. c \in Creations /\ c[1] = "invited" /\ c[2] = "mark"
    BY DEF Creations
  <2> HIDE DEF c
  <2>3. Insert(c[1], req[r].email, req[r].admin, TRUE, req[r].on) /\ Made(r, c[2])
    BY <2>1, <2>2
  <2> QED BY <1>1, <1>2, <1>3, <2>1, <2>2, <2>3, Inserts
<1>8. ASSUME OIDCMake(r), ~Refused(r) PROVE IInv'
  <2> DEFINE c == <<"oidc", "link">>
  <2>1. /\ Insert("oidc", req[r].email, FALSE, TRUE, 0) /\ Made(r, "link")
        /\ UNCHANGED <<invite, lastInvite, identity, stream, verif, mailed, cut>>
        /\ req[r].email \in Addresses
    BY <1>2, <1>8 DEF OIDCMake, links, rest, At, Addressed, Addresses
  <2>2. c \in Creations /\ c[1] = "oidc" /\ c[2] = "link"
    BY DEF Creations
  <2> HIDE DEF c
  <2>3. Insert(c[1], req[r].email, FALSE, TRUE, 0) /\ Made(r, c[2])
    BY <2>1, <2>2
  <2> QED BY <1>1, <1>3, <2>1, <2>2, <2>3, Inserts
<1>9. ASSUME ProfileInsert(r), ~Refused(r) PROVE IInv'
  <2> DEFINE c == <<"profile", "address">>
  <2>1. /\ Insert("profile", "", FALSE, TRUE, 0) /\ Made(r, "address")
        /\ UNCHANGED <<invite, lastInvite, identity, stream, verif, mailed, cut>>
        /\ "" \in Addresses
    BY <1>9 DEF ProfileInsert, links, rest, Addresses
  <2>2. c \in Creations /\ c[1] = "profile" /\ c[2] = "address"
    BY DEF Creations
  <2> HIDE DEF c
  <2>3. Insert(c[1], "", FALSE, TRUE, 0) /\ Made(r, c[2])
    BY <2>1, <2>2
  <2> QED BY <1>1, <1>3, <2>1, <2>2, <2>3, Inserts
<1>10. CASE Refused(r)
  BY <1>4, <1>10 DEF SignupFirst, SignupSelf, Redeem, OIDCMake, ProfileInsert
<1> QED BY <1>5, <1>6, <1>7, <1>8, <1>9, <1>10

\* The deletions.
LEMMA Deleting ==
  ASSUME IInv, NEW r \in Requests, Unmail(r) \/ Unlink(r) \/ Delete(r)
  PROVE  IInv'
<1>1. req[r].me \in Nat /\ req[r].on \in Nat
  BY DEF IInv, Own, Request
<1>2. CASE Delete(r)
  <2>1. Remove(req[r].on) /\ Done(r) /\ UNCHANGED <<lastId, invite, lastInvite>> /\ req[r].at = "delete"
    BY <1>2 DEF Delete, At
  <2> QED BY <1>1, <2>1, Removes DEF Work
<1>3. CASE Unmail(r) \/ Unlink(r)
  <2>1. /\ Remove(req[r].me) /\ Done(r) /\ UNCHANGED <<lastId, invite, lastInvite>>
        /\ req[r].at \in {"unmail", "unlink"}
    BY <1>3 DEF Unmail, Unlink, At
  <2> QED BY <1>1, <2>1, Removes
<1> QED BY <1>2, <1>3

\* The statements that complete an account, and those on what hangs on it.
LEMMA Completing ==
  ASSUME IInv, NEW r \in Requests,
         Mail(r) \/ Reverify(r) \/ InviteInsert(r) \/ Revoke(r) \/ Mark(r) \/ OIDCLink(r) \/ ProfileAddress(r)
  PROVE  IInv'
<1>1. /\ Fits(req[r]) /\ req[r] \in Request
      /\ lastId \in Nat /\ lastInvite \in Nat /\ Users \subseteq 1 .. lastId
      /\ DOMAIN invite \subseteq 1 .. lastInvite
  BY DEF IInv, Own, Holding, Tables
<1>2. CASE Mail(r) /\ To(r, "unmail") /\ UNCHANGED mailed
  <2>1. UNCHANGED <<db, cut>> /\ req[r].at = "mail" /\ "unmail" \in Places
    BY <1>2 DEF Mail, db, links, rest, At, Places
  <2> QED BY <1>2, <2>1, Passing
<1>3. CASE OIDCLink(r) /\ To(r, "unlink") /\ UNCHANGED identity
  <2>1. UNCHANGED <<db, cut>> /\ req[r].at = "link" /\ "unlink" \in Places
    BY <1>3 DEF OIDCLink, db, links, rest, At, Places
  <2> QED BY <1>3, <2>1, Passing
<1>4. CASE ~(Mail(r) /\ To(r, "unmail") /\ UNCHANGED mailed) /\ ~(OIDCLink(r) /\ To(r, "unlink") /\ UNCHANGED identity)
  <2>1. Done(r)
    BY <1>4 DEF Mail, Reverify, InviteInsert, Revoke, Mark, OIDCLink, ProfileAddress
  <2>2. Own' /\ \A s \in Requests : req'[s] = IF s = r THEN Idle ELSE req[s]
    BY <1>1, <2>1, Goes, RequestTypes DEF IInv, Done
  <2> DEFINE me == req[r].me
             on == req[r].on
  <2>3. ASSUME Mail(r) PROVE IInv'
    <3>1. /\ req[r].at = "mail" /\ mailed' = mailed \cup ({me} \cap Users)
          /\ UNCHANGED <<user, lastId, invite, lastInvite, identity, stream, verif, cut>>
      BY <1>4, <2>3 DEF Mail, At, rest
    <3>2. Tables' /\ SameAccounts /\ SameAuthors /\ lastInvite' >= lastInvite
      BY <1>1, <3>1 DEF IInv, Tables, Authors, SameAccounts, SameAuthors, Users
    <3>3. me \in Users => user[me].kind = "self"
      BY <1>1, <3>1 DEF Fits
    <3>4. Settles
      BY <2>2, <3>1, <3>3 DEF Settles, HalfMade, Users
    <3> QED BY <2>2, <3>2, <3>4, Settled
  <2>4. ASSUME Reverify(r) PROVE IInv'
    <3>1. /\ req[r].at = "reverify" /\ mailed' = mailed \cup ({on} \cap Users)
          /\ verif' = verif \cup ({on} \cap Users)
          /\ UNCHANGED <<user, lastId, invite, lastInvite, identity, stream, cut>>
      BY <2>4 DEF Reverify, At, rest
    <3>2. Tables' /\ SameAccounts /\ SameAuthors /\ lastInvite' >= lastInvite
      BY <1>1, <3>1 DEF IInv, Tables, Authors, SameAccounts, SameAuthors, Users
    <3>3. Settles
      BY <2>2, <3>1 DEF Settles, HalfMade, Users, Work
    <3> QED BY <2>2, <3>2, <3>3, Settled
  <2>5. ASSUME InviteInsert(r), me \in Users PROVE IInv'
    <3> DEFINE i == lastInvite + 1
    <3>1. /\ req[r].at = "invite" /\ lastInvite' = i
          /\ invite' = [j \in DOMAIN invite \cup {i} |-> IF j = i
               THEN [email |-> req[r].email, admin |-> req[r].admin, by |-> me, state |-> "pending"]
               ELSE invite[j]]
          /\ UNCHANGED <<user, lastId, links, cut>>
      BY <2>5 DEF InviteInsert, At, rest
    <3>2. me \in Ids /\ me <= lastId /\ user[me].admin /\ req[r].email \in Emails /\ req[r].admin \in BOOLEAN
      BY <1>1, <2>5, <3>1 DEF Fits, Addressed, Ids, Request
    <3>3. invite' \in [DOMAIN invite' -> InviteRow] /\ DOMAIN invite' \subseteq 1 .. i
      BY <1>1, <3>1, <3>2 DEF IInv, Tables, InviteRow
    <3>4. Tables' /\ SameAccounts /\ lastInvite' >= lastInvite
      BY <1>1, <3>1, <3>3 DEF IInv, Tables, SameAccounts, Users, links
    <3>5. SameAuthors
      BY <1>1, <3>1, <3>2 DEF IInv, Authors, SameAuthors, Users
    <3>6. \A u \in Users : user[u].inv # i
      BY <1>1 DEF IInv, Authors, Tables, UserRow
    <3>7. Settles
      BY <2>2, <3>1, <3>6 DEF Settles, HalfMade, Users, Work, links
    <3> QED BY <2>2, <3>4, <3>5, <3>7, Settled
  <2>6. ASSUME InviteInsert(r), me \notin Users PROVE IInv'
    <3>1. req[r].at = "invite" /\ UNCHANGED <<user, lastId, invite, lastInvite, links, cut>>
      BY <2>6 DEF InviteInsert, At, rest
    <3> QED BY <2>1, <3>1, Ending DEF links, Work, IInv, Tables
  <2>7. ASSUME Revoke(r) PROVE IInv'
    <3>1. /\ req[r].at = "revoke" /\ UNCHANGED <<user, lastId, lastInvite, links, cut>>
          /\ invite' = Without(invite, on)
      BY <2>7 DEF Revoke, At, rest
    <3>2. /\ DOMAIN invite' \subseteq DOMAIN invite /\ \A i \in DOMAIN invite' : invite'[i] = invite[i]
          /\ invite' \in [DOMAIN invite' -> InviteRow]
      BY <3>1 DEF Without, IInv, Tables
    <3>3. Tables' /\ SameAccounts /\ SameAuthors /\ lastInvite' >= lastInvite
      BY <1>1, <3>1, <3>2 DEF IInv, Tables, Authors, SameAccounts, SameAuthors, Users, links
    <3>4. Settles
      BY <2>2, <3>1, <3>2 DEF Settles, HalfMade, Users, Work, links
    <3> QED BY <2>2, <3>3, <3>4, Settled
  <2>8. ASSUME Mark(r) PROVE IInv'
    <3>1. /\ req[r].at = "mark" /\ UNCHANGED <<user, lastId, lastInvite, links, cut>>
          /\ invite' = [i \in DOMAIN invite |-> IF i = on
                          THEN [invite[i] EXCEPT !.state = "accepted"] ELSE invite[i]]
      BY <2>8 DEF Mark, At, rest
    <3>2. /\ DOMAIN invite' = DOMAIN invite /\ invite' \in [DOMAIN invite' -> InviteRow]
          /\ \A i \in DOMAIN invite : invite'[i].by = invite[i].by /\ (i # on => invite'[i] = invite[i])
          /\ on \in DOMAIN invite => invite'[on].state = "accepted"
      BY <3>1 DEF IInv, Tables, InviteRow
    <3>3. Tables' /\ SameAccounts /\ SameAuthors /\ lastInvite' >= lastInvite
      BY <1>1, <3>1, <3>2 DEF IInv, Tables, Authors, SameAccounts, SameAuthors, Users, links
    <3>4. me \in Users => user[me].kind = "invited" /\ user[me].inv = on
      BY <1>1, <3>1 DEF Fits
    <3>5. Settles
      <4> SUFFICES ASSUME NEW u \in Users, HalfMade(u)', u \notin cut'
                   PROVE  HalfMade(u) /\ u \notin cut /\ u # me
        BY <2>2 DEF Settles
      <4>1. user'[u] = user[u] /\ UNCHANGED <<identity, mailed, cut>>
        BY <3>1 DEF links
      <4>2. CASE user[u].kind # "invited"
        BY <3>4, <4>1, <4>2 DEF HalfMade
      <4>3. CASE user[u].kind = "invited"
        <5>1. user[u].inv \in DOMAIN invite' /\ invite'[user[u].inv].state # "accepted"
          BY <4>1, <4>3 DEF HalfMade
        <5>2. user[u].inv # on
          BY <3>2, <5>1
        <5> QED BY <3>2, <3>4, <4>1, <4>3, <5>1, <5>2 DEF HalfMade
      <4> QED BY <4>2, <4>3
    <3> QED BY <2>2, <3>3, <3>5, Settled
  <2>9. ASSUME OIDCLink(r) PROVE IInv'
    <3> DEFINE as == req[r].as
    <3>1. /\ req[r].at = "link" /\ me \in Users
          /\ identity' = [s \in DOMAIN identity \cup {as} |-> IF s = as THEN me ELSE identity[s]]
          /\ UNCHANGED <<user, lastId, invite, lastInvite, stream, verif, mailed, cut>>
      BY <1>4, <2>9 DEF OIDCLink, At, rest
    <3>2. as \in DOMAIN identity' /\ identity'[as] = me
      BY <3>1
    <3>3. \A s \in DOMAIN identity : s # as => s \in DOMAIN identity' /\ identity'[s] = identity[s]
      BY <3>1
    <3>4. as \notin DOMAIN identity
      BY <1>4, <2>9 DEF OIDCLink
    <3>5. identity' \in [DOMAIN identity' -> 1 .. lastId]
      BY <1>1, <3>1 DEF IInv, Tables
    <3>6. Tables' /\ SameAccounts /\ SameAuthors /\ lastInvite' >= lastInvite
      BY <1>1, <3>1, <3>5 DEF IInv, Tables, Authors, SameAccounts, SameAuthors, Users
    <3>7. user[me].kind = "oidc"
      BY <1>1, <3>1 DEF Fits
    <3>8. Settles
      <4> SUFFICES ASSUME NEW u \in Users, HalfMade(u)', u \notin cut'
                   PROVE  HalfMade(u) /\ u \notin cut /\ u # me
        BY <2>2 DEF Settles
      <4>1. u # me
        BY <3>1, <3>2, <3>7 DEF HalfMade
      <4>2. HalfMade(u)
        BY <3>1, <3>3, <3>4 DEF HalfMade
      <4> QED BY <3>1, <4>1, <4>2
    <3> QED BY <2>2, <3>6, <3>8, Settled
  <2>10. ASSUME ProfileAddress(r) PROVE IInv'
    <3>1. /\ req[r].at = "address" /\ UNCHANGED <<lastId, invite, lastInvite, links, cut>>
          /\ user' = [u \in Users |-> IF u = me THEN [user[u] EXCEPT !.email = "own"] ELSE user[u]]
      BY <2>10 DEF ProfileAddress, At, rest
    <3>2. /\ Users' = Users /\ user' \in [Users' -> UserRow]
          /\ \A u \in Users :
               /\ user'[u].kind = user[u].kind /\ user'[u].admin = user[u].admin
               /\ user'[u].inv = user[u].inv /\ user'[u].verified = user[u].verified
               /\ u # me => user'[u] = user[u]
          /\ me \in Users => user'[me].email = "own"
      <4>1. \A u \in Users : user[u] \in UserRow /\ [user[u] EXCEPT !.email = "own"] \in UserRow
        BY DEF Users, IInv, Tables, UserRow, Addresses
      <4>2. Users' = Users /\ user' \in [Users' -> UserRow]
        BY <3>1, <4>1 DEF Users
      <4>3. \A u \in Users : u # me => user'[u] = user[u]
        BY <3>1 DEF Users
      <4>4. me \in Users => user'[me] = [user[me] EXCEPT !.email = "own"]
        BY <3>1 DEF Users
      <4>5. me \in Users => /\ user'[me].kind = user[me].kind /\ user'[me].admin = user[me].admin
                            /\ user'[me].inv = user[me].inv /\ user'[me].verified = user[me].verified
                            /\ user'[me].email = "own"
        BY <4>1, <4>4 DEF UserRow
      <4> QED BY <4>2, <4>3, <4>5
    <3>3. Tables' /\ SameAccounts /\ SameAuthors /\ lastInvite' >= lastInvite
      BY <1>1, <3>1, <3>2 DEF IInv, Tables, Authors, SameAccounts, SameAuthors, links
    <3>4. me \in Users => user[me].kind = "profile"
      BY <1>1, <3>1 DEF Fits
    <3>5. Settles
      <4> SUFFICES ASSUME NEW u \in Users, HalfMade(u)', u \notin cut'
                   PROVE  HalfMade(u) /\ u \notin cut /\ u # me
        BY <2>2 DEF Settles
      <4>1. u # me
        <5>1. u = me => user'[u].kind = "profile" /\ user'[u].email = "own"
          BY <3>2, <3>4
        <5> QED BY <5>1 DEF HalfMade
      <4>2. HalfMade(u)
        BY <3>1, <3>2, <4>1 DEF HalfMade, links
      <4> QED BY <3>1, <4>1, <4>2
    <3> QED BY <2>2, <3>3, <3>5, Settled
  <2> QED BY <2>3, <2>4, <2>5, <2>6, <2>7, <2>8, <2>9, <2>10
<1> QED BY <1>2, <1>3, <1>4

\* The other statements, which neither make nor complete anything.
LEMMA Continuing ==
  ASSUME IInv, NEW r \in Requests, Continue(r)
  PROVE  IInv'
<1>1. stream \in SUBSET (1 .. lastId) /\ verif \in SUBSET (1 .. lastId)
  BY DEF IInv, Tables
<1>2. CASE Done(r) /\ (SignupToken(r) \/ SignupGate(r) \/ OIDCVet(r) \/ Claim(r) \/ SetToggle(r) \/ SetGuest(r))
  <2>1. UNCHANGED <<user, lastId, invite, lastInvite, links, cut>> /\ req[r].at \notin Work
    BY <1>2 DEF SignupToken, SignupGate, OIDCVet, Claim, SetToggle, SetGuest, At, Work, db, rest
  <2> QED BY <1>1, <1>2, <2>1, Ending DEF links
<1>3. CASE StreamEnsure(r)
  <2>1. /\ Done(r) /\ req[r].at = "stream" /\ stream' = stream \cup {req[r].me}
        /\ UNCHANGED <<user, lastId, invite, lastInvite, identity, verif, mailed, cut>>
    BY <1>3 DEF StreamEnsure, At, rest
  <2>2. req[r].me \in 1 .. lastId
    BY <2>1 DEF IInv, Tables, Own, Request, Holding, Fits
  <2> QED BY <1>1, <2>1, <2>2, Ending DEF Work
<1>4. CASE SetMode(r) \/ (~Done(r) /\ (SignupToken(r) \/ SignupGate(r) \/ OIDCVet(r) \/ SetToggle(r)))
  <2>1. PICK p \in {"first", "self", "make", "toggle", "guest"} :
          /\ To(r, p) /\ UNCHANGED <<db, cut>>
          /\ \/ p \in {"first", "self", "make"} /\ req[r].at \in {"token", "gate", "vet"}
             \/ p \in {"toggle", "guest"} /\ req[r].at = "settings"
    BY <1>4 DEF SignupToken, SignupGate, OIDCVet, SetMode, SetToggle, At, db, links, rest
  <2>2. p \in Places
    BY DEF Places
  <2> QED BY <2>1, <2>2, Passing DEF Work
<1>10. CASE DeleteGuard(r)
  <2>1. At(r, "guard") /\ UNCHANGED <<user, lastId, invite, lastInvite, links, cut>> /\ req[r].at \notin Work
    BY <1>10 DEF DeleteGuard, At, Work, db, rest
  <2>2. CASE Done(r)
    BY <1>1, <2>1, <2>2, Ending DEF links
  <2>3. CASE ~Done(r)
    <3>1. PICK me \in {req[r].me, 0} :
            /\ Step(r, [req[r] EXCEPT !.at = "delete", !.me = me])
            /\ me = 0 \/ me # req[r].on
      <4>1. To(r, "delete") => Step(r, [req[r] EXCEPT !.at = "delete", !.me = req[r].me])
        BY RequestTypes DEF To, IInv, Request
      <4> QED BY <1>10, <2>3, <4>1 DEF DeleteGuard
    <3> DEFINE next == [req[r] EXCEPT !.at = "delete", !.me = me]
    <3>2. /\ next \in Request /\ next.at = "delete" /\ next.me = me /\ next.on = req[r].on
      BY RequestTypes DEF IInv, Request, Places
    <3>3. Fits(req[r]) /\ req[r].on \in Nat /\ lastId \in Nat /\ 0 \notin Users
      BY RequestTypes DEF IInv, Holding, Request, Tables
    <3> HIDE DEF next
    <3>4. Fits(next)
      BY <2>1, <3>1, <3>2, <3>3 DEF Fits, Addressed, At
    <3>5. Step(r, next)
      BY <3>1 DEF next
    <3> QED BY <1>1, <2>1, <3>2, <3>4, <3>5, Quiet DEF links
  <2> QED BY <2>2, <2>3
<1>5. Claim(r) \/ SetGuest(r) => Done(r)
  BY DEF Claim, SetGuest
<1>6. CASE SignupFirst(r) \/ SignupSelf(r) \/ Redeem(r) \/ OIDCMake(r) \/ ProfileInsert(r)
  BY <1>6, Creating
<1>7. CASE Unmail(r) \/ Unlink(r) \/ Delete(r)
  BY <1>7, Deleting
<1>8. CASE Mail(r) \/ Reverify(r) \/ InviteInsert(r) \/ Revoke(r) \/ Mark(r) \/ OIDCLink(r) \/ ProfileAddress(r)
  BY <1>8, Completing
<1>9. CASE \/ SignupToken(r) \/ SignupGate(r) \/ OIDCVet(r) \/ Claim(r)
           \/ SetToggle(r) \/ SetMode(r) \/ SetGuest(r)
  BY <1>2, <1>4, <1>5, <1>9
<1> QED BY <1>3, <1>6, <1>7, <1>8, <1>9, <1>10 DEF Continue

-----------------------------------------------------------------------------
(* The invariant and what follows from it.                                 *)

LEMMA Starting == Init => IInv
<1> SUFFICES ASSUME Init PROVE IInv
  OBVIOUS
<1>1. Users = {} /\ DOMAIN invite = {} /\ DOMAIN identity = {}
  BY DEF Init, NoRows, Users
<1>2. Tables /\ Authors /\ OneFirst /\ NoHalfMade
  BY <1>1 DEF Init, NoRows, Tables, Authors, OneFirst, NoHalfMade, Users
<1>3. Idle \in Request /\ Own
  BY DEF Init, Idle, Request, Places, Own
<1>4. Holding
  BY <1>2, IdleFits DEF Init, Holding
<1> QED BY <1>2, <1>3, <1>4 DEF IInv

LEMMA Stuttering == IInv /\ UNCHANGED vars => IInv'
<1> SUFFICES ASSUME IInv, UNCHANGED vars PROVE IInv'
  OBVIOUS
<1>1. UNCHANGED <<user, lastId, invite, lastInvite, identity, stream, verif, mailed, cut, req>>
  BY DEF vars, db, rest, links
<1>2. Tables' /\ Own' /\ SameAccounts /\ SameAuthors /\ lastInvite' >= lastInvite
  BY <1>1 DEF IInv, Tables, Own, Authors, SameAccounts, SameAuthors, Users
<1>3. Settles
  BY <1>1 DEF Settles, HalfMade, Users
<1> QED BY <1>1, <1>2, <1>3, Settled

\* The steps that are nobody's.
LEMMA Outside ==
  ASSUME IInv, NEW x,
         \/ x \in Users /\ (Verify(x) \/ LinkExpires(x))
         \/ x \in DOMAIN invite /\ InviteExpires(x)
  PROVE  IInv'
<1>1. Own' /\ \A r \in Requests : req'[r] = req[r]
  BY DEF Verify, LinkExpires, InviteExpires, IInv, Own
<1>2. ASSUME x \in Users, Verify(x) PROVE IInv'
  <2>1. /\ UNCHANGED <<lastId, invite, lastInvite, identity, stream, mailed, cut>>
        /\ verif' = verif \ {x} /\ user' = [user EXCEPT ![x].verified = TRUE]
    BY <1>2 DEF Verify
  <2>2. /\ Users' = Users /\ user' \in [Users' -> UserRow]
        /\ \A u \in Users :
             /\ user'[u].kind = user[u].kind /\ user'[u].admin = user[u].admin
             /\ user'[u].inv = user[u].inv /\ user'[u].email = user[u].email
             /\ user[u].verified => user'[u].verified
    BY <2>1 DEF Users, IInv, Tables, UserRow
  <2>3. Tables' /\ SameAccounts /\ SameAuthors /\ lastInvite' >= lastInvite
    BY <2>1, <2>2 DEF IInv, Tables, Authors, SameAccounts, SameAuthors
  <2>4. Settles
    <3> SUFFICES ASSUME NEW u \in Users, HalfMade(u)' PROVE HalfMade(u)
      BY <1>1, <2>1 DEF Settles
    <3>1. UNCHANGED <<invite, identity, mailed>>
      BY <2>1
    <3> QED BY <2>2, <3>1 DEF HalfMade
  <2> QED BY <1>1, <2>3, <2>4, Settled
<1>3. ASSUME LinkExpires(x) PROVE IInv'
  <2>1. UNCHANGED <<user, lastId, invite, lastInvite, identity, stream, mailed, cut>> /\ verif' = verif \ {x}
    BY <1>3 DEF LinkExpires
  <2>2. Tables' /\ SameAccounts /\ SameAuthors /\ lastInvite' >= lastInvite
    BY <2>1 DEF IInv, Tables, Authors, SameAccounts, SameAuthors, Users
  <2>3. Settles
    BY <1>1, <2>1 DEF Settles, HalfMade, Users
  <2> QED BY <1>1, <2>2, <2>3, Settled
<1>4. ASSUME x \in DOMAIN invite, InviteExpires(x) PROVE IInv'
  <2>1. /\ UNCHANGED <<user, lastId, lastInvite, links, cut>> /\ invite[x].state = "pending"
        /\ invite' = [invite EXCEPT ![x].state = "expired"]
    BY <1>4 DEF InviteExpires
  <2>2. /\ DOMAIN invite' = DOMAIN invite /\ invite' \in [DOMAIN invite' -> InviteRow]
        /\ \A i \in DOMAIN invite : invite'[i].by = invite[i].by /\ (i # x => invite'[i] = invite[i])
    BY <1>4, <2>1 DEF IInv, Tables, InviteRow
  <2>3. Tables' /\ SameAccounts /\ SameAuthors /\ lastInvite' >= lastInvite
    BY <2>1, <2>2 DEF IInv, Tables, Authors, SameAccounts, SameAuthors, Users, links
  <2>4. Settles
    <3> SUFFICES ASSUME NEW u \in Users, HalfMade(u)', u \notin cut'
                 PROVE  HalfMade(u) /\ u \notin cut
      BY <1>1 DEF Settles
    <3>1. user'[u] = user[u] /\ UNCHANGED <<identity, mailed, cut>>
      BY <2>1 DEF links
    <3>2. invite[x].state # "accepted"
      BY <2>1
    <3> QED BY <2>2, <3>1, <3>2 DEF HalfMade
  <2> QED BY <1>1, <2>3, <2>4, Settled
<1> QED BY <1>2, <1>3, <1>4

LEMMA Restarting == IInv /\ Restart => IInv'
<1> SUFFICES ASSUME IInv, Restart PROVE IInv'
  OBVIOUS
<1>1. /\ UNCHANGED <<user, lastId, invite, lastInvite, links>>
      /\ req' = [r \in Requests |-> Idle]
      /\ cut' = cut \cup ({req[r].me : r \in {s \in Requests : req[s].at \in Work}} \cap Users)
  BY DEF Restart, Work
<1>2. Own' /\ \A r \in Requests : req'[r] = Idle
  BY <1>1 DEF Own, Idle, Request, Places
<1>3. Tables' /\ SameAccounts /\ SameAuthors /\ lastInvite' >= lastInvite
  BY <1>1 DEF IInv, Tables, Authors, SameAccounts, SameAuthors, Users, links
<1>4. \A u \in Users : HalfMade(u) => u \in cut'
  BY <1>1 DEF IInv, NoHalfMade, WorkingOn, Work
<1>5. \A u \in Users : HalfMade(u)' => HalfMade(u)
  BY <1>1 DEF HalfMade, links
<1>6. Settles
  BY <1>4, <1>5 DEF Settles
<1> QED BY <1>2, <1>3, <1>6, Settled

\* IInv is inductive: what a request remembers is still so, or the account is gone.
THEOREM Invariance == Spec => []IInv
<1>1. IInv /\ [Next]_vars => IInv'
  <2> SUFFICES ASSUME IInv, [Next]_vars PROVE IInv'
    OBVIOUS
  <2>1. CASE \E r \in Requests : Arrive(r) \/ Continue(r)
    BY <2>1, Arriving, Continuing
  <2>2. CASE \E u \in Users : Verify(u) \/ LinkExpires(u)
    <3>1. PICK u \in Users : Verify(u) \/ LinkExpires(u)
      BY <2>2
    <3> QED BY <3>1, Outside
  <2>3. CASE \E i \in DOMAIN invite : InviteExpires(i)
    <3>1. PICK i \in DOMAIN invite : InviteExpires(i)
      BY <2>3
    <3> QED BY <3>1, Outside
  <2> QED BY <2>1, <2>2, <2>3, Restarting, Stuttering DEF Next
<1> QED BY <1>1, Starting, PTL DEF Spec

\* A half-made account is somebody's work in progress, or a crash has left it.
THEOREM HalfMadeSafe == Spec => []NoHalfMade
BY Invariance, PTL DEF IInv

\* There is one first administrator at most.
THEOREM BootstrapSafe == Spec => []OneBootstrap
<1>1. ASSUME IInv PROVE OneBootstrap
  <2> DEFINE S == {u \in Users : user[u].kind = "first"}
  <2>1. CASE S = {}
    BY <2>1, FS_EmptySet DEF OneBootstrap
  <2>2. CASE S # {}
    <3>1. PICK u : u \in S
      BY <2>2
    <3>2. S = {u}
      BY <1>1, <3>1 DEF IInv, OneFirst
    <3>3. Cardinality({u}) = 1
      BY FS_Singleton
    <3> QED BY <3>2, <3>3 DEF OneBootstrap
  <2> QED BY <2>1, <2>2
<1> QED BY <1>1, Invariance, PTL

-----------------------------------------------------------------------------
(* What a step may do to the accounts.                                     *)

\* It leaves them, but for the personal stream of the account that asks for it.
Keeps ==
  /\ Users' = Users /\ \A u \in Users : user'[u].admin = user[u].admin
  /\ stream' \subseteq stream \cup {req[r].me : r \in {s \in Requests : At(s, "stream")}}
\* It adds the one with the next id.
Adds ==
  /\ Users' = Users \cup {lastId + 1} /\ lastId + 1 \notin Users /\ stream' = stream
  /\ \A u \in Users : user'[u] = user[u]
\* It takes away the account a request is about.
Takes ==
  \E r \in Requests, x \in Nat :
    /\ Users' = Users \ {x} /\ stream' = stream \ {x}
    /\ \A u \in Users \ {x} : user'[u] = user[u]
    /\ \/ At(r, "delete") /\ Done(r) /\ x = req[r].on
       \/ req[r].at \in {"unmail", "unlink"} /\ x = req[r].me

LEMMA Removal ==
  ASSUME NEW x, Remove(x), IInv
  PROVE  \/ UNCHANGED <<user, stream>>
         \/ /\ Users' = Users \ {x} /\ stream' = stream \ {x}
            /\ \A u \in Users \ {x} : user'[u] = user[u]
BY DEF Remove, Without, Users, links

LEMMA Effects ==
  ASSUME IInv, [Next]_vars
  PROVE  Keeps \/ Adds \/ Takes
<1>1. UNCHANGED <<user, stream>> => Keeps
  BY DEF Keeps, Users
<1>2. CASE UNCHANGED vars
  BY <1>1, <1>2 DEF vars, db, links
<1>3. CASE Restart
  BY <1>1, <1>3 DEF Restart, links
<1>4. CASE \E i \in DOMAIN invite : InviteExpires(i)
  BY <1>1, <1>4 DEF InviteExpires, links
<1>5. ASSUME NEW u \in Users, Verify(u) \/ LinkExpires(u) PROVE Keeps
  <2>1. CASE Verify(u)
    <3>1. stream' = stream /\ user' = [user EXCEPT ![u].verified = TRUE]
      BY <2>1 DEF Verify
    <3>2. Users' = Users /\ \A v \in Users : user'[v].admin = user[v].admin
      BY <3>1 DEF Users, IInv, Tables, UserRow
    <3> QED BY <3>1, <3>2 DEF Keeps
  <2>2. CASE LinkExpires(u)
    BY <1>1, <2>2 DEF LinkExpires
  <2> QED BY <1>5, <2>1, <2>2
<1>6. ASSUME NEW r \in Requests, Arrive(r) PROVE Keeps
  BY <1>1, <1>6, Arriving DEF db, links
<1>7. ASSUME NEW r \in Requests, Continue(r) PROVE Keeps \/ Adds \/ Takes
  <2>1. CASE \/ SignupToken(r) \/ SignupGate(r) \/ Claim(r) \/ Mail(r) \/ Reverify(r) \/ InviteInsert(r)
             \/ Revoke(r) \/ Mark(r) \/ OIDCVet(r) \/ OIDCLink(r) \/ SetMode(r) \/ SetToggle(r)
             \/ SetGuest(r) \/ DeleteGuard(r)
    <3>1. UNCHANGED <<user, stream>>
      BY <2>1 DEF SignupToken, SignupGate, Claim, Mail, Reverify, InviteInsert, Revoke, Mark, OIDCVet,
                  OIDCLink, SetMode, SetToggle, SetGuest, DeleteGuard, db, links
    <3> QED BY <1>1, <3>1
  <2>2. CASE StreamEnsure(r)
    <3>1. At(r, "stream") /\ user' = user /\ stream' = stream \cup {req[r].me}
      BY <2>2 DEF StreamEnsure
    <3> QED BY <3>1 DEF Keeps, Users
  <2>3. CASE ProfileAddress(r)
    <3>1. /\ stream' = stream
          /\ user' = [u \in Users |-> IF u = req[r].me THEN [user[u] EXCEPT !.email = "own"] ELSE user[u]]
      BY <2>3 DEF ProfileAddress, links
    <3>2. \A u \in Users : user[u] \in UserRow
      BY DEF IInv, Tables, Users
    <3>3. Users' = Users /\ \A u \in Users : user'[u].admin = user[u].admin
      BY <3>1, <3>2 DEF Users, UserRow
    <3> QED BY <3>1, <3>3 DEF Keeps
  <2>4. CASE Delete(r)
    <3>1. Remove(req[r].on) /\ At(r, "delete") /\ Done(r) /\ req[r].on \in Nat
      BY <2>4 DEF Delete, IInv, Own, Request
    <3> QED BY <1>1, <3>1, Removal DEF Takes
  <2>5. CASE Unmail(r) \/ Unlink(r)
    <3>1. Remove(req[r].me) /\ req[r].at \in {"unmail", "unlink"} /\ req[r].me \in Nat
      BY <2>5 DEF Unmail, Unlink, At, IInv, Own, Request
    <3> QED BY <1>1, <3>1, Removal DEF Takes
  <2>6. CASE SignupFirst(r) \/ SignupSelf(r) \/ Redeem(r) \/ OIDCMake(r) \/ ProfileInsert(r)
    <3>1. CASE Refused(r)
      BY <1>1, <3>1 DEF Refused, links
    <3>2. CASE ~Refused(r)
      <4>1. \E kind \in Kinds : \E e, admin, verified, inv : Insert(kind, e, admin, verified, inv)
        BY <2>6, <3>2 DEF SignupFirst, SignupSelf, Redeem, OIDCMake, ProfileInsert, Kinds
      <4>2. stream' = stream
        BY <2>6, <3>2 DEF SignupFirst, SignupSelf, Redeem, OIDCMake, ProfileInsert, links
      <4>3. lastId + 1 \notin Users
        BY DEF IInv, Tables
      <4> QED BY <4>1, <4>2, <4>3 DEF Insert, NewId, Adds, Users
    <3> QED BY <3>1, <3>2
  <2> QED BY <1>7, <2>1, <2>2, <2>3, <2>4, <2>5, <2>6 DEF Continue
<1> QED BY <1>2, <1>3, <1>4, <1>5, <1>6, <1>7 DEF Next, Keeps

\* A new account inherits nothing: no row bore its id, nobody was acting under it.
THEOREM FreshSafe == Spec => FreshStart
<1>1. ASSUME IInv, [Next]_vars
      PROVE  \A u \in Users' \ Users :
               /\ u \notin stream \cup verif \cup mailed
               /\ \A s \in DOMAIN identity : identity[s] # u
               /\ \A r \in Requests : req[r].me # u
  <2>1. Users' \subseteq Users \cup {lastId + 1}
    BY <1>1, Effects DEF Keeps, Adds, Takes
  <2>2. lastId \in Nat /\ \A r \in Requests : req[r].me \in Nat /\ req[r].me <= lastId
    BY <1>1 DEF IInv, Tables, Own, Request, Holding, Fits
  <2>3. \A s \in DOMAIN identity : identity[s] \in 1 .. lastId
    BY <1>1 DEF IInv, Tables
  <2>4. stream \cup verif \cup mailed \subseteq 1 .. lastId
    BY <1>1 DEF IInv, Tables
  <2> QED BY <2>1, <2>2, <2>3, <2>4
<1> QED BY <1>1, Invariance, PTL DEF Spec, FreshStart

\* The last administrator is deleted only by a request whose author has been deleted, or
\* had no session any more when deleteUser looked for it the second time.
THEOREM AdminSafe == Spec => AdminRemains
<1>1. ASSUME IInv, [Next]_vars
      PROVE  Admins # {} /\ Admins' = {} => \E r \in Requests : At(r, "delete") /\ Done(r) /\ req[r].me \notin Users
  <2> SUFFICES ASSUME NEW a \in Admins, Admins' = {}
               PROVE  \E r \in Requests : At(r, "delete") /\ Done(r) /\ req[r].me \notin Users
    OBVIOUS
  <2>1. a \in Users /\ user[a].admin
    BY DEF Admins
  <2>2. \A u \in Users' : ~user'[u].admin
    BY DEF Admins
  <2>3. ~Keeps /\ ~Adds
    BY <2>1, <2>2 DEF Keeps, Adds
  <2>4. PICK r \in Requests, x \in Nat :
          /\ Users' = Users \ {x} /\ \A u \in Users \ {x} : user'[u] = user[u]
          /\ \/ At(r, "delete") /\ Done(r) /\ x = req[r].on
             \/ req[r].at \in {"unmail", "unlink"} /\ x = req[r].me
    BY <1>1, <2>3, Effects DEF Takes
  <2>5. a = x
    BY <2>1, <2>2, <2>4
  <2>6. Fits(req[r])
    BY <1>1 DEF IInv, Holding
  <2>7. At(r, "delete") /\ Done(r) /\ req[r].me # x
    BY <2>1, <2>4, <2>5, <2>6 DEF Fits, At
  <2>8. req[r].me \in Users => user[req[r].me].admin
    BY <2>6, <2>7 DEF Fits, At
  <2> QED BY <2>2, <2>4, <2>7, <2>8
<1> QED BY <1>1, Invariance, PTL DEF Spec, AdminRemains

\* A personal stream without its account comes only from a request of the account that was
\* under way when it was deleted.
THEOREM PersonalSafe == Spec => PersonalOwned
<1>1. ASSUME IInv, [Next]_vars
      PROVE  \A u \in stream' \ Users' :
               u \in stream \ Users \/ \E r \in Requests : At(r, "stream") /\ req[r].me = u
  BY <1>1, Effects DEF Keeps, Adds, Takes
<1> QED BY <1>1, Invariance, PTL DEF Spec, PersonalOwned
=============================================================================
