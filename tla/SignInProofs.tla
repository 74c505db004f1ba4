---------------------------- MODULE SignInProofs ----------------------------
(***************************************************************************)
(* Proofs about SignIn, for any number of requests, tickets, secrets,      *)
(* recovery codes and crashes.                                             *)
(***************************************************************************)
EXTENDS SignIn, TLAPS

\* Types of the variables that the requests share, and of the requests.
Shared ==
  /\ pw \in Nat /\ sessions \in SUBSET [pw : Nat, late : BOOLEAN]
  /\ ticket \in [Tickets -> Nat \cup {None}]
  /\ factor \in Factor \cup {NoFactor} /\ lastSecret \in Nat
  /\ batch \in Nat /\ lastBatch \in Nat /\ now \in Nat
  /\ spent \in SUBSET Nat
Own == req \in [Requests -> Request]

\* A request that is enrolling: it writes the factor that it read.
Enrolling(r) == At(r, "enable") \/ (At(r, "codes") /\ For(r, "enroll"))

\* What the requests have read.
Kept(r) ==
  /\ req[r].at \in {"challenge", "accept"} => req[r].goal \in {"complete", "disable", "regenerate"}
  /\ At(r, "accept") => /\ req[r].fac \in Factor /\ req[r].fac.on /\ req[r].fac.sec <= lastSecret
                        /\ req[r].fac.sec = factor.sec => factor.on
  /\ Enrolling(r) => /\ req[r].fac \in Factor /\ req[r].fac.sec <= lastSecret
                     /\ req[r].fac.sec \in proven
Secrets == factor.sec <= lastSecret /\ (~factor.on => spent = {})
Readings == \A r \in Requests : Kept(r)

Spends == \A t \in spent : t <= factor.last \/ factor.sec \in enabled2

\* What is deleted at the end of a factor is not that of one being enrolled.
Apart ==
  \/ crossed
  \/ /\ \A r \in Requests : At(r, "enable") => batch # 0
     /\ \A r, s \in Requests : At(r, "clear") => ~factor.on /\ ~Enrolling(s)

\* The parts that speak of the tables alone, and those that speak of the requests too.
Tables == Shared /\ Secrets /\ Spends /\ ConfirmedSecret /\ NoReplay /\ EnabledHasCodes
Runs == Own /\ Readings /\ Apart /\ ResetEndsSessions

IInv == Tables /\ Runs

-----------------------------------------------------------------------------
(* A step of a request changes the place of that request.                  *)

LEMMA Goes ==
  ASSUME Own, NEW r \in Requests, NEW next \in Request, Step(r, next)
  PROVE  /\ Own'
         /\ \A s \in Requests : req'[s] = IF s = r THEN next ELSE req[s]
BY DEF Own, Step

LEMMA RequestTypes ==
  ASSUME Own, NEW r \in Requests
  PROVE  /\ Idle \in Request /\ req[r] \in Request
         /\ \A p \in Places : [req[r] EXCEPT !.at = p] \in Request
BY DEF Own, Request, Idle, Places, Goals, NoFactor

LEMMA FactorIs == Shared => factor \in Factor \/ factor = NoFactor
BY DEF Shared

\* What the tables promise does not depend on the requests.
LEMMA Untouched ==
  ASSUME Tables, UNCHANGED <<pw, sessions, factors, ghosts>>,
         ticket' \in [Tickets -> Nat \cup {None}], now' \in Nat
  PROVE  Tables'
BY DEF Tables, Shared, Secrets, Spends, ConfirmedSecret, NoReplay, EnabledHasCodes, factors, ghosts

\* A session that was there stays excused while the reset goes on.
LEMMA SessionsStay ==
  ASSUME ResetEndsSessions, Own, NEW r \in Requests, NEW next \in Request, Step(r, next),
         ~At(r, "purge"), UNCHANGED <<pw, sessions, cut>>
  PROVE  ResetEndsSessions'
BY Goes DEF ResetEndsSessions, At

\* A request that goes on to a place where it neither enrols nor clears.
LEMMA Moves ==
  ASSUME IInv, NEW r \in Requests, NEW next \in Request, Step(r, next),
         ~At(r, "purge"), UNCHANGED <<pw, sessions, cut, factors, ghosts>>,
         ticket' \in [Tickets -> Nat \cup {None}], now' \in Nat,
         next.at \notin {"enable", "clear"}, next.at = "codes" => next.goal # "enroll",
         next.at \in {"challenge", "accept"} => next.goal \in {"complete", "disable", "regenerate"},
         next.at = "accept" => next.fac = factor /\ factor.on
  PROVE  IInv'
<1>1. Own' /\ \A s \in Requests : req'[s] = IF s = r THEN next ELSE req[s]
  BY Goes DEF IInv, Runs
<1>2. Tables'
  BY Untouched DEF IInv
<1>3. Readings'
  <2> SUFFICES ASSUME NEW s \in Requests PROVE Kept(s)'
    BY DEF Readings
  <2>1. CASE s = r
    BY <1>1, <2>1, FactorIs DEF IInv, Tables, Shared, Secrets, Kept, Enrolling, At, For, factors, NoFactor
  <2>2. CASE s # r
    BY <1>1, <2>2 DEF IInv, Runs, Readings, Kept, Enrolling, At, For, factors, ghosts
  <2> QED BY <2>1, <2>2
<1>4. Apart'
  BY <1>1 DEF IInv, Runs, Apart, Enrolling, At, For, factors, ghosts
<1>5. ResetEndsSessions'
  BY SessionsStay DEF IInv, Runs
<1> QED BY <1>1, <1>2, <1>3, <1>4, <1>5 DEF IInv, Runs

-----------------------------------------------------------------------------
(* One lemma per action.                                                   *)

LEMMA LoginKeeps == ASSUME IInv, NEW r \in Requests, Login(r) PROVE IInv'
<1> DEFINE next == [Idle EXCEPT !.at = "factor", !.pw = pw]
<1>1. Idle \in Request /\ req[r] \in Request /\ pw \in Nat
  BY RequestTypes DEF IInv, Tables, Runs, Shared
<1>2. next \in Request
  BY <1>1 DEF Request, Places, Goals
<1>3. Step(r, next)
  BY DEF Login, Arrives, To
<1>4. UNCHANGED <<pw, sessions, cut, factors, ghosts>> /\ ~At(r, "purge")
  BY DEF Login, Arrives, At, credentials
<1>5. ticket' \in [Tickets -> Nat \cup {None}] /\ now' \in Nat
  BY DEF IInv, Tables, Runs, Shared, Own, Request, Login, credentials
<1> QED BY <1>2, <1>3, <1>4, <1>5, Moves DEF Idle, IInv, Runs, Own, Request

LEMMA LoginFactorKeeps == ASSUME IInv, NEW r \in Requests, LoginFactor(r) PROVE IInv'
<1> DEFINE next == [req[r] EXCEPT !.at = IF factor.on THEN "ticket" ELSE "session"]
<1>1. Idle \in Request /\ req[r] \in Request /\ pw \in Nat
  BY RequestTypes DEF IInv, Tables, Runs, Shared
<1>2. next \in Request
  BY <1>1 DEF Request, Places, Goals
<1>3. Step(r, next)
  BY DEF LoginFactor, To, To
<1>4. UNCHANGED <<pw, sessions, cut, factors, ghosts>> /\ ~At(r, "purge")
  BY DEF LoginFactor, Arrives, At, credentials
<1>5. ticket' \in [Tickets -> Nat \cup {None}] /\ now' \in Nat
  BY DEF IInv, Tables, Runs, Shared, Own, Request, LoginFactor, credentials
<1> QED BY <1>2, <1>3, <1>4, <1>5, Moves DEF Idle, IInv, Runs, Own, Request

LEMMA TicketKeeps == ASSUME IInv, NEW r \in Requests, NEW t \in Tickets, Ticket(r, t) PROVE IInv'
<1> DEFINE next == Idle
<1>1. Idle \in Request /\ req[r] \in Request /\ pw \in Nat
  BY RequestTypes DEF IInv, Tables, Runs, Shared
<1>2. next \in Request
  BY <1>1 DEF Request, Places, Goals
<1>3. Step(r, next)
  BY DEF Ticket, Done, To
<1>4. UNCHANGED <<pw, sessions, cut, factors, ghosts>> /\ ~At(r, "purge")
  BY DEF Ticket, Arrives, At, credentials
<1>5. ticket' \in [Tickets -> Nat \cup {None}] /\ now' \in Nat
  BY DEF IInv, Tables, Runs, Shared, Own, Request, Ticket, credentials
<1> QED BY <1>2, <1>3, <1>4, <1>5, Moves DEF Idle, IInv, Runs, Own, Request

LEMMA CompleteKeeps == ASSUME IInv, NEW r \in Requests, NEW t \in Tickets, Complete(r, t) PROVE IInv'
<1> DEFINE next == [Idle EXCEPT !.at = "challenge", !.goal = "complete", !.pw = ticket[t]]
<1>1. Idle \in Request /\ req[r] \in Request /\ pw \in Nat /\ ticket[t] \in Nat
  BY RequestTypes DEF IInv, Tables, Runs, Shared, Complete
<1>2. next \in Request
  BY <1>1 DEF Request, Places, Goals
<1>3. Step(r, next)
  BY DEF Complete, Arrives, To
<1>4. UNCHANGED <<pw, sessions, cut, factors, ghosts>> /\ ~At(r, "purge")
  BY DEF Complete, Arrives, At, credentials
<1>5. ticket' \in [Tickets -> Nat \cup {None}] /\ now' \in Nat
  BY DEF IInv, Tables, Runs, Shared, Own, Request, Complete, credentials
<1> QED BY <1>2, <1>3, <1>4, <1>5, Moves DEF Idle, IInv, Runs, Own, Request

LEMMA ManageKeeps == ASSUME IInv, NEW r \in Requests, NEW goal \in {"disable", "regenerate"}, Manage(r, goal) PROVE IInv'
<1> DEFINE next == [Idle EXCEPT !.at = "challenge", !.goal = goal]
<1>1. Idle \in Request /\ req[r] \in Request /\ pw \in Nat
  BY RequestTypes DEF IInv, Tables, Runs, Shared
<1>2. next \in Request
  BY <1>1 DEF Request, Places, Goals
<1>3. Step(r, next)
  BY DEF Manage, Arrives, To
<1>4. UNCHANGED <<pw, sessions, cut, factors, ghosts>> /\ ~At(r, "purge")
  BY DEF Manage, Arrives, At, credentials
<1>5. ticket' \in [Tickets -> Nat \cup {None}] /\ now' \in Nat
  BY DEF IInv, Tables, Runs, Shared, Own, Request, Manage, credentials
<1> QED BY <1>2, <1>3, <1>4, <1>5, Moves DEF Idle, IInv, Runs, Own, Request

LEMMA RejectKeeps == ASSUME IInv, NEW r \in Requests, Reject(r) PROVE IInv'
<1> DEFINE next == Idle
<1>1. Idle \in Request /\ req[r] \in Request /\ pw \in Nat
  BY RequestTypes DEF IInv, Tables, Runs, Shared
<1>2. next \in Request
  BY <1>1 DEF Request, Places, Goals
<1>3. Step(r, next)
  BY DEF Reject, Done, To
<1>4. UNCHANGED <<pw, sessions, cut, factors, ghosts>> /\ ~At(r, "purge")
  BY DEF Reject, Arrives, At, credentials
<1>5. ticket' \in [Tickets -> Nat \cup {None}] /\ now' \in Nat
  BY DEF IInv, Tables, Runs, Shared, Own, Request, Reject, credentials
<1> QED BY <1>2, <1>3, <1>4, <1>5, Moves DEF Idle, IInv, Runs, Own, Request

LEMMA BeginReadKeeps == ASSUME IInv, NEW r \in Requests, BeginRead(r) PROVE IInv'
<1> DEFINE next == [Idle EXCEPT !.at = "begin", !.goal = "enroll"]
<1>1. Idle \in Request /\ req[r] \in Request /\ pw \in Nat
  BY RequestTypes DEF IInv, Tables, Runs, Shared
<1>2. next \in Request
  BY <1>1 DEF Request, Places, Goals
<1>3. Step(r, next)
  BY DEF BeginRead, Arrives, To
<1>4. UNCHANGED <<pw, sessions, cut, factors, ghosts>> /\ ~At(r, "purge")
  BY DEF BeginRead, Arrives, At, credentials
<1>5. ticket' \in [Tickets -> Nat \cup {None}] /\ now' \in Nat
  BY DEF IInv, Tables, Runs, Shared, Own, Request, BeginRead, credentials
<1> QED BY <1>2, <1>3, <1>4, <1>5, Moves DEF Idle, IInv, Runs, Own, Request

LEMMA ResetKeeps == ASSUME IInv, NEW r \in Requests, Reset(r) PROVE IInv'
<1> DEFINE next == [Idle EXCEPT !.at = "password", !.goal = "reset"]
<1>1. Idle \in Request /\ req[r] \in Request /\ pw \in Nat
  BY RequestTypes DEF IInv, Tables, Runs, Shared
<1>2. next \in Request
  BY <1>1 DEF Request, Places, Goals
<1>3. Step(r, next)
  BY DEF Reset, Arrives, To
<1>4. UNCHANGED <<pw, sessions, cut, factors, ghosts>> /\ ~At(r, "purge")
  BY DEF Reset, Arrives, At, credentials
<1>5. ticket' \in [Tickets -> Nat \cup {None}] /\ now' \in Nat
  BY DEF IInv, Tables, Runs, Shared, Own, Request, Reset, credentials
<1> QED BY <1>2, <1>3, <1>4, <1>5, Moves DEF Idle, IInv, Runs, Own, Request

LEMMA ChallengeKeeps == ASSUME IInv, NEW r \in Requests, Challenge(r) PROVE IInv'
<1>1. Idle \in Request /\ req[r] \in Request /\ factor \in Factor \cup {NoFactor}
  BY RequestTypes DEF IInv, Tables, Runs, Shared
<1>2. UNCHANGED <<pw, sessions, cut, factors, ghosts>> /\ ~At(r, "purge")
  BY DEF Challenge, At, credentials
<1>3. ticket' \in [Tickets -> Nat \cup {None}] /\ now' \in Nat
  BY DEF IInv, Tables, Shared, Challenge, credentials
<1>4. CASE factor.on
  <2> DEFINE next == [req[r] EXCEPT !.at = "accept", !.fac = factor]
  <2>1. next \in Request /\ next.at = "accept" /\ next.fac = factor /\ next.goal = req[r].goal
    BY <1>1 DEF Request, Places
  <2>2. Step(r, next)
    BY <1>4 DEF Challenge
  <2>3. req[r].goal \in {"complete", "disable", "regenerate"}
    BY DEF IInv, Runs, Readings, Kept, Challenge, At
  <2> HIDE DEF next
  <2> QED BY <1>2, <1>3, <1>4, <2>1, <2>2, <2>3, Moves
<1>5. CASE ~factor.on
  <2>1. Step(r, Idle)
    BY <1>5 DEF Challenge, Done
  <2>2. Idle.at = "idle"
    BY DEF Idle
  <2> QED BY <1>1, <1>2, <1>3, <2>1, <2>2, Moves
<1> QED BY <1>4, <1>5

\* A code accepted of the secret that is stored is later than all that were: for it to be
\* one of them, a second enrolment must have put the last accepted period back.
LEMMA AcceptCodeKeeps ==
  ASSUME IInv, NEW r \in Requests, NEW t \in 1 .. MaxTime + 1, AcceptCode(r, t) PROVE IInv'
<1> DEFINE next == IF Newer(req[r].fac, t) THEN [req[r] EXCEPT !.at = Onward[req[r].goal]] ELSE Idle
<1>1. req[r].goal \in {"complete", "disable", "regenerate"} /\ req[r].fac.on
      /\ (req[r].fac.sec = factor.sec => factor.on)
  BY DEF IInv, Runs, Readings, Kept, AcceptCode, At
<1>2. Onward[req[r].goal] \in {"session", "drop", "codes"}
      /\ (Onward[req[r].goal] = "codes" => req[r].goal = "regenerate")
  BY <1>1 DEF Onward
<1>3. next \in Request
  <2>1. Onward[req[r].goal] \in Places /\ Idle \in Request /\ req[r] \in Request
    BY <1>2, RequestTypes DEF Places, IInv, Runs
  <2> QED BY <2>1 DEF Request
<1>4. Step(r, next) /\ At(r, "accept")
  BY DEF AcceptCode, Done, To
<1>5. next.at \notin {"enable", "clear", "challenge", "accept"} /\ (next.at = "codes" => next.goal # "enroll")
  <2>1. req[r] \in Request
    BY RequestTypes DEF IInv, Runs
  <2> QED BY <1>2, <2>1 DEF Idle, Request
<1> HIDE DEF next
<1>6. Own' /\ \A s \in Requests : req'[s] = IF s = r THEN next ELSE req[s]
  BY <1>3, <1>4, Goes DEF IInv, Runs
<1>7. Shared' /\ factor'.sec = factor.sec /\ factor'.on = factor.on
  BY FactorIs DEF IInv, Tables, Shared, AcceptCode, Newer, Factor, NoFactor, credentials
<1>8. Secrets'
  BY <1>1, <1>7 DEF IInv, Tables, Secrets, AcceptCode, credentials
<1>9. ConfirmedSecret' /\ EnabledHasCodes'
  BY <1>7 DEF IInv, Tables, ConfirmedSecret, EnabledHasCodes, AcceptCode
<1>10. Spends'
  BY FactorIs DEF IInv, Tables, Shared, Spends, AcceptCode, Newer, Factor, NoFactor
<1>11. NoReplay'
  BY FactorIs DEF IInv, Tables, Shared, Spends, NoReplay, AcceptCode, Newer, Factor, NoFactor
<1>12. Readings'
  <2> SUFFICES ASSUME NEW s \in Requests PROVE Kept(s)'
    BY DEF Readings
  <2>1. CASE s = r
    BY <1>5, <1>6, <2>1 DEF Kept, Enrolling, At, For
  <2>2. CASE s # r
    BY <1>6, <1>7, <2>2 DEF IInv, Runs, Readings, Kept, Enrolling, At, For, AcceptCode
  <2> QED BY <2>1, <2>2
<1>13. Apart'
  BY <1>5, <1>6, <1>7 DEF IInv, Runs, Apart, Enrolling, At, For, AcceptCode
<1>14. ResetEndsSessions'
  BY <1>3, <1>4, SessionsStay DEF IInv, Runs, At, AcceptCode, credentials
<1> QED BY <1>6, <1>7, <1>8, <1>9, <1>10, <1>11, <1>12, <1>13, <1>14 DEF IInv, Tables, Runs

LEMMA AcceptRecoveryKeeps ==
  ASSUME IInv, NEW r \in Requests, NEW b \in 1 .. MaxBatches, AcceptRecovery(r, b) PROVE IInv'
<1> DEFINE next == IF b = batch /\ unused THEN [req[r] EXCEPT !.at = Onward[req[r].goal]] ELSE Idle
<1>1. req[r].goal \in {"complete", "disable", "regenerate"}
  BY DEF IInv, Runs, Readings, Kept, AcceptRecovery, At
<1>2. Onward[req[r].goal] \in {"session", "drop", "codes"}
      /\ (Onward[req[r].goal] = "codes" => req[r].goal = "regenerate")
  BY <1>1 DEF Onward
<1>3. next \in Request
  <2>1. Onward[req[r].goal] \in Places /\ Idle \in Request /\ req[r] \in Request
    BY <1>2, RequestTypes DEF Places, IInv, Runs
  <2> QED BY <2>1 DEF Request
<1>4. Step(r, next) /\ ~At(r, "purge")
  BY DEF AcceptRecovery, Done, To, At
<1>5. next.at \notin {"enable", "clear", "challenge", "accept"} /\ (next.at = "codes" => next.goal # "enroll")
  <2>1. req[r] \in Request
    BY RequestTypes DEF IInv, Runs
  <2> QED BY <1>2, <2>1 DEF Idle, Request
<1> HIDE DEF next
<1>6. Own' /\ \A s \in Requests : req'[s] = IF s = r THEN next ELSE req[s]
  BY <1>3, <1>4, Goes DEF IInv, Runs
<1>7. Tables'
  BY DEF IInv, Tables, Shared, Secrets, Spends, ConfirmedSecret, NoReplay, EnabledHasCodes,
         AcceptRecovery, credentials, ghosts
<1>8. Readings'
  <2> SUFFICES ASSUME NEW s \in Requests PROVE Kept(s)'
    BY DEF Readings
  <2>1. CASE s = r
    BY <1>5, <1>6, <2>1 DEF Kept, Enrolling, At, For
  <2>2. CASE s # r
    BY <1>6, <2>2 DEF IInv, Runs, Readings, Kept, Enrolling, At, For, AcceptRecovery, ghosts
  <2> QED BY <2>1, <2>2
<1>9. Apart'
  BY <1>5, <1>6 DEF IInv, Runs, Apart, Enrolling, At, For, AcceptRecovery, ghosts
<1>10. ResetEndsSessions'
  BY <1>3, <1>4, SessionsStay DEF IInv, Runs, AcceptRecovery, credentials
<1> QED BY <1>6, <1>7, <1>8, <1>9, <1>10 DEF IInv, Runs

\* A request that comes to its end.
LEMMA Finishes ==
  ASSUME IInv, NEW r \in Requests, Done(r)
  PROVE  /\ Own'
         /\ \A s \in Requests : req'[s] = IF s = r THEN Idle ELSE req[s]
         /\ UNCHANGED <<factor, lastSecret, proven>> => Readings'
         /\ UNCHANGED <<factor, batch, crossed>> => Apart'
         /\ UNCHANGED <<pw, sessions, cut>> /\ ~At(r, "purge") => ResetEndsSessions'
<1>1. Idle \in Request /\ Step(r, Idle) /\ Idle.at = "idle"
  BY RequestTypes DEF IInv, Runs, Done, Idle
<1>2. Own' /\ \A s \in Requests : req'[s] = IF s = r THEN Idle ELSE req[s]
  BY <1>1, Goes DEF IInv, Runs
<1>3. ASSUME UNCHANGED <<factor, lastSecret, proven>> PROVE Readings'
  BY <1>1, <1>2, <1>3 DEF IInv, Runs, Readings, Kept, Enrolling, At, For
<1>4. ASSUME UNCHANGED <<factor, batch, crossed>> PROVE Apart'
  BY <1>1, <1>2, <1>4 DEF IInv, Runs, Apart, Enrolling, At, For
<1>5. ASSUME UNCHANGED <<pw, sessions, cut>>, ~At(r, "purge") PROVE ResetEndsSessions'
  BY <1>1, <1>5, SessionsStay DEF IInv, Runs
<1> QED BY <1>2, <1>3, <1>4, <1>5

\* A session is written with the password that its request verified.
LEMMA SessionKeeps == ASSUME IInv, NEW r \in Requests, Session(r) PROVE IInv'
<1> DEFINE made == [pw |-> req[r].pw, late |-> req[r].pw # pw]
<1>1. Done(r) /\ sessions' = sessions \cup {made}
      /\ UNCHANGED <<pw, ticket, cut, factors, now, ghosts>>
  BY DEF Session
<1>2. made \in [pw : Nat, late : BOOLEAN] /\ (made.pw = pw \/ made.late)
  <2>1. req[r].pw \in Nat
    BY RequestTypes DEF IInv, Runs, Request
  <2> QED BY <2>1
<1> HIDE DEF made
<1>3. Tables'
  BY <1>1, <1>2 DEF IInv, Tables, Shared, Secrets, Spends, ConfirmedSecret, NoReplay, EnabledHasCodes,
         factors, ghosts
<1>4. Own' /\ Readings' /\ Apart'
  BY <1>1, Finishes DEF factors, ghosts
<1>5. ResetEndsSessions'
  <2> SUFFICES ASSUME NEW s \in sessions', ~(s.pw = pw' \/ s.late \/ cut') PROVE \E q \in Requests : At(q, "purge")'
    BY DEF ResetEndsSessions
  <2>1. s \in sessions /\ ~(s.pw = pw \/ s.late \/ cut)
    BY <1>1, <1>2
  <2>2. PICK q \in Requests : At(q, "purge")
    BY <2>1 DEF IInv, Runs, ResetEndsSessions
  <2>3. q # r
    BY <2>2 DEF Session, At
  <2> QED BY <1>1, <2>2, <2>3, Finishes DEF At
<1> QED BY <1>3, <1>4, <1>5 DEF IInv, Runs

-----------------------------------------------------------------------------
(* The second factor.                                                      *)

\* The end of a factor: it comes apart from whatever is being enrolled.
LEMMA DropKeeps == ASSUME IInv, NEW r \in Requests, Drop(r) PROVE IInv'
<1> DEFINE next == [req[r] EXCEPT !.at = "clear"]
<1>1. next \in Request /\ next.at = "clear" /\ Step(r, next) /\ ~At(r, "purge")
  <2>1. req[r] \in Request
    BY RequestTypes DEF IInv, Runs
  <2>2. next \in Request /\ next.at = "clear"
    BY <2>1 DEF Request, Places
  <2>3. Step(r, next) /\ ~At(r, "purge")
    BY DEF Drop, To, At
  <2> QED BY <2>2, <2>3
<1> HIDE DEF next
<1>2. Own' /\ \A s \in Requests : req'[s] = IF s = r THEN next ELSE req[s]
  BY <1>1, Goes DEF IInv, Runs
<1>3. factor' = NoFactor /\ spent' = {} /\ ~factor'.on /\ factor'.sec = 0
  BY DEF Drop, NoFactor
<1>4. Tables'
  BY <1>3 DEF IInv, Tables, Shared, Secrets, Spends, ConfirmedSecret, NoReplay, EnabledHasCodes, Drop,
         credentials
<1>5. Readings'
  <2> SUFFICES ASSUME NEW s \in Requests PROVE Kept(s)'
    BY DEF Readings
  <2>1. CASE s = r
    BY <1>1, <1>2, <2>1 DEF Kept, Enrolling, At, For
  <2>2. CASE s # r
    <3>1. Kept(s) /\ req'[s] = req[s] /\ UNCHANGED <<proven, lastSecret>>
      BY <1>2, <2>2 DEF IInv, Runs, Readings, Drop
    <3> QED BY <1>3, <3>1 DEF Kept, Enrolling, At, For, Factor
  <2> QED BY <2>1, <2>2
<1>6. Apart'
  <2> SUFFICES ASSUME ~crossed' PROVE Apart'
    BY DEF Apart
  <2>1. ~crossed /\ \A s \in Requests : ~At(s, "codes") /\ ~At(s, "enable")
    BY DEF Drop
  <2>2. \A s \in Requests : ~Enrolling(s)' /\ ~At(s, "enable")'
    BY <1>1, <1>2, <2>1 DEF Enrolling, At
  <2> QED BY <1>3, <2>2 DEF Apart
<1>7. ResetEndsSessions'
  BY <1>1, SessionsStay DEF IInv, Runs, Drop, credentials
<1> QED BY <1>2, <1>4, <1>5, <1>6, <1>7 DEF IInv, Runs

LEMMA ClearKeeps == ASSUME IInv, NEW r \in Requests, Clear(r) PROVE IInv'
<1>1. Done(r) /\ UNCHANGED <<pw, sessions, cut, factor, lastSecret, proven, crossed>> /\ ~At(r, "purge")
  BY DEF Clear, At, credentials, ghosts
<1>2. crossed \/ (~factor.on /\ \A s \in Requests : ~Enrolling(s))
  BY DEF IInv, Runs, Apart, Clear
<1>3. Tables'
  BY <1>2 DEF IInv, Tables, Shared, Secrets, Spends, ConfirmedSecret, NoReplay, EnabledHasCodes, Clear,
         credentials, ghosts
<1>4. Own' /\ Readings' /\ ResetEndsSessions'
  BY <1>1, Finishes
<1>5. Apart'
  BY <1>1, <1>2, Finishes DEF IInv, Runs, Apart, Enrolling, At, For, Idle
<1> QED BY <1>3, <1>4, <1>5 DEF IInv, Runs

LEMMA BeginKeeps == ASSUME IInv, NEW r \in Requests, Begin(r) PROVE IInv'
<1>1. Done(r) /\ UNCHANGED <<pw, sessions, cut, batch, proven, crossed>> /\ ~At(r, "purge")
  BY DEF Begin, At, credentials, ghosts
<1>2. factor' \in Factor /\ factor'.sec = lastSecret + 1 /\ ~factor'.on /\ lastSecret' = lastSecret + 1
      /\ spent' = {}
  BY DEF IInv, Tables, Shared, Begin, Factor
<1>3. Tables'
  BY <1>2 DEF IInv, Tables, Shared, Secrets, Spends, ConfirmedSecret, NoReplay, EnabledHasCodes, Begin,
         credentials
<1>4. Readings'
  <2> SUFFICES ASSUME NEW s \in Requests PROVE Kept(s)'
    BY DEF Readings
  <2>1. CASE s = r
    BY <1>1, <2>1, Finishes DEF Kept, Enrolling, At, For, Idle
  <2>2. CASE s # r
    <3>1. Kept(s) /\ req'[s] = req[s] /\ lastSecret \in Nat
      BY <1>1, <2>2, Finishes DEF IInv, Tables, Shared, Runs, Readings
    <3> QED BY <1>1, <1>2, <3>1 DEF Kept, Enrolling, At, For, Factor
  <2> QED BY <2>1, <2>2
<1>5. Apart'
  BY <1>1, <1>2, Finishes DEF IInv, Runs, Apart, Enrolling, At, For, Idle
<1> QED BY <1>1, <1>3, <1>4, <1>5, Finishes DEF IInv, Runs

LEMMA CodesKeeps == ASSUME IInv, NEW r \in Requests, Codes(r) PROVE IInv'
<1> DEFINE next == IF For(r, "enroll") THEN [req[r] EXCEPT !.at = "enable", !.set = lastBatch + 1] ELSE Idle
<1>1. req[r] \in Request /\ Idle \in Request /\ lastBatch \in Nat
  BY RequestTypes DEF IInv, Tables, Shared, Runs
<1>2. next \in Request /\ next.at \in {"enable", "idle"}
      /\ (next.at = "enable" => For(r, "enroll") /\ next.fac = req[r].fac)
  <2>1. CASE For(r, "enroll")
    <3> DEFINE shown == [req[r] EXCEPT !.at = "enable", !.set = lastBatch + 1]
    <3> DEFINE put == [req[r] EXCEPT !.set = lastBatch + 1]
    <3>1. put \in Request
      BY <1>1 DEF Request
    <3>2. shown = [put EXCEPT !.at = "enable"]
      BY <1>1 DEF Request
    <3>3. shown \in Request
      BY <3>1, <3>2 DEF Request, Places
    <3>4. shown.at = "enable" /\ shown.fac = req[r].fac
      BY <1>1 DEF Request
    <3> QED BY <2>1, <3>3, <3>4
  <2>2. CASE ~For(r, "enroll")
    BY <1>1, <2>2 DEF Idle
  <2> QED BY <2>1, <2>2
<1>3. Step(r, next) /\ ~At(r, "purge")
  BY DEF Codes, Done, At
<1> HIDE DEF next
<1>4. Own' /\ \A s \in Requests : req'[s] = IF s = r THEN next ELSE req[s]
  BY <1>2, <1>3, Goes DEF IInv, Runs
<1>5. Tables' /\ batch' # 0
  BY <1>1 DEF IInv, Tables, Shared, Secrets, Spends, ConfirmedSecret, NoReplay, EnabledHasCodes, Codes,
         credentials, ghosts
<1>6. Readings'
  <2> SUFFICES ASSUME NEW s \in Requests PROVE Kept(s)'
    BY DEF Readings
  <2>1. CASE s = r
    <3>1. Kept(r) /\ At(r, "codes") /\ UNCHANGED <<factor, lastSecret, proven>>
      BY DEF IInv, Runs, Readings, Codes, ghosts
    <3> QED BY <1>2, <1>4, <2>1, <3>1 DEF Kept, Enrolling, At, For
  <2>2. CASE s # r
    BY <1>4, <2>2 DEF IInv, Runs, Readings, Kept, Enrolling, At, For, Codes, ghosts
  <2> QED BY <2>1, <2>2
<1>7. Apart'
  <2> SUFFICES ASSUME ~crossed' PROVE Apart'
    BY DEF Apart
  <2>1. UNCHANGED <<factor, crossed>> /\ At(r, "codes")
    BY DEF Codes, ghosts
  <2>2. \A s \in Requests : Enrolling(s)' => Enrolling(s)
    BY <1>2, <1>4, <2>1 DEF Enrolling, At, For
  <2>3. \A s \in Requests : At(s, "clear")' => At(s, "clear")
    BY <1>2, <1>4 DEF At
  <2> QED BY <1>5, <2>1, <2>2, <2>3 DEF IInv, Runs, Apart
<1>8. ResetEndsSessions'
  BY <1>2, <1>3, SessionsStay DEF IInv, Runs, Codes, credentials
<1> QED BY <1>4, <1>5, <1>6, <1>7, <1>8 DEF IInv, Runs

\* The factor is enabled as it was read; if that puts back what the same secret has
\* accepted, two enrolments have enabled it.
LEMMA EnableKeeps == ASSUME IInv, NEW r \in Requests, Enable(r) PROVE IInv'
<1>1. Done(r) /\ UNCHANGED <<pw, sessions, cut, lastSecret, batch, proven, crossed>> /\ ~At(r, "purge")
  BY DEF Enable, At, credentials, ghosts
<1>2. /\ req[r].fac \in Factor /\ req[r].fac.sec <= lastSecret /\ req[r].fac.sec \in proven
      /\ req[r].step \in Nat /\ (batch # 0 \/ crossed)
  <2>1. req[r] \in Request
    BY RequestTypes DEF IInv, Runs
  <2> QED BY <2>1 DEF IInv, Runs, Readings, Kept, Enrolling, Apart, Enable, Request
<1>3. factor' \in Factor /\ factor'.sec = req[r].fac.sec /\ factor'.on
  BY <1>2 DEF Enable, Factor
<1>4. Shared' /\ Secrets'
  BY <1>2, <1>3 DEF IInv, Tables, Shared, Secrets, Enable, credentials
<1>5. Spends'
  <2>1. CASE factor.sec = req[r].fac.sec /\ factor.on
    BY <1>3, <2>1 DEF Spends, Enable
  <2>2. CASE ~(factor.sec = req[r].fac.sec /\ factor.on)
    BY <2>2 DEF IInv, Tables, Secrets, Spends, Enable
  <2> QED BY <2>1, <2>2
<1>6. ConfirmedSecret' /\ NoReplay' /\ EnabledHasCodes'
  BY <1>1, <1>2, <1>3 DEF IInv, Tables, ConfirmedSecret, NoReplay, EnabledHasCodes, Enable
<1>7. Readings'
  <2> SUFFICES ASSUME NEW s \in Requests PROVE Kept(s)'
    BY DEF Readings
  <2>1. CASE s = r
    BY <1>1, <2>1, Finishes DEF Kept, Enrolling, At, For, Idle
  <2>2. CASE s # r
    <3>1. Kept(s) /\ req'[s] = req[s]
      BY <1>1, <2>2, Finishes DEF IInv, Runs, Readings
    <3> QED BY <1>1, <1>3, <3>1 DEF Kept, Enrolling, At, For
  <2> QED BY <2>1, <2>2
<1>8. Apart'
  <2> SUFFICES ASSUME ~crossed' PROVE Apart'
    BY DEF Apart
  <2>1. \A s \in Requests : ~At(s, "clear")
    BY <1>1 DEF IInv, Runs, Apart, Enrolling, Enable
  <2> QED BY <1>1, <2>1, Finishes DEF IInv, Runs, Apart, At, Idle
<1> QED BY <1>1, <1>4, <1>5, <1>6, <1>7, <1>8, Finishes DEF IInv, Tables, Runs

LEMMA ConfirmReadKeeps ==
  ASSUME IInv, NEW r \in Requests, NEW t \in 1 .. MaxTime + 1, ConfirmRead(r, t) PROVE IInv'
<1> DEFINE next == [Idle EXCEPT !.at = "codes", !.goal = "enroll", !.fac = factor, !.step = t]
<1>1. Idle \in Request /\ factor \in Factor /\ factor.sec <= lastSecret /\ ~factor.on
  BY RequestTypes, FactorIs DEF IInv, Runs, Tables, Secrets, ConfirmRead
<1>2. next \in Request /\ next.at = "codes" /\ next.goal = "enroll" /\ next.fac = factor
  <2>1. t \in Nat
    OBVIOUS
  <2> QED BY <1>1, <2>1 DEF Request, Places, Goals
<1>3. Step(r, next) /\ ~At(r, "purge")
  BY DEF ConfirmRead, Arrives, At
<1> HIDE DEF next
<1>4. Own' /\ \A s \in Requests : req'[s] = IF s = r THEN next ELSE req[s]
  BY <1>2, <1>3, Goes DEF IInv, Runs
<1>5. Tables'
  BY DEF IInv, Tables, Shared, Secrets, Spends, ConfirmedSecret, NoReplay, EnabledHasCodes, ConfirmRead,
         credentials, factors
<1>6. Readings'
  <2> SUFFICES ASSUME NEW s \in Requests PROVE Kept(s)'
    BY DEF Readings
  <2>1. UNCHANGED <<factor, lastSecret>> /\ proven' = proven \cup {factor.sec}
    BY DEF ConfirmRead, factors
  <2>2. CASE s = r
    BY <1>1, <1>2, <1>4, <2>1, <2>2 DEF Kept, Enrolling, At, For
  <2>3. CASE s # r
    BY <1>4, <2>1, <2>3 DEF IInv, Runs, Readings, Kept, Enrolling, At, For
  <2> QED BY <2>2, <2>3
<1>7. Apart'
  <2> SUFFICES ASSUME ~crossed' PROVE Apart'
    BY DEF Apart
  <2>1. ~crossed /\ UNCHANGED batch /\ \A s \in Requests : ~At(s, "clear")
    BY DEF ConfirmRead, factors
  <2>2. \A s \in Requests : ~At(s, "clear")' /\ (At(s, "enable")' => At(s, "enable"))
    BY <1>2, <1>4, <2>1 DEF At
  <2> QED BY <2>1, <2>2 DEF IInv, Runs, Apart
<1>8. ResetEndsSessions'
  BY <1>2, <1>3, SessionsStay DEF IInv, Runs, ConfirmRead, credentials
<1> QED BY <1>4, <1>5, <1>6, <1>7, <1>8 DEF IInv, Runs

-----------------------------------------------------------------------------
(* Password resets, the clock and crashes.                                 *)

LEMMA PasswordKeeps == ASSUME IInv, NEW r \in Requests, Password(r) PROVE IInv'
<1> DEFINE next == [req[r] EXCEPT !.at = "purge"]
<1>1. next \in Request /\ next.at = "purge" /\ Step(r, next)
  <2>1. req[r] \in Request
    BY RequestTypes DEF IInv, Runs
  <2>2. next \in Request /\ next.at = "purge"
    BY <2>1 DEF Request, Places
  <2>3. Step(r, next)
    BY DEF Password, To
  <2> QED BY <2>2, <2>3
<1> HIDE DEF next
<1>2. Own' /\ \A s \in Requests : req'[s] = IF s = r THEN next ELSE req[s]
  BY <1>1, Goes DEF IInv, Runs
<1>3. Tables'
  BY DEF IInv, Tables, Shared, Secrets, Spends, ConfirmedSecret, NoReplay, EnabledHasCodes, Password,
         factors, ghosts
<1>4. Readings' /\ Apart'
  BY <1>1, <1>2 DEF IInv, Runs, Readings, Kept, Apart, Enrolling, At, For, Password, factors, ghosts
<1>5. ResetEndsSessions'
  BY <1>1, <1>2 DEF ResetEndsSessions, At
<1> QED BY <1>2, <1>3, <1>4, <1>5 DEF IInv, Runs

LEMMA PurgeKeeps == ASSUME IInv, NEW r \in Requests, Purge(r) PROVE IInv'
<1>1. Done(r) /\ sessions' = {} /\ UNCHANGED <<pw, ticket, cut, factors, now, ghosts>>
  BY DEF Purge
<1>2. Tables'
  BY <1>1 DEF IInv, Tables, Shared, Secrets, Spends, ConfirmedSecret, NoReplay, EnabledHasCodes, factors,
         ghosts
<1>3. Own' /\ Readings' /\ Apart'
  BY <1>1, Finishes DEF factors, ghosts
<1>4. ResetEndsSessions'
  BY <1>1 DEF ResetEndsSessions
<1> QED BY <1>2, <1>3, <1>4 DEF IInv, Runs

\* A step of no request.
LEMMA Still ==
  ASSUME IInv, UNCHANGED <<pw, cut, factors, req, ghosts>>, sessions' \subseteq sessions,
         ticket' \in [Tickets -> Nat \cup {None}], now' \in Nat
  PROVE  IInv'
<1>1. Tables'
  BY DEF IInv, Tables, Shared, Secrets, Spends, ConfirmedSecret, NoReplay, EnabledHasCodes, factors, ghosts
<1>2. Own' /\ Readings' /\ Apart'
  BY DEF IInv, Runs, Own, Readings, Kept, Apart, Enrolling, At, For, factors, ghosts
<1>3. ResetEndsSessions'
  BY DEF IInv, Runs, ResetEndsSessions, At
<1> QED BY <1>1, <1>2, <1>3 DEF IInv, Runs

LEMMA TimeKeeps ==
  ASSUME IInv, \/ \E t \in Tickets : TicketExpires(t)
               \/ \E s \in sessions : Logout(s)
               \/ Forgot \/ AdminReset \/ ResetExpires \/ Tick
  PROVE  IInv'
<1>1. UNCHANGED <<pw, cut, factors, req, ghosts>> /\ sessions' \subseteq sessions
  BY DEF TicketExpires, Logout, Forgot, AdminReset, LinkMade, ResetExpires, Tick, credentials
<1>2. ticket' \in [Tickets -> Nat \cup {None}] /\ now' \in Nat
  BY DEF IInv, Tables, Shared, TicketExpires, Logout, Forgot, AdminReset, LinkMade, ResetExpires, Tick, credentials
<1> QED BY <1>1, <1>2, Still

LEMMA RestartKeeps == ASSUME IInv, Restart PROVE IInv'
<1>1. \A r \in Requests : req'[r] = Idle /\ Idle.at = "idle"
  BY DEF Restart, Idle
<1>2. Own'
  <2>1. Idle \in Request
    BY DEF Idle, Request, Places, Goals, NoFactor
  <2> QED BY <2>1 DEF Own, Restart
<1>3. Tables'
  BY DEF IInv, Tables, Shared, Secrets, Spends, ConfirmedSecret, NoReplay, EnabledHasCodes, Restart,
         factors, ghosts
<1>4. Readings' /\ Apart'
  BY <1>1 DEF Readings, Kept, Apart, Enrolling, At, For
<1>5. ResetEndsSessions'
  BY DEF IInv, Runs, ResetEndsSessions, Restart
<1> QED BY <1>2, <1>3, <1>4, <1>5 DEF IInv, Runs

-----------------------------------------------------------------------------
LEMMA InitKeeps == Init => IInv
<1> SUFFICES ASSUME Init PROVE IInv
  OBVIOUS
<1>1. Tables
  BY SignInAssumption DEF Init, Tables, Shared, Secrets, Spends, ConfirmedSecret, NoReplay, EnabledHasCodes, NoFactor
<1>2. \A r \in Requests : req[r] = Idle /\ Idle.at = "idle"
  BY DEF Init, Idle
<1>3. Own
  <2>1. Idle \in Request
    BY DEF Idle, Request, Places, Goals, NoFactor
  <2> QED BY <2>1 DEF Own, Init
<1>4. Readings /\ Apart /\ ResetEndsSessions
  BY <1>2 DEF Init, Readings, Kept, Apart, Enrolling, At, For, ResetEndsSessions
<1> QED BY <1>1, <1>3, <1>4 DEF IInv, Runs

LEMMA SignInStepKeeps == ASSUME IInv, NEW r \in Requests, SignInStep(r) PROVE IInv'
BY LoginKeeps, LoginFactorKeeps, SessionKeeps, TicketKeeps, CompleteKeeps, ManageKeeps, ChallengeKeeps,
   RejectKeeps, AcceptCodeKeeps, AcceptRecoveryKeeps DEF SignInStep

LEMMA FactorStepKeeps == ASSUME IInv, NEW r \in Requests, FactorStep(r) PROVE IInv'
BY DropKeeps, ClearKeeps, BeginReadKeeps, BeginKeeps, CodesKeeps, EnableKeeps, ConfirmReadKeeps DEF FactorStep

LEMMA ResetStepKeeps == ASSUME IInv, NEW r \in Requests, ResetStep(r) PROVE IInv'
BY ResetKeeps, PasswordKeeps, PurgeKeeps DEF ResetStep

LEMMA StutterKeeps == ASSUME IInv, UNCHANGED vars PROVE IInv'
<1>1. UNCHANGED <<pw, cut, factors, req, ghosts, sessions, ticket, now>>
  BY DEF vars, credentials
<1> QED BY <1>1, Still DEF IInv, Tables, Shared

\* The invariant: the tables and the requests together.
THEOREM Invariance == Spec => []IInv
<1>1. IInv /\ [Next]_vars => IInv'
  BY SignInStepKeeps, FactorStepKeeps, ResetStepKeeps, TimeKeeps, RestartKeeps, StutterKeeps DEF Next
<1> QED BY <1>1, InitKeeps, PTL DEF Spec

\* A session that was there does not outlive a password reset.
THEOREM ResetSafe == Spec => []ResetEndsSessions
<1>1. IInv => ResetEndsSessions
  BY DEF IInv, Runs
<1> QED BY <1>1, Invariance, PTL

\* The factor that signs in is one whose owner has shown a code of it.
THEOREM ConfirmedSafe == Spec => []ConfirmedSecret
<1>1. IInv => ConfirmedSecret
  BY DEF IInv, Tables
<1> QED BY <1>1, Invariance, PTL

\* No code is accepted twice, unless two enrolments enabled its secret.
THEOREM ReplaySafe == Spec => []NoReplay
<1>1. IInv => NoReplay
  BY DEF IInv, Tables
<1> QED BY <1>1, Invariance, PTL

\* An account with a factor has recovery codes, unless its end and an enrolment overlapped.
THEOREM CodesSafe == Spec => []EnabledHasCodes
<1>1. IInv => EnabledHasCodes
  BY DEF IInv, Tables
<1> QED BY <1>1, Invariance, PTL
=============================================================================
