------------------------------- MODULE SignIn -------------------------------
(***************************************************************************)
(* How one account is signed in to (api/auth.go, store/sessions.go,        *)
(* store/mfa.go, store/password_resets.go): passwords and their resets,    *)
(* sessions, and the second factor with its enrolment, its one-time codes  *)
(* and its recovery codes.  The tables are keyed by the account, so        *)
(* accounts do not meet.  A request keeps what it has read while other     *)
(* requests for the account write, and a crash may cut it.                 *)
(***************************************************************************)
EXTENDS Naturals

CONSTANTS
  Requests,    \* the requests about the account that can be in progress at once
  Tickets,     \* the sign-ins that can wait for their second factor at once
  None,
  MaxTime,     \* bound on the clock, in TOTP periods
  MaxSecrets, MaxBatches,  \* bounds on the enrolments and on the sets of recovery codes
  MaxResets,   \* bound on password resets
  MaxAsked,    \* bound on the requests that ever arrive
  MaxFaults    \* bound on crashes

ASSUME SignInAssumption ==
  /\ None \notin Tickets
  /\ MaxTime \in Nat /\ MaxSecrets \in Nat /\ MaxBatches \in Nat
  /\ MaxResets \in Nat /\ MaxAsked \in Nat /\ MaxFaults \in Nat

VARIABLES
  pw,        \* which password the account has: the n-th
  resets,    \* whether a reset link is live
  sessions,  \* the sessions: the password each was obtained with, and whether it was the
             \* account's no longer when the session was written
  ticket,    \* mfa_ticket: the password each unused ticket was obtained with
  factor,    \* the account's row of mfa_factor
  lastSecret,
  batch,     \* mfa_recovery_code: which set of codes its rows are, 0 if there are none
  unused,    \* whether one of them (they are all alike) has not been used
  lastBatch,
  now,       \* the clock
  req,       \* req[r]: where request r is, and its local variables
  proven,    \* the secrets of which somebody has shown a code to an enrolment
  enabled2,  \* the secrets that two enrolments have enabled
  spent,     \* the codes of the current secret that have been accepted
  replayed,  \* the secrets of which one was accepted twice
  crossed,   \* an enrolment and the end of the factor have overlapped
  cut,       \* a crash has cut a reset between its two statements
  asked, faults

credentials == <<pw, resets, sessions, ticket, cut>>
factors == <<factor, lastSecret, batch, unused, lastBatch>>
ghosts == <<proven, enabled2, spent, replayed, crossed>>
vars == <<credentials, factors, now, req, ghosts, asked, faults>>

\* last: the last period a code was accepted of; 0 is before them all.
Factor == [sec : Nat \ {0}, on : BOOLEAN, last : Nat]
NoFactor == [sec |-> 0, on |-> FALSE, last |-> 0]

Goals == {"login", "complete", "disable", "regenerate", "enroll", "reset"}
Places == {"idle", "factor", "ticket", "challenge", "accept", "session", "drop", "clear",
           "begin", "codes", "enable", "password", "purge"}

\* fac: the factor as the request read it; set: the recovery codes it has made.
Request == [at : Places, goal : Goals, pw : Nat, fac : Factor \cup {NoFactor},
            step : Nat, set : Nat]

Idle == [at |-> "idle", goal |-> "login", pw |-> 0, fac |-> NoFactor, step |-> 0, set |-> 0]

TypeOK ==
  /\ pw \in Nat /\ resets \in BOOLEAN
  /\ sessions \in SUBSET [pw : Nat, late : BOOLEAN]
  /\ ticket \in [Tickets -> Nat \cup {None}]
  /\ factor \in Factor \cup {NoFactor} /\ lastSecret \in Nat
  /\ batch \in Nat /\ unused \in BOOLEAN /\ lastBatch \in Nat
  /\ now \in Nat /\ req \in [Requests -> Request]
  /\ proven \in SUBSET Nat /\ enabled2 \in SUBSET Nat
  /\ spent \in SUBSET Nat /\ replayed \in SUBSET Nat
  /\ crossed \in BOOLEAN /\ cut \in BOOLEAN
  /\ asked \in Nat /\ faults \in Nat

Init ==
  /\ pw = 0 /\ resets = FALSE /\ sessions = {} /\ ticket = [t \in Tickets |-> None]
  /\ factor = NoFactor /\ lastSecret = 0 /\ batch = 0 /\ unused = FALSE /\ lastBatch = 0
  /\ now = 1 /\ req = [r \in Requests |-> Idle]
  /\ proven = {} /\ enabled2 = {} /\ spent = {} /\ replayed = {}
  /\ crossed = FALSE /\ cut = FALSE /\ asked = 0 /\ faults = 0

At(r, p) == req[r].at = p
For(r, g) == req[r].goal = g
Step(r, next) == req' = [req EXCEPT ![r] = next]
Done(r) == Step(r, Idle)
Arrives(r) == At(r, "idle") /\ asked < MaxAsked /\ asked' = asked + 1
To(r, p) == Step(r, [req[r] EXCEPT !.at = p])

\* currentUser: whoever manages the account has a session that is still there.
SignedIn == sessions # {}

\* The codes of a clock that is one period off are accepted too.
Window == {t \in 1 .. MaxTime + 1 : t <= now + 1 /\ now <= t + 1}

-----------------------------------------------------------------------------
\* login: the password is the account's, or the provider vouches for the caller.
Login(r) ==
  /\ Arrives(r)
  /\ Step(r, [Idle EXCEPT !.at = "factor", !.pw = pw])
  /\ UNCHANGED <<credentials, factors, now, ghosts, faults>>

\* GetMFAFactor
LoginFactor(r) ==
  /\ At(r, "factor")
  /\ To(r, IF factor.on THEN "ticket" ELSE "session")
  /\ UNCHANGED <<credentials, factors, now, ghosts, faults, asked>>

\* createMFATicket
Ticket(r, t) ==
  /\ At(r, "ticket") /\ ticket[t] = None
  /\ ticket' = [ticket EXCEPT ![t] = req[r].pw]
  /\ Done(r)
  /\ UNCHANGED <<pw, resets, sessions, cut, factors, now, ghosts, faults, asked>>

TicketExpires(t) ==
  /\ ticket[t] # None
  /\ ticket' = [ticket EXCEPT ![t] = None]
  /\ UNCHANGED <<pw, resets, sessions, cut, factors, now, req, ghosts, faults, asked>>

\* mfaComplete: ConsumeMFATicket
Complete(r, t) ==
  /\ Arrives(r) /\ ticket[t] # None
  /\ ticket' = [ticket EXCEPT ![t] = None]
  /\ Step(r, [Idle EXCEPT !.at = "challenge", !.goal = "complete", !.pw = ticket[t]])
  /\ UNCHANGED <<pw, resets, sessions, cut, factors, now, ghosts, faults>>

\* verifyPasswordAndMFA, for mfaDisable and mfaRecoveryRegenerate.
Manage(r, goal) ==
  /\ Arrives(r) /\ SignedIn
  /\ Step(r, [Idle EXCEPT !.at = "challenge", !.goal = goal])
  /\ UNCHANGED <<credentials, factors, now, ghosts, faults>>

\* GetMFAFactor
Challenge(r) ==
  /\ At(r, "challenge")
  /\ IF factor.on THEN Step(r, [req[r] EXCEPT !.at = "accept", !.fac = factor]) ELSE Done(r)
  /\ UNCHANGED <<credentials, factors, now, ghosts, faults, asked>>

\* What a request goes on to once its code is accepted.
Onward == [complete |-> "session", disable |-> "drop", regenerate |-> "codes"]

\* Mutant of Newer: the period is compared with the one read before.
NewerThanRead(fac, t) == TRUE

\* UpdateMFALastAcceptedStep: ... AND last_accepted_step < ?
Newer(fac, t) == factor # NoFactor /\ factor.last < t

\* acceptMFAChallenge, with the code of period t of the secret that was read.
AcceptCode(r, t) ==
  /\ At(r, "accept") /\ t \in Window /\ t > req[r].fac.last
  /\ IF Newer(req[r].fac, t)
     THEN /\ factor' = IF factor = NoFactor THEN factor ELSE [factor EXCEPT !.last = t]
          /\ To(r, Onward[req[r].goal])
          /\ spent' = IF factor.sec = req[r].fac.sec THEN spent \cup {t} ELSE spent
          /\ replayed' = IF factor.sec = req[r].fac.sec /\ t \in spent
                         THEN replayed \cup {factor.sec} ELSE replayed
     ELSE Done(r) /\ UNCHANGED <<factor, spent, replayed>>
  /\ UNCHANGED <<credentials, lastSecret, batch, unused, lastBatch, now, proven, enabled2,
                 crossed, faults, asked>>

\* acceptMFAChallenge, with a recovery code of the set b.
AcceptRecovery(r, b) ==
  /\ At(r, "accept") /\ b \in 1 .. lastBatch
  /\ IF b = batch /\ unused THEN unused' = FALSE /\ To(r, Onward[req[r].goal])
                            ELSE unused' = unused /\ Done(r)
  /\ UNCHANGED <<credentials, factor, lastSecret, batch, lastBatch, now, ghosts, faults, asked>>

\* A wrong code.
Reject(r) ==
  /\ At(r, "accept") /\ Done(r)
  /\ UNCHANGED <<credentials, factors, now, ghosts, faults, asked>>

\* setSessionCookie
Session(r) ==
  /\ At(r, "session") /\ Done(r)
  /\ sessions' = sessions \cup {[pw |-> req[r].pw, late |-> req[r].pw # pw]}
  /\ UNCHANGED <<pw, resets, ticket, cut, factors, now, ghosts, faults, asked>>

\* logout, or the session expires; there may be another like it.
Logout(s) ==
  /\ s \in sessions
  /\ sessions' = sessions \ {s}
  /\ UNCHANGED <<pw, resets, ticket, cut, factors, now, req, ghosts, faults, asked>>

-----------------------------------------------------------------------------
\* Mutant of Drop: only the codes are deleted.
DropCodesOnly(r) ==
  /\ At(r, "drop") /\ To(r, "clear")
  /\ UNCHANGED <<credentials, factors, now, ghosts, asked, faults>>

\* mfaDisable: DisableMFAFactor, then the recovery codes.
Drop(r) ==
  /\ At(r, "drop") /\ To(r, "clear")
  /\ factor' = NoFactor /\ spent' = {}
  /\ crossed' = (crossed \/ \E s \in Requests : At(s, "codes") \/ At(s, "enable"))
  /\ UNCHANGED <<credentials, lastSecret, batch, unused, lastBatch, now, proven, enabled2,
                 replayed, faults, asked>>

Clear(r) ==
  /\ At(r, "clear") /\ Done(r)
  /\ batch' = 0 /\ unused' = FALSE
  /\ UNCHANGED <<credentials, factor, lastSecret, lastBatch, now, ghosts, faults, asked>>

\* mfaEnrollBegin: currentUser and GetMFAFactor, then the new secret.
BeginRead(r) ==
  /\ Arrives(r) /\ SignedIn /\ ~factor.on
  /\ Step(r, [Idle EXCEPT !.at = "begin", !.goal = "enroll"])
  /\ UNCHANGED <<credentials, factors, now, ghosts, faults>>

Begin(r) ==
  /\ At(r, "begin") /\ Done(r) /\ lastSecret < MaxSecrets
  /\ lastSecret' = lastSecret + 1
  /\ factor' = [sec |-> lastSecret + 1, on |-> FALSE, last |-> 0] /\ spent' = {}
  /\ UNCHANGED <<credentials, batch, unused, lastBatch, now, proven, enabled2, replayed,
                 crossed, faults, asked>>

\* mfaEnrollConfirm: the code of period t is right for the secret that is stored.
ConfirmRead(r, t) ==
  /\ Arrives(r) /\ SignedIn
  /\ factor # NoFactor /\ ~factor.on
  /\ t \in Window /\ t > factor.last
  /\ Step(r, [Idle EXCEPT !.at = "codes", !.goal = "enroll", !.fac = factor, !.step = t])
  /\ proven' = proven \cup {factor.sec}
  /\ crossed' = (crossed \/ \E s \in Requests : At(s, "clear"))
  /\ UNCHANGED <<credentials, factors, now, enabled2, spent, replayed, faults>>

\* ReplaceRecoveryCodes: shown at once, or once the factor is enabled.
Codes(r) ==
  /\ At(r, "codes") /\ lastBatch < MaxBatches
  /\ lastBatch' = lastBatch + 1 /\ batch' = lastBatch + 1 /\ unused' = TRUE
  /\ IF For(r, "enroll") THEN Step(r, [req[r] EXCEPT !.at = "enable", !.set = lastBatch + 1])
                         ELSE Done(r)
  /\ UNCHANGED <<credentials, factor, lastSecret, now, ghosts, faults, asked>>

\* Mutant of Enable: UPDATE mfa_factor SET enabled_at.
EnableStored(r) ==
  /\ At(r, "enable") /\ Done(r)
  /\ factor' = IF factor = NoFactor THEN factor
               ELSE [factor EXCEPT !.on = TRUE, !.last = req[r].step]
  /\ enabled2' = enabled2 /\ spent' = spent
  /\ UNCHANGED <<credentials, lastSecret, batch, unused, lastBatch, now, proven, replayed,
                 crossed, faults, asked>>

\* UpsertMFAFactor: the row as it was read, enabled.
Enable(r) ==
  /\ At(r, "enable") /\ Done(r)
  /\ factor' = [req[r].fac EXCEPT !.on = TRUE, !.last = req[r].step]
  /\ enabled2' = enabled2 \cup {s \in {req[r].fac.sec} : factor.sec = s /\ factor.on}
  /\ spent' = IF factor.sec = req[r].fac.sec THEN spent ELSE {}
  /\ UNCHANGED <<credentials, lastSecret, batch, unused, lastBatch, now, proven, replayed,
                 crossed, faults, asked>>

-----------------------------------------------------------------------------
\* CreatePasswordReset; there may be another link like it.
LinkMade == ~resets /\ resets' = TRUE

\* forgotPassword
Forgot ==
  /\ LinkMade
  /\ UNCHANGED <<pw, sessions, ticket, cut, factors, now, req, ghosts, faults, asked>>

\* createPasswordReset: an administrator hands out a link.
AdminReset ==
  /\ LinkMade
  /\ UNCHANGED <<pw, sessions, ticket, cut, factors, now, req, ghosts, faults, asked>>

ResetExpires ==
  /\ resets /\ resets' = FALSE
  /\ UNCHANGED <<pw, sessions, ticket, cut, factors, now, req, ghosts, faults, asked>>

\* resetPassword: ConsumePasswordReset, UpdateUserPassword, DeleteSessionsForUser.
Reset(r) ==
  /\ Arrives(r) /\ resets
  /\ resets' = FALSE
  /\ Step(r, [Idle EXCEPT !.at = "password", !.goal = "reset"])
  /\ UNCHANGED <<pw, sessions, ticket, cut, factors, now, ghosts, faults>>

\* Mutant of Password: the sessions are deleted first.
PasswordLast(r) ==
  /\ \/ At(r, "password") /\ sessions' = {} /\ pw' = pw /\ To(r, "purge")
     \/ At(r, "purge") /\ pw < MaxResets /\ pw' = pw + 1 /\ sessions' = sessions /\ Done(r)
  /\ UNCHANGED <<resets, ticket, cut, factors, now, ghosts, faults, asked>>

Password(r) ==
  /\ At(r, "password") /\ pw < MaxResets
  /\ pw' = pw + 1 /\ To(r, "purge")
  /\ UNCHANGED <<resets, sessions, ticket, cut, factors, now, ghosts, faults, asked>>

Purge(r) ==
  /\ At(r, "purge") /\ Done(r)
  /\ sessions' = {}
  /\ UNCHANGED <<pw, resets, ticket, cut, factors, now, ghosts, faults, asked>>

Tick ==
  /\ now < MaxTime /\ now' = now + 1
  /\ UNCHANGED <<credentials, factors, req, ghosts, faults, asked>>

Restart ==
  /\ faults < MaxFaults /\ faults' = faults + 1
  /\ req' = [r \in Requests |-> Idle]
  /\ cut' = (cut \/ \E r \in Requests : At(r, "purge"))
  /\ UNCHANGED <<pw, resets, sessions, ticket, factors, now, ghosts, asked>>

SignInStep(r) ==
  \/ Login(r) \/ LoginFactor(r) \/ Session(r)
  \/ \E t \in Tickets : Ticket(r, t) \/ Complete(r, t)
  \/ \E goal \in {"disable", "regenerate"} : Manage(r, goal)
  \/ Challenge(r) \/ Reject(r)
  \/ \E t \in 1 .. MaxTime + 1 : AcceptCode(r, t)
  \/ \E b \in 1 .. MaxBatches : AcceptRecovery(r, b)

FactorStep(r) ==
  \/ Drop(r) \/ Clear(r) \/ BeginRead(r) \/ Begin(r) \/ Codes(r) \/ Enable(r)
  \/ \E t \in 1 .. MaxTime + 1 : ConfirmRead(r, t)

ResetStep(r) == Reset(r) \/ Password(r) \/ Purge(r)

Next ==
  \/ \E r \in Requests : SignInStep(r) \/ FactorStep(r) \/ ResetStep(r)
  \/ \E t \in Tickets : TicketExpires(t)
  \/ \E s \in sessions : Logout(s)
  \/ Forgot \/ AdminReset \/ ResetExpires \/ Tick \/ Restart

Spec == Init /\ [][Next]_vars

-----------------------------------------------------------------------------
\* A session obtained with an older password was on its way when the password changed:
\* one that was there does not outlive the reset, unless a crash cuts it between its
\* statements (api/auth.go:898; auth_test.go, TestResetPasswordSetsNewPassword...).
ResetEndsSessions ==
  \A s \in sessions : s.pw = pw \/ s.late \/ cut \/ \E r \in Requests : At(r, "purge")

\* Whatever overlaps, the factor that signs in to the account is one whose owner has
\* shown a code of it (api/auth.go:620).
ConfirmedSecret == factor.on => factor.sec \in proven

\* A code is accepted once, unless two enrolments have enabled the same secret: the later
\* one puts the last accepted period back (auth_test.go, TestMFACompleteRejectsReusedTOTPStep).
NoReplay == replayed \subseteq enabled2

\* An account with a factor has recovery codes, unless an enrolment and the end of a
\* factor have overlapped (api/auth.go:620, 681).
EnabledHasCodes == factor.on => batch # 0 \/ crossed
=============================================================================
