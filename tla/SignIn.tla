------------------------------- MODULE SignIn -------------------------------
(***************************************************************************)
(* How a browser gets and keeps a session: the password and its lockout,   *)
(* the second factor (time steps and recovery codes), enrolment in it, the *)
(* cap on concurrent sessions, and the check each later request makes.     *)
(* Every handler is a coroutine that awaits the database between           *)
(* statements, in any of several workers, so a request holds what it read  *)
(* and one action is one statement.  Passwords and codes are abstracted to *)
(* whether they match.                                                     *)
(***************************************************************************)
EXTENDS Integers, FiniteSets

CONSTANTS Users, Handlers, Sids, Roles, Recovery,
          Kinds,        \* the handlers that run: a subset of AllKinds
          SsoUsers,     \* accounts linked to an identity provider
          MfaRoles,     \* MFA_REQUIRED_FOR_ROLES
          SessionCap,   \* per role: SESSION_MAX_CONCURRENT and its overrides
          MaxFailed,    \* LOGIN_MAX_FAILED_ATTEMPTS
          LockFor,      \* LOGIN_LOCKOUT_MINUTES, in clock units
          IdleFor, AbsoluteFor,    \* the two session timeouts
          MaxClock, MaxCrash, MaxGen, MaxAdmin, None   \* the bounds of a check

\* The limit and the lockout are positive, a recovery code is no time step, and
\* what stands for nothing is nothing else.
ASSUME SignInAssumption ==
  /\ IsFiniteSet(Handlers)
  /\ MaxFailed \in Nat \ {0} /\ LockFor \in Nat \ {0}
  /\ SessionCap \in [Roles -> Int]
  /\ Recovery \cap Int = {}
  /\ None \notin Users \cup Sids
  /\ None \notin [user : Users, created : Nat, active : Nat]
  /\ None \notin [gen : Nat, enabled : BOOLEAN, last : Int, codes : SUBSET Recovery]

VARIABLES account,     \* the users row: is there, is_active, role, lockout
          sessions,    \* the sessions table
          enrolment,   \* the user_totp row
          challenged,  \* users whose browser holds the second-factor cookie
          req,         \* what each running handler holds
          clock,       \* now, in time steps
          crashes, edits, gen,   \* counters the bounds cap
          tries,       \* history: wrong guesses since the account was open
          lost,        \* history: wrong guesses a crash kept uncounted
          accepted,    \* history: the codes accepted, and ...
          replayed,    \* ... whether one was accepted twice
          confirmed    \* history: secrets a code was matched against

rows == <<account, sessions, enrolment>>
ghosts == <<tries, lost, accepted, replayed, confirmed>>
counters == <<clock, crashes, edits, gen>>
vars == <<rows, challenged, req, counters, ghosts>>

AllKinds == {"page", "api", "mfa", "sso", "visit", "confirm", "cancel"}
Idle == [pc |-> "idle", kind |-> None, user |-> None, what |-> None, num |-> 0]
Stages == {"idle", "load", "check", "password", "record", "reset", "factor",
           "cap", "evict", "insert", "enrolment", "claim", "redeem",
           "touch", "expire", "enable", "drop"}

Account == [live : BOOLEAN, active : BOOLEAN, role : Roles, failed : Nat, lockedUntil : Nat]
Session == [user : Users, created : Nat, active : Nat]
Enrolment == [gen : Nat, enabled : BOOLEAN, last : Int, codes : SUBSET Recovery]

\* What a handler holds, by the statement it is about to make.
RequestOK(r) ==
  /\ DOMAIN r = {"pc", "kind", "user", "what", "num"}
  /\ r.pc \in Stages /\ r.kind \in AllKinds \cup {None} /\ r.num \in Int
  /\ r.pc # "idle" => r.user \in Users
  /\ r.pc \in {"touch", "expire"} => r.what \in Sids /\ r.num \in Nat

TypeOK ==
  /\ account \in [Users -> Account]
  /\ sessions \in [Sids -> Session \cup {None}]
  /\ \A s \in Sids : sessions[s] # None => sessions[s].created <= sessions[s].active
  /\ enrolment \in [Users -> Enrolment \cup {None}]
  /\ \A u \in Users : enrolment[u] # None => enrolment[u].gen <= gen
  /\ challenged \subseteq Users
  /\ DOMAIN req = Handlers /\ \A h \in Handlers : RequestOK(req[h])
  /\ clock \in Nat /\ gen \in Nat
  /\ tries \in [Users -> Nat] /\ lost \in [Users -> Nat]

Enabled(u) == enrolment[u] # None /\ enrolment[u].enabled

Init ==
  /\ account \in [Users -> [live : {TRUE}, active : {TRUE}, role : Roles,
                            failed : {0}, lockedUntil : {0}]]
  /\ sessions = [s \in Sids |-> None]
  /\ enrolment \in [Users -> {None, [gen |-> 1, enabled |-> TRUE, last |-> -1, codes |-> Recovery]}]
  /\ \A u \in Users : u \in SsoUsers => enrolment[u] = None
  /\ challenged \in SUBSET {u \in Users : Enabled(u)} /\ req = [h \in Handlers |-> Idle]
  /\ clock = 1 /\ crashes = 0 /\ edits = 0 /\ gen = 1
  /\ tries = [u \in Users |-> 0] /\ lost = [u \in Users |-> 0]
  /\ accepted = {} /\ replayed = FALSE /\ confirmed = {1}

At(h, pc) == req[h].pc = pc
Goto(h, pc) == req' = [req EXCEPT ![h].pc = pc]
Hold(h, pc, v, n) == req' = [req EXCEPT ![h].pc = pc, ![h].what = v, ![h].num = n]
End(h) == req' = [req EXCEPT ![h] = Idle]

Locked(u) == account[u].lockedUntil > clock
SessionsOf(u) == {s \in Sids : sessions[s] # None /\ sessions[s].user = u}
\* history: one more wrong guess at u, when there is such an account
Tried(u) == IF account[u].live THEN [tries EXCEPT ![u] = @ + 1] ELSE tries
Usable(u) == account[u].live /\ account[u].active

------------------------------------------------------------ \* signing in
\* POST /login, POST /api/auth/login, POST /login/mfa and an identity provider's callback
Arrive(h) == \E u \in Users, k \in Kinds \cap {"page", "api", "mfa", "sso"} :
  /\ At(h, "idle")
  /\ k = "mfa" => u \in challenged
  /\ k = "sso" => u \in SsoUsers
  /\ req' = [req EXCEPT ![h] =
       [pc |-> IF k \in {"mfa", "sso"} THEN "load" ELSE "check", kind |-> k,
        user |-> u, what |-> None, num |-> 0]]
  /\ UNCHANGED <<rows, challenged, counters, ghosts>>

\* the pending user of the second step, or the provider's account, must be usable
LoadUser(h) ==
  /\ At(h, "load")
  /\ IF ~Usable(req[h].user) THEN End(h)
     ELSE Goto(h, IF req[h].kind = "sso" THEN "cap" ELSE "check")
  /\ UNCHANGED <<rows, challenged, counters, ghosts>>

CheckLockout(h) ==
  /\ At(h, "check")
  /\ IF Locked(req[h].user) THEN End(h)
     ELSE Goto(h, IF req[h].kind = "mfa" THEN "enrolment" ELSE "password")
  /\ UNCHANGED <<rows, challenged, counters, ghosts>>

\* a name that is gone and a wrong password both count as a failure
Authenticate(h) ==
  /\ At(h, "password")
  /\ LET u == req[h].user IN
     \/ /\ account[u].live
        /\ Hold(h, "reset", account[u].role, 0)
        /\ UNCHANGED tries
     \/ /\ Goto(h, "record")
        /\ tries' = Tried(u)
  /\ UNCHANGED <<rows, challenged, counters, lost, accepted, replayed, confirmed>>

\* mutant: locks above the threshold
RecordFailed_Above(h) ==
  /\ At(h, "record") /\ End(h)
  /\ LET u == req[h].user  n == account[u].failed + 1 IN
     IF ~account[u].live THEN UNCHANGED account
     ELSE account' = [account EXCEPT ![u].failed = n,
            ![u].lockedUntil = IF n > MaxFailed THEN clock + LockFor ELSE @]
  /\ UNCHANGED <<sessions, enrolment, challenged, counters, ghosts>>

\* one UPDATE: count, and lock from the threshold on
RecordFailed(h) ==
  /\ At(h, "record") /\ End(h)
  /\ LET u == req[h].user  n == account[u].failed + 1 IN
     IF ~account[u].live THEN UNCHANGED account
     ELSE account' = [account EXCEPT ![u].failed = n,
            ![u].lockedUntil = IF n >= MaxFailed THEN clock + LockFor ELSE @]
  /\ UNCHANGED <<sessions, enrolment, challenged, counters, ghosts>>

RecordSuccess(h) ==
  /\ At(h, "reset")
  /\ LET u == req[h].user IN
     /\ account' = [account EXCEPT ![u].failed = 0, ![u].lockedUntil = 0]
     /\ tries' = [tries EXCEPT ![u] = 0]
  /\ CASE req[h].kind = "page" -> Goto(h, "factor")
       [] req[h].kind = "sso"  -> End(h)
       [] OTHER                -> Goto(h, "cap")
  /\ UNCHANGED <<sessions, enrolment, challenged, counters, lost, accepted, replayed, confirmed>>

\* the page asks for the second factor, or refuses a role that must have one
Factor(h) ==
  /\ At(h, "factor")
  /\ LET u == req[h].user IN
     \/ /\ Enabled(u) /\ End(h) /\ challenged' = challenged \cup {u}
     \/ /\ ~Enabled(u) /\ u \notin SsoUsers /\ req[h].what \in MfaRoles
        /\ End(h) /\ UNCHANGED challenged
     \/ /\ ~Enabled(u) /\ (u \in SsoUsers \/ req[h].what \notin MfaRoles)
        /\ Goto(h, "cap") /\ UNCHANGED challenged
  /\ UNCHANGED <<rows, counters, ghosts>>

\* the code is matched against the enrolment read here: a time step next to
\* now, a recovery code of the row, or nothing
MatchCode(h) ==
  /\ At(h, "enrolment")
  /\ LET u == req[h].user IN
     \/ /\ Enabled(u)
        /\ \E s \in (clock - 1)..(clock + 1) : Hold(h, "claim", None, s)
        /\ UNCHANGED tries
     \/ /\ Enabled(u)
        /\ \E c \in enrolment[u].codes : Hold(h, "redeem", c, enrolment[u].gen)
        /\ UNCHANGED tries
     \/ /\ Goto(h, "record")
        /\ tries' = Tried(u)
  /\ UNCHANGED <<rows, challenged, counters, lost, accepted, replayed, confirmed>>

\* history: code c of u's present enrolment row is accepted
Accept(u, c) ==
  /\ replayed' = (replayed \/ <<u, enrolment[u].gen, c>> \in accepted)
  /\ accepted' = accepted \cup {<<u, enrolment[u].gen, c>>}

\* mutant: the UPDATE does not ask for a later step
ClaimStep_Blind(h) ==
  /\ At(h, "claim") /\ Goto(h, "reset")
  /\ LET u == req[h].user  s == req[h].num IN
     /\ enrolment[u] # None
     /\ enrolment' = [enrolment EXCEPT ![u].last = s]
     /\ Accept(u, s)
  /\ UNCHANGED <<account, sessions, challenged, counters, tries, lost, confirmed>>

\* a time step counts when it is later than the last one accepted
ClaimStep(h) ==
  /\ At(h, "claim")
  /\ LET u == req[h].user  s == req[h].num IN
     IF enrolment[u] # None /\ enrolment[u].last < s
     THEN /\ enrolment' = [enrolment EXCEPT ![u].last = s]
          /\ Accept(u, s) /\ Goto(h, "reset") /\ UNCHANGED tries
     ELSE /\ Goto(h, "record") /\ tries' = Tried(u)
          /\ UNCHANGED <<enrolment, accepted, replayed>>
  /\ UNCHANGED <<account, sessions, challenged, counters, lost, confirmed>>

\* a recovery code counts when it is removed by this very statement; the codes
\* of another enrolment are others
RedeemCode(h) ==
  /\ At(h, "redeem")
  /\ LET u == req[h].user  g == req[h].num  c == req[h].what IN
     IF enrolment[u] # None /\ enrolment[u].gen = g /\ c \in enrolment[u].codes
     THEN /\ enrolment' = [enrolment EXCEPT ![u].codes = @ \ {c}]
          /\ Accept(u, c) /\ Goto(h, "reset") /\ UNCHANGED tries
     ELSE /\ Goto(h, "record") /\ tries' = Tried(u)
          /\ UNCHANGED <<enrolment, accepted, replayed>>
  /\ UNCHANGED <<account, sessions, challenged, counters, lost, confirmed>>

---------------------------------------------------------- \* the session cap
ReadCap(h) ==
  /\ At(h, "cap")
  /\ Hold(h, "evict", None, SessionCap[account[req[h].user].role])
  /\ UNCHANGED <<rows, challenged, counters, ghosts>>

\* the cap - 1 most recently active sessions stay; ties are broken either way
Kept(u, n) ==
  {K \in SUBSET SessionsOf(u) :
     /\ Cardinality(K) = IF Cardinality(SessionsOf(u)) < n THEN Cardinality(SessionsOf(u)) ELSE n
     /\ \A s \in K, t \in SessionsOf(u) \ K : sessions[s].active >= sessions[t].active}

\* mutant: as many as the cap stay, and one more comes
Evict_ToCap(h) ==
  /\ At(h, "evict") /\ Goto(h, "insert")
  /\ LET u == req[h].user  n == req[h].num IN
     \E K \in Kept(u, n) :
       sessions' = [s \in Sids |-> IF s \in SessionsOf(u) \ K THEN None ELSE sessions[s]]
  /\ UNCHANGED <<account, enrolment, challenged, counters, ghosts>>

Evict(h) ==
  /\ At(h, "evict") /\ Goto(h, "insert")
  /\ LET u == req[h].user  n == req[h].num IN
     \/ n <= 0 /\ UNCHANGED sessions
     \/ n > 0 /\ \E K \in Kept(u, n - 1) :
          sessions' = [s \in Sids |-> IF s \in SessionsOf(u) \ K THEN None ELSE sessions[s]]
  /\ UNCHANGED <<account, enrolment, challenged, counters, ghosts>>

\* session ids are random: no request still holds one that is handed out
Fresh(s) == sessions[s] = None /\ \A h \in Handlers :
              req[h].pc \in {"touch", "expire"} => req[h].what # s

\* the insert fails when the account is gone: sessions.user_id refers to it
InsertSession(h) ==
  /\ At(h, "insert")
  /\ LET u == req[h].user IN
     \/ ~account[u].live /\ End(h) /\ UNCHANGED sessions
     \/ /\ account[u].live
        /\ \E s \in Sids : /\ Fresh(s)
                           /\ sessions' = [sessions EXCEPT ![s] =
                                [user |-> u, created |-> clock, active |-> clock]]
        /\ IF req[h].kind = "sso" THEN Goto(h, "reset") ELSE End(h)
  /\ UNCHANGED <<account, enrolment, challenged, counters, ghosts>>

---------------------------------------------- \* later requests, and leaving
\* what a request on session s decides from the row it reads
Visit(h) == \E s \in Sids :
  /\ "visit" \in Kinds /\ At(h, "idle") /\ sessions[s] # None
  /\ LET old == \/ clock - sessions[s].created > AbsoluteFor
                \/ clock - sessions[s].active > IdleFor
     IN req' = [req EXCEPT ![h] = [pc |-> IF old THEN "expire" ELSE "touch", kind |-> "visit",
                                   user |-> sessions[s].user, what |-> s, num |-> clock]]
  /\ UNCHANGED <<rows, challenged, counters, ghosts>>

\* the time written is the time of the read
Touch(h) ==
  /\ At(h, "touch") /\ End(h)
  /\ LET s == req[h].what IN
     sessions' = IF sessions[s] = None THEN sessions
                 ELSE [sessions EXCEPT ![s].active = req[h].num]
  /\ UNCHANGED <<account, enrolment, challenged, counters, ghosts>>

Expire(h) ==
  /\ At(h, "expire") /\ End(h)
  /\ sessions' = [sessions EXCEPT ![req[h].what] = None]
  /\ UNCHANGED <<account, enrolment, challenged, counters, ghosts>>

\* logging out, revoking one of one's own sessions, and an administrator
\* revoking anybody's
Revoke(s) ==
  /\ sessions[s] # None
  /\ sessions' = [sessions EXCEPT ![s] = None]
  /\ UNCHANGED <<account, enrolment, challenged, req, counters, ghosts>>
Logout == \E s \in Sids : Revoke(s)
RevokeOwn == "visit" \in Kinds /\ \E u \in Users : \E s \in SessionsOf(u) : Revoke(s)
RevokeAny == "visit" \in Kinds /\ \E s \in Sids : Revoke(s)

------------------------------------------------------- \* enrolment (settings)
\* mutant: the upsert replaces an enabled row too
BeginEnrolment_Any == \E u \in Users :
  /\ "confirm" \in Kinds /\ u \notin SsoUsers /\ account[u].live /\ gen < MaxGen
  /\ gen' = gen + 1
  /\ enrolment' = [enrolment EXCEPT ![u] =
       [gen |-> gen + 1, enabled |-> FALSE, last |-> -1, codes |-> Recovery]]
  /\ UNCHANGED <<account, sessions, challenged, req, clock, crashes, edits, ghosts>>

\* one upsert that leaves an enabled row alone: a new secret, no step used yet
BeginEnrolment == \E u \in Users :
  /\ "confirm" \in Kinds /\ u \notin SsoUsers /\ account[u].live /\ gen < MaxGen
  /\ ~Enabled(u)
  /\ gen' = gen + 1
  /\ enrolment' = [enrolment EXCEPT ![u] =
       [gen |-> gen + 1, enabled |-> FALSE, last |-> -1, codes |-> Recovery]]
  /\ UNCHANGED <<account, sessions, challenged, req, clock, crashes, edits, ghosts>>

\* the code is matched against the secret read here ...
ConfirmRead(h) == \E u \in Users :
  /\ "confirm" \in Kinds /\ At(h, "idle") /\ enrolment[u] # None
  /\ confirmed' = confirmed \cup {enrolment[u].gen}
  /\ req' = [req EXCEPT ![h] = [pc |-> "enable", kind |-> "confirm", user |-> u, what |-> None, num |-> enrolment[u].gen]]
  /\ UNCHANGED <<rows, challenged, counters, tries, lost, accepted, replayed>>

\* ... and whatever row is there by now is enabled
ConfirmEnable(h) ==
  /\ At(h, "enable") /\ End(h)
  /\ LET u == req[h].user IN
     enrolment' = IF enrolment[u] = None THEN enrolment
                  ELSE [enrolment EXCEPT ![u].enabled = TRUE]
  /\ UNCHANGED <<account, sessions, challenged, counters, ghosts>>

CancelRead(h) == \E u \in Users :
  /\ "cancel" \in Kinds /\ At(h, "idle") /\ enrolment[u] # None /\ ~enrolment[u].enabled
  /\ req' = [req EXCEPT ![h] = [pc |-> "drop", kind |-> "cancel", user |-> u, what |-> None, num |-> 0]]
  /\ UNCHANGED <<rows, challenged, counters, ghosts>>

CancelDrop(h) ==
  /\ At(h, "drop") /\ End(h)
  /\ enrolment' = [enrolment EXCEPT ![req[h].user] = None]
  /\ UNCHANGED <<account, sessions, challenged, counters, ghosts>>

DisableMfa == \E u \in Users :
  /\ enrolment[u] # None
  /\ enrolment' = [enrolment EXCEPT ![u] = None]
  /\ UNCHANGED <<account, sessions, challenged, req, counters, ghosts>>

------------------------------------------------ \* administrators and the clock
\* a role or is_active changes; sessions and counters stay
UpdateUser == \E u \in Users, r \in Roles :
  /\ edits < MaxAdmin /\ account[u].live
  /\ account' = [account EXCEPT ![u].role = r]
  /\ edits' = edits + 1
  /\ UNCHANGED <<sessions, enrolment, challenged, req, clock, crashes, gen, ghosts>>
ToggleActive == \E u \in Users :
  /\ edits < MaxAdmin /\ account[u].live
  /\ account' = [account EXCEPT ![u].active = ~@]
  /\ edits' = edits + 1
  /\ UNCHANGED <<sessions, enrolment, challenged, req, clock, crashes, gen, ghosts>>

\* sessions and the enrolment go with the account (ON DELETE CASCADE)
DeleteUser == \E u \in Users :
  /\ edits < MaxAdmin /\ account[u].live
  /\ account' = [account EXCEPT ![u].live = FALSE]
  /\ enrolment' = [enrolment EXCEPT ![u] = None]
  /\ sessions' = [s \in Sids |-> IF s \in SessionsOf(u) THEN None ELSE sessions[s]]
  /\ edits' = edits + 1
  /\ UNCHANGED <<challenged, req, clock, crashes, gen, ghosts>>

\* an account whose lock runs out is open again
Tick ==
  /\ clock < MaxClock /\ clock' = clock + 1
  /\ tries' = [u \in Users |-> IF Locked(u) /\ account[u].lockedUntil <= clock + 1
                               THEN 0 ELSE tries[u]]
  /\ UNCHANGED <<rows, challenged, req, crashes, edits, gen, lost, accepted, replayed, confirmed>>

\* a worker stops: its handlers are gone, the rows stay
Crash ==
  /\ crashes < MaxCrash /\ \E h \in Handlers : ~At(h, "idle")
  /\ crashes' = crashes + 1
  /\ req' = [h \in Handlers |-> Idle]
  /\ lost' = [u \in Users |-> lost[u] +
       Cardinality({h \in Handlers : At(h, "record") /\ req[h].user = u})]
  /\ UNCHANGED <<rows, challenged, clock, edits, gen, tries, accepted, replayed, confirmed>>

Step(h) ==
  \/ Arrive(h) \/ LoadUser(h) \/ CheckLockout(h) \/ Authenticate(h)
  \/ RecordFailed(h) \/ RecordSuccess(h) \/ Factor(h) \/ MatchCode(h)
  \/ ClaimStep(h) \/ RedeemCode(h) \/ ReadCap(h) \/ Evict(h) \/ InsertSession(h)
  \/ Visit(h) \/ Touch(h) \/ Expire(h)
  \/ ConfirmRead(h) \/ ConfirmEnable(h) \/ CancelRead(h) \/ CancelDrop(h)

Next == \/ \E h \in Handlers : Step(h)
        \/ Logout \/ RevokeOwn \/ RevokeAny \/ BeginEnrolment \/ DisableMfa
        \/ UpdateUser \/ ToggleActive \/ DeleteUser \/ Tick \/ Crash

Spec == Init /\ [][Next]_vars

----------------------------------------------------------------- \* properties
Inserting(u) == {h \in Handlers : At(h, "insert") /\ req[h].user = u}

\* SESSION_MAX_CONCURRENT: the eviction and the insert are two statements, so
\* sign-ins that overlap can exceed the cap; they never exceed it by more than
\* the sign-ins that run at once (session_service.create_session).
SessionsBounded ==
  TypeOK /\ \A cap \in {SessionCap[r] : r \in Roles} :
    (\A r \in Roles : SessionCap[r] \in 1..cap) =>
      \A u \in Users : Cardinality(SessionsOf(u)) + Cardinality(Inserting(u))
                         <= cap - 1 + Cardinality(Handlers)

\* LOGIN_MAX_FAILED_ATTEMPTS: the lockout is read before the guess and counted
\* after it, and both factors share the counter.  Between two openings of an
\* account no more wrong guesses are weighed than the limit, the handlers that
\* had passed the check, and those a crash kept from being counted.
GuessBudget ==
  \A u \in Users : account[u].live =>
    tries[u] <= MaxFailed - 1 + Cardinality(Handlers) + lost[u]

\* A code is good once: a time step or a recovery code is never accepted twice
\* on one enrolment, however the two presentations interleave (verify_login_code).
CodesOnce == ~replayed

\* Handlers that hold a decision made on u's earlier enrolment row
Stale(u, pc) == \E h \in Handlers : At(h, pc) /\ req[h].user = u

\* The second factor is never lost by accident: an enabled enrolment stays, with
\* its secret, until the user disables it or the account is deleted -- or a
\* cancel decided before the confirmation it overlaps; and a secret is enabled
\* only if a code was matched against it, unless a new draft replaced it while
\* the confirmation was between its two statements (begin, confirm, cancel).
MfaStep ==
  \A u \in Users :
       /\ (Enabled(u) /\ ~(Enabled(u)' /\ enrolment'[u].gen = enrolment[u].gen)) =>
            \/ DisableMfa \/ ~account'[u].live \/ Stale(u, "drop")
       /\ (Enabled(u)' /\ ~Enabled(u)) =>
            \/ enrolment'[u].gen \in confirmed
            \/ \E h \in Handlers : At(h, "enable") /\ req[h].user = u /\ req[h].num < enrolment[u].gen

MfaHolds == [][MfaStep]_vars
=============================================================================
