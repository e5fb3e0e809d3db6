---------------------------- MODULE SignInProofs ----------------------------
(***************************************************************************)
(* Signing in, for every number of users, handlers, session ids, recovery  *)
(* codes and crashes: the cap on sessions, the budget of wrong guesses, the *)
(* single use of codes and the steps of an enrolment.  Last, the limiter   *)
(* that every request goes through (Limiter), for every number of workers,  *)
(* callers, budgets and paths.                                             *)
(***************************************************************************)
EXTENDS SignIn, Limiter, FiniteSetTheorems, SequenceTheorems, TLAPS

-----------------------------------------------------------------------------
(* Type correctness.  A request that is about to touch a session writes the *)
(* time at which it read the row, which is later than the row's creation.    *)

Requests == DOMAIN req = Handlers /\ \A h \in Handlers : RequestOK(req[h])
OthersKept(h) == \A g \in Handlers \ {h} : req'[g] = req[g]

Touching ==
  /\ \A s \in Sids : sessions[s] # None => sessions[s].created <= clock
  /\ \A h \in Handlers : req[h].pc = "touch" =>
       LET row == sessions[req[h].what] IN row # None => row.created <= req[h].num

TypeInv == TypeOK /\ Touching

LEMMA IdleOK == RequestOK(Idle)
  BY DEF RequestOK, Idle, Stages

\* A handler that ends, moves on, or moves on with something it read.
LEMMA Moves ==
  ASSUME Requests, NEW h \in Handlers, NEW r, RequestOK(r), req' = [req EXCEPT ![h] = r]
  PROVE  Requests' /\ OthersKept(h) /\ req'[h] = r
  BY DEF Requests, OthersKept

LEMMA EndMoves ==
  ASSUME Requests, NEW h \in Handlers, End(h)
  PROVE  Requests' /\ OthersKept(h) /\ req'[h] = Idle
  BY IdleOK, Moves DEF End

LEMMA GotoMoves ==
  ASSUME Requests, NEW h \in Handlers, NEW pc \in Stages \ {"idle", "touch", "expire"}, Goto(h, pc),
         ~At(h, "idle")
  PROVE  /\ Requests' /\ OthersKept(h)
         /\ req'[h].pc = pc /\ req'[h].user = req[h].user /\ req'[h].kind = req[h].kind
         /\ req'[h].what = req[h].what /\ req'[h].num = req[h].num
  <1> DEFINE r == [req[h] EXCEPT !.pc = pc]
  <1>1. req' = [req EXCEPT ![h] = r]
    BY DEF Goto
  <1>2. RequestOK(req[h]) /\ req[h].user \in Users
    BY DEF Requests, RequestOK, At
  <1>3. /\ DOMAIN r = DOMAIN req[h] /\ r.pc = pc /\ r.user = req[h].user /\ r.kind = req[h].kind
        /\ r.what = req[h].what /\ r.num = req[h].num
    BY <1>2 DEF RequestOK
  <1> HIDE DEF r
  <1>4. RequestOK(r)
    BY <1>2, <1>3 DEF RequestOK
  <1> QED BY <1>1, <1>3, <1>4, Moves

LEMMA HoldMoves ==
  ASSUME Requests, NEW h \in Handlers, NEW pc \in Stages \ {"idle", "touch", "expire"}, NEW v, NEW n \in Int,
         Hold(h, pc, v, n), ~At(h, "idle")
  PROVE  /\ Requests' /\ OthersKept(h)
         /\ req'[h].pc = pc /\ req'[h].user = req[h].user /\ req'[h].kind = req[h].kind
         /\ req'[h].what = v /\ req'[h].num = n
  <1> DEFINE r == [req[h] EXCEPT !.pc = pc, !.what = v, !.num = n]
  <1>1. req' = [req EXCEPT ![h] = r]
    BY DEF Hold
  <1>2. RequestOK(req[h]) /\ req[h].user \in Users
    BY DEF Requests, RequestOK, At
  <1>3. /\ DOMAIN r = DOMAIN req[h] /\ r.pc = pc /\ r.user = req[h].user /\ r.kind = req[h].kind
        /\ r.what = v /\ r.num = n
    BY <1>2 DEF RequestOK
  <1> HIDE DEF r
  <1>4. RequestOK(r)
    BY <1>2, <1>3 DEF RequestOK
  <1> QED BY <1>1, <1>3, <1>4, Moves

\* A request that is not about to touch a session leaves the dates of the others.
LEMMA QuietTouch ==
  ASSUME Touching, NEW h \in Handlers, OthersKept(h), req'[h].pc # "touch",
         sessions' = sessions, clock' = clock
  PROVE  Touching'
  BY DEF Touching, OthersKept

LEMMA InitType == Init => TypeInv
  <1> SUFFICES ASSUME Init PROVE TypeInv
    OBVIOUS
  <1>1. account \in [Users -> Account]
    <2>1. ASSUME NEW u \in Users PROVE account[u] \in Account
      <3>1. PICK r \in Roles : account[u] = [live |-> TRUE, active |-> TRUE, role |-> r,
                                            failed |-> 0, lockedUntil |-> 0]
        BY DEF Init
      <3> QED BY <3>1 DEF Account
    <2> QED BY <2>1 DEF Init
  <1>2. enrolment \in [Users -> Enrolment \cup {None}]
    <2> DEFINE new == [gen |-> 1, enabled |-> TRUE, last |-> -1, codes |-> Recovery]
    <2>1. new \in Enrolment
      BY DEF Enrolment
    <2>2. enrolment \in [Users -> {None, new}]
      BY DEF Init
    <2> HIDE DEF new
    <2> QED BY <2>1, <2>2
  <1>3. \A u \in Users : enrolment[u] # None => enrolment[u].gen <= gen
    BY DEF Init
  <1>4. Requests
    BY IdleOK DEF Requests, Init
  <1>5. challenged \subseteq Users
    BY DEF Init
  <1> QED BY <1>1, <1>2, <1>3, <1>4, <1>5 DEF TypeInv, TypeOK, Touching, Init, Requests, Idle

\* The steps of a sign-in that read, and the counting of wrong guesses.
LEMMA ReadsKeepType ==
  ASSUME TypeInv, NEW h \in Handlers,
         \/ Arrive(h) \/ LoadUser(h) \/ CheckLockout(h) \/ Authenticate(h)
         \/ Factor(h) \/ MatchCode(h) \/ ReadCap(h)
  PROVE  TypeInv'
  <1> USE DEF TypeInv
  <1>0. Requests
    BY DEF TypeOK, Requests
  <1>1. ASSUME Requests', OthersKept(h), req'[h].pc # "touch",
               UNCHANGED <<rows, counters>>, challenged' \subseteq Users,
               UNCHANGED lost, tries' \in [Users -> Nat]
        PROVE  TypeInv'
    BY <1>1, QuietTouch DEF TypeOK, rows, counters, Requests
  <1>2. \A u \in Users : Tried(u) \in [Users -> Nat]
    BY DEF Tried, TypeOK
  <1>3. ~At(h, "idle") => req[h].user \in Users /\ req[h].kind \in AllKinds \cup {None}
    BY <1>0 DEF Requests, RequestOK, At
  <1>4. CASE Arrive(h)
    <2>1. PICK u \in Users, k \in Kinds \cap {"page", "api", "mfa", "sso"} :
            req' = [req EXCEPT ![h] =
               [pc |-> IF k \in {"mfa", "sso"} THEN "load" ELSE "check", kind |-> k,
                user |-> u, what |-> None, num |-> 0]]
      BY <1>4 DEF Arrive
    <2> DEFINE r == [pc |-> IF k \in {"mfa", "sso"} THEN "load" ELSE "check", kind |-> k,
                     user |-> u, what |-> None, num |-> 0]
    <2>2. RequestOK(r) /\ r.pc # "touch"
      BY DEF RequestOK, Stages, AllKinds
    <2>3. req' = [req EXCEPT ![h] = r]
      BY <2>1
    <2> HIDE DEF r
    <2>4. Requests' /\ OthersKept(h) /\ req'[h].pc # "touch"
      BY <1>0, <2>2, <2>3, Moves
    <2> QED BY <1>1, <1>4, <2>4 DEF Arrive, TypeOK, ghosts
  <1>5. CASE LoadUser(h)
    <2>1. Requests' /\ OthersKept(h) /\ req'[h].pc # "touch"
      BY <1>0, <1>5, EndMoves, GotoMoves DEF LoadUser, At, Idle, Stages
    <2> QED BY <1>1, <1>5, <2>1 DEF LoadUser, TypeOK, ghosts
  <1>6. CASE CheckLockout(h)
    <2>1. Requests' /\ OthersKept(h) /\ req'[h].pc # "touch"
      BY <1>0, <1>6, EndMoves, GotoMoves DEF CheckLockout, At, Idle, Stages
    <2> QED BY <1>1, <1>6, <2>1 DEF CheckLockout, TypeOK, ghosts
  <1>7. CASE Authenticate(h)
    <2>1. Requests' /\ OthersKept(h) /\ req'[h].pc # "touch"
      BY <1>0, <1>7, HoldMoves, GotoMoves DEF Authenticate, At, Stages
    <2>2. tries' \in [Users -> Nat]
      BY <1>2, <1>3, <1>7 DEF Authenticate, At, TypeOK
    <2> QED BY <1>1, <1>7, <2>1, <2>2 DEF Authenticate, TypeOK
  <1>8. CASE Factor(h)
    <2>1. Requests' /\ OthersKept(h) /\ req'[h].pc # "touch"
      BY <1>0, <1>8, EndMoves, GotoMoves DEF Factor, At, Idle, Stages
    <2>2. challenged' \subseteq Users
      BY <1>3, <1>8 DEF Factor, At, TypeOK
    <2> QED BY <1>1, <1>8, <2>1, <2>2 DEF Factor, TypeOK, ghosts
  <1>9. CASE MatchCode(h)
    <2>1. ASSUME NEW s \in (clock - 1)..(clock + 1), Hold(h, "claim", None, s)
          PROVE  Requests' /\ OthersKept(h) /\ req'[h].pc # "touch"
      <3>1. s \in Int
        BY DEF TypeOK
      <3> QED BY <1>0, <1>9, <2>1, <3>1, HoldMoves DEF MatchCode, At, Stages
    <2>2. ASSUME Enabled(req[h].user), NEW c, Hold(h, "redeem", c, enrolment[req[h].user].gen)
          PROVE  Requests' /\ OthersKept(h) /\ req'[h].pc # "touch"
      <3>1. enrolment[req[h].user].gen \in Int
        BY <1>3, <1>9, <2>2 DEF MatchCode, At, TypeOK, Enabled, Enrolment
      <3> QED BY <1>0, <1>9, <2>2, <3>1, HoldMoves DEF MatchCode, At, Stages
    <2>3. ASSUME Goto(h, "record")
          PROVE  Requests' /\ OthersKept(h) /\ req'[h].pc # "touch"
      BY <1>0, <1>9, <2>3, GotoMoves DEF MatchCode, At, Stages
    <2>4. tries' \in [Users -> Nat]
      BY <1>2, <1>3, <1>9 DEF MatchCode, At, TypeOK
    <2>5. Requests' /\ OthersKept(h) /\ req'[h].pc # "touch"
      BY <1>9, <2>1, <2>2, <2>3 DEF MatchCode
    <2> QED BY <1>1, <1>9, <2>4, <2>5 DEF MatchCode, TypeOK
  <1>10. CASE ReadCap(h)
    <2>1. SessionCap[account[req[h].user].role] \in Int
      BY <1>3, <1>10, SignInAssumption DEF ReadCap, At, TypeOK, Account
    <2>2. Requests' /\ OthersKept(h) /\ req'[h].pc # "touch"
      BY <1>0, <1>10, <2>1, HoldMoves DEF ReadCap, At, Stages
    <2> QED BY <1>1, <1>10, <2>2 DEF ReadCap, TypeOK, ghosts
  <1> QED BY <1>4, <1>5, <1>6, <1>7, <1>8, <1>9, <1>10

\* The steps that count a guess, or accept a code.
LEMMA CountsKeepType ==
  ASSUME TypeInv, NEW h \in Handlers,
         RecordFailed(h) \/ RecordSuccess(h) \/ ClaimStep(h) \/ RedeemCode(h)
  PROVE  TypeInv'
  <1> USE DEF TypeInv
  <1>0. Requests
    BY DEF TypeOK, Requests
  <1>1. ASSUME Requests', OthersKept(h), req'[h].pc # "touch",
               UNCHANGED <<sessions, challenged, counters, lost>>,
               account' \in [Users -> Account], tries' \in [Users -> Nat],
               enrolment' \in [Users -> Enrolment \cup {None}],
               \A u \in Users : enrolment'[u] # None => enrolment'[u].gen <= gen
        PROVE  TypeInv'
    BY <1>1, QuietTouch DEF TypeOK, counters, Requests
  <1>2. ~At(h, "idle") => req[h].user \in Users /\ req[h].num \in Int
    BY <1>0 DEF Requests, RequestOK, At
  <1>3. \A u \in Users : Tried(u) \in [Users -> Nat]
    BY DEF Tried, TypeOK
  <1>4. CASE RecordFailed(h)
    <2> DEFINE u == req[h].user
    <2>1. u \in Users /\ account[u] \in Account
      BY <1>2, <1>4 DEF RecordFailed, At, TypeOK
    <2>2. ASSUME ~account[u].live PROVE account' \in [Users -> Account]
      <3>1. account' = account
        BY <1>4, <2>2 DEF RecordFailed
      <3> QED BY <3>1 DEF TypeOK
    <2>3. ASSUME account[u].live PROVE account' \in [Users -> Account]
      <3> DEFINE n == account[u].failed + 1
                 until == IF n >= MaxFailed THEN clock + LockFor ELSE account[u].lockedUntil
      <3>1. account' = [account EXCEPT ![u] = [account[u] EXCEPT !.failed = n, !.lockedUntil = until]]
        BY <1>4, <2>1, <2>3 DEF RecordFailed, TypeOK
      <3>2. n \in Nat /\ until \in Nat
        BY <2>1, SignInAssumption DEF TypeOK, Account
      <3> HIDE DEF n, until
      <3> QED BY <2>1, <3>1, <3>2 DEF TypeOK, Account
    <2>4. account' \in [Users -> Account]
      BY <2>2, <2>3
    <2>5. Requests' /\ OthersKept(h) /\ req'[h].pc # "touch"
      BY <1>0, <1>4, EndMoves DEF RecordFailed, Idle
    <2> QED BY <1>1, <1>4, <2>4, <2>5 DEF RecordFailed, TypeOK, ghosts
  <1>5. CASE RecordSuccess(h)
    <2>1. req[h].user \in Users
      BY <1>2, <1>5 DEF RecordSuccess, At
    <2>2. account' \in [Users -> Account] /\ tries' \in [Users -> Nat]
      <3>1. account' \in [Users -> Account]
        <4>1. account \in [Users -> Account]
          BY DEF TypeOK
        <4>2. account' = [account EXCEPT ![req[h].user].failed = 0, ![req[h].user].lockedUntil = 0]
          BY <1>5 DEF RecordSuccess
        <4> QED BY <2>1, <4>1, <4>2 DEF Account
      <3>2. tries' \in [Users -> Nat]
        BY <1>5, <2>1 DEF RecordSuccess, TypeOK
      <3> QED BY <3>1, <3>2
    <2>3. Requests' /\ OthersKept(h) /\ req'[h].pc # "touch"
      <3>1. CASE req[h].kind = "page"
        BY <1>0, <1>5, <3>1, GotoMoves DEF RecordSuccess, At, Stages
      <3>2. CASE req[h].kind = "sso"
        BY <1>0, <1>5, <3>2, EndMoves DEF RecordSuccess, Idle
      <3>3. CASE req[h].kind \notin {"page", "sso"}
        BY <1>0, <1>5, <3>3, GotoMoves DEF RecordSuccess, At, Stages
      <3> QED BY <3>1, <3>2, <3>3
    <2> QED BY <1>1, <1>5, <2>2, <2>3 DEF RecordSuccess, TypeOK
  <1>6. CASE ClaimStep(h)
    <2>1. req[h].user \in Users /\ req[h].num \in Int
      BY <1>2, <1>6 DEF ClaimStep, At
    <2>2. /\ enrolment' \in [Users -> Enrolment \cup {None}] /\ tries' \in [Users -> Nat]
          /\ \A u \in Users : enrolment'[u] # None => enrolment'[u].gen <= gen
      <3>1. CASE UNCHANGED enrolment
        BY <1>3, <1>6, <2>1, <3>1 DEF ClaimStep, TypeOK
      <3>2. CASE ~UNCHANGED enrolment
        <4>1. enrolment[req[h].user] \in Enrolment /\ UNCHANGED tries
          BY <1>6, <2>1, <3>2 DEF ClaimStep, TypeOK
        <4> QED BY <1>6, <2>1, <3>2, <4>1 DEF ClaimStep, TypeOK, Enrolment
      <3> QED BY <3>1, <3>2
    <2>3. Requests' /\ OthersKept(h) /\ req'[h].pc # "touch"
      BY <1>0, <1>6, GotoMoves DEF ClaimStep, At, Stages
    <2> QED BY <1>1, <1>6, <2>2, <2>3 DEF ClaimStep, TypeOK
  <1>7. CASE RedeemCode(h)
    <2>1. req[h].user \in Users
      BY <1>2, <1>7 DEF RedeemCode, At
    <2>2. /\ enrolment' \in [Users -> Enrolment \cup {None}] /\ tries' \in [Users -> Nat]
          /\ \A u \in Users : enrolment'[u] # None => enrolment'[u].gen <= gen
      <3>1. CASE UNCHANGED enrolment
        BY <1>3, <1>7, <2>1, <3>1 DEF RedeemCode, TypeOK
      <3>2. CASE ~UNCHANGED enrolment
        <4>1. enrolment[req[h].user] \in Enrolment /\ UNCHANGED tries
          BY <1>7, <2>1, <3>2 DEF RedeemCode, TypeOK
        <4> QED BY <1>7, <2>1, <3>2, <4>1 DEF RedeemCode, TypeOK, Enrolment
      <3> QED BY <3>1, <3>2
    <2>3. Requests' /\ OthersKept(h) /\ req'[h].pc # "touch"
      BY <1>0, <1>7, GotoMoves DEF RedeemCode, At, Stages
    <2> QED BY <1>1, <1>7, <2>2, <2>3 DEF RedeemCode, TypeOK
  <1> QED BY <1>4, <1>5, <1>6, <1>7

\* The statements on the sessions table.
LEMMA SessionsKeepType ==
  ASSUME TypeInv, NEW h \in Handlers,
         Evict(h) \/ InsertSession(h) \/ Visit(h) \/ Touch(h) \/ Expire(h)
  PROVE  TypeInv'
  <1> USE DEF TypeInv
  <1>0. Requests
    BY DEF TypeOK, Requests
  <1>1. ~At(h, "idle") => req[h].user \in Users
    BY <1>0 DEF Requests, RequestOK, At
  <1>2. ASSUME Requests', UNCHANGED <<account, enrolment, challenged, counters, ghosts>>, Touching',
               sessions' \in [Sids -> Session \cup {None}],
               \A s \in Sids : sessions'[s] # None => sessions'[s].created <= sessions'[s].active
        PROVE  TypeInv'
    BY <1>2 DEF TypeOK, counters, ghosts, Requests
  \* rows that go disturb nothing
  <1>3. ASSUME Requests', OthersKept(h), req'[h].pc # "touch",
               UNCHANGED <<account, enrolment, challenged, counters, ghosts>>,
               sessions' \in [Sids -> Session \cup {None}],
               \A s \in Sids : sessions'[s] \in {sessions[s], None}
        PROVE  TypeInv'
    <2>1. Touching'
      <3> SUFFICES ASSUME NEW g \in Handlers, req'[g].pc = "touch" PROVE
              LET row == sessions'[req'[g].what] IN row # None => row.created <= req'[g].num
        BY <1>3 DEF Touching, counters
      <3>1. g # h /\ req'[g] = req[g] /\ req[g].what \in Sids
        BY <1>0, <1>3 DEF OthersKept, Requests, RequestOK
      <3> QED BY <1>3, <3>1 DEF Touching
    <2> QED BY <1>2, <1>3, <2>1 DEF TypeOK
  <1>4. CASE Evict(h)
    <2>1. Requests' /\ OthersKept(h) /\ req'[h].pc # "touch"
      BY <1>0, <1>4, GotoMoves DEF Evict, At, Stages
    <2>2. /\ sessions' \in [Sids -> Session \cup {None}]
          /\ \A s \in Sids : sessions'[s] \in {sessions[s], None}
      BY <1>4 DEF Evict, TypeOK
    <2> QED BY <1>3, <1>4, <2>1, <2>2 DEF Evict
  <1>5. CASE InsertSession(h)
    <2>1. Requests' /\ OthersKept(h) /\ req'[h].pc # "touch"
      BY <1>0, <1>5, EndMoves, GotoMoves DEF InsertSession, At, Idle, Stages
    <2>2. CASE sessions' = sessions
      BY <1>3, <1>5, <2>1, <2>2 DEF InsertSession, TypeOK
    <2>3. CASE \E s \in Sids : /\ Fresh(s)
                               /\ sessions' = [sessions EXCEPT ![s] =
                                     [user |-> req[h].user, created |-> clock, active |-> clock]]
      <3>1. PICK s \in Sids : /\ Fresh(s)
                               /\ sessions' = [sessions EXCEPT ![s] =
                                     [user |-> req[h].user, created |-> clock, active |-> clock]]
        BY <2>3
      <3> DEFINE row == [user |-> req[h].user, created |-> clock, active |-> clock]
      <3>2. row \in Session /\ row.created = clock /\ row.active = clock /\ clock \in Nat
        BY <1>1, <1>5 DEF InsertSession, At, Session, TypeOK
      <3>3. sessions' = [sessions EXCEPT ![s] = row]
        BY <3>1
      <3> HIDE DEF row
      <3>4. sessions' \in [Sids -> Session \cup {None}]
        BY <3>2, <3>3 DEF TypeOK
      <3>5. \A t \in Sids : sessions'[t] # None => sessions'[t].created <= sessions'[t].active
        BY <3>2, <3>3 DEF TypeOK
      <3>6. Touching'
        <4>1. \A t \in Sids : sessions'[t] # None => sessions'[t].created <= clock
          BY <3>2, <3>3 DEF TypeOK, Touching
        <4>2. ASSUME NEW g \in Handlers, req'[g].pc = "touch"
              PROVE  sessions'[req'[g].what] # None => sessions'[req'[g].what].created <= req'[g].num
          <5>1. g # h /\ req'[g] = req[g] /\ req[g].what \in Sids
            BY <1>0, <2>1, <4>2 DEF OthersKept, Requests, RequestOK
          <5>2. req[g].what # s
            BY <3>1, <4>2, <5>1 DEF Fresh
          <5>3. sessions'[req[g].what] = sessions[req[g].what]
            BY <3>3, <5>1, <5>2 DEF TypeOK
          <5> QED BY <4>2, <5>1, <5>3 DEF Touching
        <4>3. clock' = clock
          BY <1>5 DEF InsertSession, counters
        <4> QED BY <4>1, <4>2, <4>3 DEF Touching
      <3> QED BY <1>2, <1>5, <2>1, <3>4, <3>5, <3>6 DEF InsertSession
    <2> QED BY <1>5, <2>2, <2>3 DEF InsertSession
  <1>6. CASE Visit(h)
    <2>1. PICK s \in Sids, pc \in {"expire", "touch"} :
            /\ sessions[s] # None
            /\ req' = [req EXCEPT ![h] = [pc |-> pc, kind |-> "visit",
                         user |-> sessions[s].user, what |-> s, num |-> clock]]
      BY <1>6 DEF Visit
    <2> DEFINE r == [pc |-> pc, kind |-> "visit", user |-> sessions[s].user, what |-> s, num |-> clock]
    <2>2. RequestOK(r)
      BY <2>1 DEF RequestOK, Stages, AllKinds, TypeOK, Session
    <2>3. req' = [req EXCEPT ![h] = r] /\ r.what = s /\ r.num = clock
      BY <2>1
    <2> HIDE DEF r
    <2>4. Requests' /\ OthersKept(h) /\ req'[h] = r
      BY <1>0, <2>2, <2>3, Moves
    <2>5. Touching'
      BY <1>6, <2>1, <2>3, <2>4 DEF Touching, OthersKept, Visit, rows, counters
    <2> QED BY <1>2, <1>6, <2>4, <2>5 DEF Visit, rows, TypeOK
  <1>7. CASE Touch(h)
    <2>1. Requests' /\ OthersKept(h) /\ req'[h].pc # "touch"
      BY <1>0, <1>7, EndMoves DEF Touch, Idle
    <2>2. CASE sessions' = sessions
      BY <1>3, <1>7, <2>1, <2>2 DEF Touch, TypeOK
    <2>3. CASE sessions' # sessions
      <3> DEFINE s == req[h].what
      <3>1. s \in Sids /\ req[h].num \in Nat
        BY <1>0, <1>7 DEF Touch, At, Requests, RequestOK
      <3>2. sessions[s] # None /\ sessions' = [sessions EXCEPT ![s].active = req[h].num]
        BY <1>7, <2>3 DEF Touch
      <3>3. sessions[s] \in Session /\ sessions[s].created <= req[h].num
        BY <1>7, <3>1, <3>2 DEF Touch, At, TypeOK, Touching
      <3>4. /\ sessions' \in [Sids -> Session \cup {None}]
            /\ \A t \in Sids : sessions'[t] # None => sessions'[t].created <= sessions'[t].active
            /\ \A t \in Sids : /\ sessions'[t] = None <=> sessions[t] = None
                               /\ sessions[t] # None => sessions'[t].created = sessions[t].created
        BY <3>1, <3>2, <3>3, SignInAssumption DEF TypeOK, Session
      <3>5. Touching'
        <4>1. \A t \in Sids : sessions'[t] # None => sessions'[t].created <= clock
          BY <3>4 DEF Touching
        <4>2. ASSUME NEW g \in Handlers, req'[g].pc = "touch"
              PROVE  sessions'[req'[g].what] # None => sessions'[req'[g].what].created <= req'[g].num
          <5>1. g # h /\ req'[g] = req[g] /\ req[g].what \in Sids
            BY <1>0, <2>1, <4>2 DEF OthersKept, Requests, RequestOK
          <5> QED BY <3>4, <4>2, <5>1 DEF Touching
        <4> QED BY <1>7, <4>1, <4>2 DEF Touching, Touch, counters
      <3> QED BY <1>2, <1>7, <2>1, <3>4, <3>5 DEF Touch
    <2> QED BY <2>2, <2>3
  <1>8. CASE Expire(h)
    <2>1. Requests' /\ OthersKept(h) /\ req'[h].pc # "touch"
      BY <1>0, <1>8, EndMoves DEF Expire, Idle
    <2>2. /\ sessions' \in [Sids -> Session \cup {None}]
          /\ \A s \in Sids : sessions'[s] \in {sessions[s], None}
      BY <1>8 DEF Expire, TypeOK
    <2> QED BY <1>3, <1>8, <2>1, <2>2 DEF Expire
  <1> QED BY <1>4, <1>5, <1>6, <1>7, <1>8

\* The statements of an enrolment.
LEMMA EnrolmentKeepsType ==
  ASSUME TypeInv, NEW h \in Handlers,
         ConfirmRead(h) \/ ConfirmEnable(h) \/ CancelRead(h) \/ CancelDrop(h)
  PROVE  TypeInv'
  <1> USE DEF TypeInv
  <1>0. Requests
    BY DEF TypeOK, Requests
  <1>1. ASSUME Requests', OthersKept(h), req'[h].pc # "touch",
               UNCHANGED <<account, sessions, challenged, counters, tries, lost>>,
               enrolment' \in [Users -> Enrolment \cup {None}],
               \A u \in Users : enrolment'[u] # None => enrolment'[u].gen <= gen
        PROVE  TypeInv'
    BY <1>1, QuietTouch DEF TypeOK, counters, Requests
  <1>2. ~At(h, "idle") => req[h].user \in Users
    BY <1>0 DEF Requests, RequestOK, At
  <1>3. CASE ConfirmRead(h)
    <2>1. PICK u \in Users :
            /\ enrolment[u] # None
            /\ req' = [req EXCEPT ![h] = [pc |-> "enable", kind |-> "confirm", user |-> u,
                                         what |-> None, num |-> enrolment[u].gen]]
      BY <1>3 DEF ConfirmRead
    <2> DEFINE r == [pc |-> "enable", kind |-> "confirm", user |-> u, what |-> None,
                     num |-> enrolment[u].gen]
    <2>2. enrolment[u].gen \in Int
      BY <2>1 DEF TypeOK, Enrolment
    <2>3. RequestOK(r) /\ r.pc # "touch"
      BY <2>2 DEF RequestOK, Stages, AllKinds
    <2>4. req' = [req EXCEPT ![h] = r]
      BY <2>1
    <2> HIDE DEF r
    <2>5. Requests' /\ OthersKept(h) /\ req'[h].pc # "touch"
      BY <1>0, <2>3, <2>4, Moves
    <2> QED BY <1>1, <1>3, <2>5 DEF ConfirmRead, rows, TypeOK
  <1>4. CASE ConfirmEnable(h)
    <2>1. Requests' /\ OthersKept(h) /\ req'[h].pc # "touch"
      BY <1>0, <1>4, EndMoves DEF ConfirmEnable, Idle
    <2>2. /\ enrolment' \in [Users -> Enrolment \cup {None}]
          /\ \A u \in Users : enrolment'[u] # None => enrolment'[u].gen <= gen
      <3>1. ASSUME enrolment[req[h].user] = None
            PROVE  enrolment' = enrolment
        BY <1>4, <3>1 DEF ConfirmEnable
      <3>2. ASSUME enrolment[req[h].user] # None
            PROVE  /\ enrolment' \in [Users -> Enrolment \cup {None}]
                   /\ \A u \in Users : enrolment'[u] # None => enrolment'[u].gen <= gen
        <4>1. req[h].user \in Users /\ enrolment[req[h].user] \in Enrolment
          BY <1>2, <1>4, <3>2 DEF ConfirmEnable, At, TypeOK
        <4>2. enrolment' = [enrolment EXCEPT ![req[h].user].enabled = TRUE]
          BY <1>4, <3>2 DEF ConfirmEnable
        <4> DEFINE row == [enrolment[req[h].user] EXCEPT !.enabled = TRUE]
        <4>3. row \in Enrolment /\ row.gen = enrolment[req[h].user].gen
          BY <4>1 DEF Enrolment
        <4>4. enrolment' = [enrolment EXCEPT ![req[h].user] = row]
          BY <4>1, <4>2 DEF TypeOK
        <4> HIDE DEF row
        <4> QED BY <3>2, <4>1, <4>3, <4>4 DEF TypeOK
      <3> QED BY <3>1, <3>2 DEF TypeOK
    <2> QED BY <1>1, <1>4, <2>1, <2>2 DEF ConfirmEnable, ghosts
  <1>5. CASE CancelRead(h)
    <2>1. PICK u \in Users :
            req' = [req EXCEPT ![h] = [pc |-> "drop", kind |-> "cancel", user |-> u, what |-> None, num |-> 0]]
      BY <1>5 DEF CancelRead
    <2> DEFINE r == [pc |-> "drop", kind |-> "cancel", user |-> u, what |-> None, num |-> 0]
    <2>2. RequestOK(r) /\ r.pc # "touch"
      BY DEF RequestOK, Stages, AllKinds
    <2>3. req' = [req EXCEPT ![h] = r]
      BY <2>1
    <2> HIDE DEF r
    <2>4. Requests' /\ OthersKept(h) /\ req'[h].pc # "touch"
      BY <1>0, <2>2, <2>3, Moves
    <2> QED BY <1>1, <1>5, <2>4 DEF CancelRead, rows, ghosts, TypeOK
  <1>6. CASE CancelDrop(h)
    <2>1. Requests' /\ OthersKept(h) /\ req'[h].pc # "touch"
      BY <1>0, <1>6, EndMoves DEF CancelDrop, Idle
    <2>2. /\ enrolment' \in [Users -> Enrolment \cup {None}]
          /\ \A u \in Users : enrolment'[u] # None => enrolment'[u].gen <= gen
      BY <1>6 DEF CancelDrop, TypeOK
    <2> QED BY <1>1, <1>6, <2>1, <2>2 DEF CancelDrop, ghosts
  <1> QED BY <1>3, <1>4, <1>5, <1>6

\* What is no handler: revocations, a new draft, administrators, time, a crash.
LEMMA OutsideKeepsType ==
  ASSUME TypeInv,
         \/ Logout \/ RevokeOwn \/ RevokeAny \/ BeginEnrolment \/ DisableMfa
         \/ UpdateUser \/ ToggleActive \/ DeleteUser \/ Tick \/ Crash
  PROVE  TypeInv'
  <1> USE DEF TypeInv
  <1>0. Requests
    BY DEF TypeOK, Requests
  \* rows that go disturb nothing
  <1>1. ASSUME sessions' \in [Sids -> Session \cup {None}], UNCHANGED <<req, clock>>,
               \A s \in Sids : sessions'[s] \in {sessions[s], None}
        PROVE  Touching' /\ \A s \in Sids : sessions'[s] # None => sessions'[s].created <= sessions'[s].active
    BY <1>0, <1>1 DEF Touching, TypeOK, Requests, RequestOK
  <1>2. ASSUME NEW s \in Sids, Revoke(s) PROVE TypeInv'
    <2>1. sessions' \in [Sids -> Session \cup {None}] /\ \A t \in Sids : sessions'[t] \in {sessions[t], None}
      BY <1>2 DEF Revoke, TypeOK
    <2> QED BY <1>1, <1>2, <2>1 DEF Revoke, TypeOK, counters, ghosts
  <1>3. CASE Logout \/ RevokeOwn \/ RevokeAny
    BY <1>2, <1>3 DEF Logout, RevokeOwn, RevokeAny, SessionsOf
  <1>4. CASE BeginEnrolment
    <2>1. PICK u \in Users : /\ gen' = gen + 1
                             /\ enrolment' = [enrolment EXCEPT ![u] =
                                  [gen |-> gen + 1, enabled |-> FALSE, last |-> -1, codes |-> Recovery]]
                             /\ UNCHANGED <<account, sessions, challenged, req, clock, crashes, edits, ghosts>>
      BY <1>4 DEF BeginEnrolment
    <2> DEFINE row == [gen |-> gen + 1, enabled |-> FALSE, last |-> -1, codes |-> Recovery]
    <2>2. row \in Enrolment /\ row.gen = gen + 1 /\ gen \in Nat
      BY DEF Enrolment, TypeOK
    <2>3. enrolment' = [enrolment EXCEPT ![u] = row]
      BY <2>1
    <2> HIDE DEF row
    <2>4. enrolment' \in [Users -> Enrolment \cup {None}]
      BY <2>2, <2>3 DEF TypeOK
    <2>5. \A v \in Users : enrolment'[v] # None => enrolment'[v].gen <= gen'
      <3> SUFFICES ASSUME NEW v \in Users, enrolment'[v] # None PROVE enrolment'[v].gen <= gen'
        OBVIOUS
      <3>1. CASE v = u
        BY <2>1, <2>2, <2>3, <3>1 DEF TypeOK
      <3>2. CASE v # u
        <4>1. enrolment'[v] = enrolment[v] /\ enrolment[v] \in Enrolment /\ enrolment[v].gen <= gen
          BY <2>3, <3>2 DEF TypeOK
        <4> QED BY <2>1, <2>2, <4>1 DEF Enrolment
      <3> QED BY <3>1, <3>2
    <2> QED BY <2>1, <2>2, <2>4, <2>5 DEF TypeOK, Touching, ghosts
  <1>5. CASE DisableMfa
    BY <1>5 DEF DisableMfa, TypeOK, Touching, counters, ghosts
  <1>6. CASE UpdateUser
    BY <1>6 DEF UpdateUser, TypeOK, Touching, ghosts, Account
  <1>7. CASE ToggleActive
    <2>1. PICK u \in Users : account' = [account EXCEPT ![u].active = ~@]
      BY <1>7 DEF ToggleActive
    <2> DEFINE row == [account[u] EXCEPT !.active = ~account[u].active]
    <2>2. account[u] \in Account
      BY DEF TypeOK
    <2>3. row \in Account
      BY <2>2 DEF Account
    <2>4. account' = [account EXCEPT ![u] = row]
      BY <2>1, <2>2 DEF TypeOK
    <2> HIDE DEF row
    <2>5. account' \in [Users -> Account]
      BY <2>3, <2>4 DEF TypeOK
    <2> QED BY <1>7, <2>5 DEF ToggleActive, TypeOK, Touching, ghosts
  <1>8. CASE DeleteUser
    <2>1. PICK u \in Users :
            /\ account' = [account EXCEPT ![u].live = FALSE]
            /\ enrolment' = [enrolment EXCEPT ![u] = None]
            /\ sessions' = [s \in Sids |-> IF s \in SessionsOf(u) THEN None ELSE sessions[s]]
            /\ UNCHANGED <<challenged, req, clock, crashes, gen, ghosts>>
      BY <1>8 DEF DeleteUser
    <2>2. account' \in [Users -> Account]
      BY <2>1 DEF TypeOK, Account
    <2>3. sessions' \in [Sids -> Session \cup {None}] /\ \A t \in Sids : sessions'[t] \in {sessions[t], None}
      BY <2>1 DEF TypeOK
    <2>4. /\ enrolment' \in [Users -> Enrolment \cup {None}]
          /\ \A v \in Users : enrolment'[v] # None => enrolment'[v].gen <= gen
      BY <2>1 DEF TypeOK
    <2> QED BY <1>1, <2>1, <2>2, <2>3, <2>4 DEF TypeOK, ghosts
  <1>9. CASE Tick
    <2>1. clock' = clock + 1 /\ clock \in Nat
      BY <1>9 DEF Tick, TypeOK
    <2>2. tries' \in [Users -> Nat]
      BY <1>9 DEF Tick, TypeOK
    <2>3. \A s \in Sids : sessions[s] # None => sessions[s].created <= clock'
      BY <2>1 DEF Touching, TypeOK, Session
    <2> QED BY <1>9, <2>1, <2>2, <2>3 DEF Tick, TypeOK, Touching, rows
  <1>10. CASE Crash
    <2>1. \A h \in Handlers : req'[h] = Idle
      BY <1>10 DEF Crash
    <2>2. Requests'
      BY <1>10, <2>1, IdleOK DEF Crash, Requests
    <2>3. lost' \in [Users -> Nat]
      <3>1. ASSUME NEW u \in Users
            PROVE  Cardinality({h \in Handlers : At(h, "record") /\ req[h].user = u}) \in Nat
        BY SignInAssumption, FS_Subset, FS_CardinalityType
      <3> QED BY <1>10, <3>1 DEF Crash, TypeOK
    <2> QED BY <1>10, <2>1, <2>2, <2>3 DEF Crash, TypeOK, Touching, rows, Requests, Idle
  <1> QED BY <1>3, <1>4, <1>5, <1>6, <1>7, <1>8, <1>9, <1>10

LEMMA NextType == ASSUME TypeInv, [Next]_vars PROVE TypeInv'
  <1>1. CASE UNCHANGED vars
    BY <1>1 DEF vars, rows, counters, ghosts, TypeInv, TypeOK, Touching
  <1>2. CASE Next
    BY <1>2, ReadsKeepType, CountsKeepType, SessionsKeepType, EnrolmentKeepsType, OutsideKeepsType
       DEF Next, Step
  <1> QED BY <1>1, <1>2

\* A session is touched at or after its creation, whenever the request that
\* touches it read it, and every table and request has its type.
THEOREM SignInTypes == Spec => []TypeInv
  <1> QED BY InitType, NextType, PTL DEF Spec

-----------------------------------------------------------------------------
(* Where each statement leaves its handler.                                  *)

Goes(h, P) ==
  OthersKept(h) /\ req'[h].pc \in P /\ (req'[h].pc # "idle" => req'[h].user = req[h].user)

LEMMA StepGoes ==
  ASSUME TypeInv, NEW h \in Handlers
  PROVE  /\ Arrive(h) => OthersKept(h) /\ req'[h].pc \in {"load", "check"}
         /\ LoadUser(h) => Goes(h, {"idle", "cap", "check"})
         /\ CheckLockout(h) => Goes(h, {"idle", "enrolment", "password"})
         /\ Authenticate(h) => Goes(h, {"reset", "record"})
         /\ RecordFailed(h) => Goes(h, {"idle"})
         /\ RecordSuccess(h) => Goes(h, {"idle", "factor", "cap"})
         /\ Factor(h) => Goes(h, {"idle", "cap"})
         /\ MatchCode(h) => Goes(h, {"claim", "redeem", "record"})
         /\ ClaimStep(h) \/ RedeemCode(h) => Goes(h, {"reset", "record"})
         /\ ReadCap(h) => Goes(h, {"evict"})
         /\ Evict(h) => Goes(h, {"insert"})
         /\ InsertSession(h) => Goes(h, {"idle", "reset"})
         /\ Visit(h) => OthersKept(h) /\ req'[h].pc \in {"expire", "touch"}
         /\ Touch(h) \/ Expire(h) \/ ConfirmEnable(h) \/ CancelDrop(h) => Goes(h, {"idle"})
         /\ ConfirmRead(h) => OthersKept(h) /\ req'[h].pc = "enable"
         /\ CancelRead(h) => OthersKept(h) /\ req'[h].pc = "drop"
  <1>0. Requests /\ Idle.pc = "idle"
    BY DEF TypeInv, TypeOK, Requests, Idle
  <1>1. ASSUME End(h) PROVE \A P : "idle" \in P => Goes(h, P)
    BY <1>0, <1>1, EndMoves DEF Goes
  <1>2. ASSUME ~At(h, "idle"), NEW pc \in Stages \ {"idle", "touch", "expire"}, Goto(h, pc)
        PROVE  \A P : pc \in P => Goes(h, P)
    BY <1>0, <1>2, GotoMoves DEF Goes
  <1>3. ASSUME NEW pc, NEW v, NEW n, Hold(h, pc, v, n)
        PROVE  \A P : pc \in P => Goes(h, P)
    <2>1. OthersKept(h) /\ req'[h].pc = pc /\ req'[h].user = req[h].user
      BY <1>0, <1>3 DEF Hold, OthersKept, Requests, RequestOK
    <2> QED BY <2>1 DEF Goes
  <1>4. Arrive(h) => OthersKept(h) /\ req'[h].pc \in {"load", "check"}
    BY <1>0 DEF Arrive, OthersKept, Requests
  <1>5. LoadUser(h) => Goes(h, {"idle", "cap", "check"})
    BY <1>1, <1>2 DEF LoadUser, At, Stages
  <1>6. CheckLockout(h) => Goes(h, {"idle", "enrolment", "password"})
    BY <1>1, <1>2 DEF CheckLockout, At, Stages
  <1>7. Authenticate(h) => Goes(h, {"reset", "record"})
    BY <1>2, <1>3 DEF Authenticate, At, Stages
  <1>8. RecordFailed(h) => Goes(h, {"idle"})
    BY <1>1 DEF RecordFailed
  <1>9. RecordSuccess(h) => Goes(h, {"idle", "factor", "cap"})
    BY <1>1, <1>2 DEF RecordSuccess, At, Stages
  <1>10. Factor(h) => Goes(h, {"idle", "cap"})
    BY <1>1, <1>2 DEF Factor, At, Stages
  <1>11. MatchCode(h) => Goes(h, {"claim", "redeem", "record"})
    <2>1. ASSUME MatchCode(h), Goto(h, "record") PROVE Goes(h, {"claim", "redeem", "record"})
      BY <1>2, <2>1 DEF MatchCode, At, Stages
    <2>2. ASSUME NEW s, Hold(h, "claim", None, s) PROVE Goes(h, {"claim", "redeem", "record"})
      BY <1>3, <2>2
    <2>3. ASSUME NEW c, NEW n, Hold(h, "redeem", c, n) PROVE Goes(h, {"claim", "redeem", "record"})
      BY <1>3, <2>3
    <2> QED BY <2>1, <2>2, <2>3 DEF MatchCode
  <1>12. ClaimStep(h) \/ RedeemCode(h) => Goes(h, {"reset", "record"})
    BY <1>2 DEF ClaimStep, RedeemCode, At, Stages
  <1>13. ReadCap(h) => Goes(h, {"evict"})
    BY <1>3 DEF ReadCap
  <1>14. Evict(h) => Goes(h, {"insert"})
    BY <1>2 DEF Evict, At, Stages
  <1>15. InsertSession(h) => Goes(h, {"idle", "reset"})
    BY <1>1, <1>2 DEF InsertSession, At, Stages
  <1>16. Visit(h) => OthersKept(h) /\ req'[h].pc \in {"expire", "touch"}
    BY <1>0 DEF Visit, OthersKept, Requests
  <1>17. Touch(h) \/ Expire(h) \/ ConfirmEnable(h) \/ CancelDrop(h) => Goes(h, {"idle"})
    BY <1>1 DEF Touch, Expire, ConfirmEnable, CancelDrop
  <1>18. /\ ConfirmRead(h) => OthersKept(h) /\ req'[h].pc = "enable"
         /\ CancelRead(h) => OthersKept(h) /\ req'[h].pc = "drop"
    BY <1>0 DEF ConfirmRead, CancelRead, OthersKept, Requests
  <1> QED BY <1>4, <1>5, <1>6, <1>7, <1>8, <1>9, <1>10, <1>11, <1>12, <1>13, <1>14, <1>15, <1>16,
             <1>17, <1>18

\* What runs outside the handlers moves none of them, except that a crash ends all.
LEMMA OutsideGoes ==
  ASSUME [Next]_vars, ~\E h \in Handlers : Step(h)
  PROVE  req' = req \/ (Crash /\ req' = [h \in Handlers |-> Idle])
  <1>1. CASE UNCHANGED vars
    BY <1>1 DEF vars
  <1>2. ASSUME \/ Logout \/ RevokeOwn \/ RevokeAny \/ BeginEnrolment \/ DisableMfa
               \/ UpdateUser \/ ToggleActive \/ DeleteUser \/ Tick
        PROVE  req' = req
    BY <1>2 DEF Logout, RevokeOwn, RevokeAny, Revoke, BeginEnrolment, DisableMfa, UpdateUser,
                ToggleActive, DeleteUser, Tick
  <1>3. CASE Crash
    BY <1>3 DEF Crash
  <1> QED BY <1>1, <1>2, <1>3 DEF Next

-----------------------------------------------------------------------------
(* Codes.  What was accepted on a user's present row is behind it: a step is *)
(* at most the last one written, a recovery code is no longer in the row.    *)
(* A new draft has a number that nothing was accepted under.                 *)

Behind(a) ==
  LET row == enrolment[a[1]] IN
    (row # None /\ row.gen = a[2]) => /\ a[3] \in Int => a[3] <= row.last
                                      /\ a[3] \notin row.codes

Spent ==
  \A a \in accepted : a \in Users \X Nat \X (Int \cup Recovery) /\ a[2] <= gen /\ Behind(a)

CodeInv == TypeInv /\ Spent /\ CodesOnce

\* The steps that write an enrolment, accept a code or number a draft.
LEMMA EnrolmentSteps ==
  ASSUME [Next]_vars
  PROVE  \/ UNCHANGED <<enrolment, accepted, replayed, gen>>
         \/ \E h \in Handlers : ClaimStep(h) \/ RedeemCode(h) \/ ConfirmEnable(h) \/ CancelDrop(h)
         \/ BeginEnrolment \/ DisableMfa \/ DeleteUser
  <1>1. CASE UNCHANGED vars
    BY <1>1 DEF vars, rows, counters, ghosts
  <1>2. ASSUME NEW h \in Handlers,
               \/ Arrive(h) \/ LoadUser(h) \/ CheckLockout(h) \/ Authenticate(h) \/ RecordFailed(h)
               \/ RecordSuccess(h) \/ Factor(h) \/ MatchCode(h) \/ ReadCap(h) \/ Evict(h)
               \/ InsertSession(h) \/ Visit(h) \/ Touch(h) \/ Expire(h)
        PROVE  UNCHANGED <<enrolment, accepted, replayed, gen>>
    BY <1>2 DEF Arrive, LoadUser, CheckLockout, Authenticate, RecordFailed, RecordSuccess, Factor,
                MatchCode, ReadCap, Evict, InsertSession, Visit, Touch, Expire, rows, counters, ghosts
  <1>3. ASSUME NEW h \in Handlers, ConfirmRead(h) \/ CancelRead(h)
        PROVE  UNCHANGED <<enrolment, accepted, replayed, gen>>
    BY <1>3 DEF ConfirmRead, CancelRead, rows, counters, ghosts
  <1>4. ASSUME Logout \/ RevokeOwn \/ RevokeAny \/ UpdateUser \/ ToggleActive \/ Tick \/ Crash
        PROVE  UNCHANGED <<enrolment, accepted, replayed, gen>>
    BY <1>4 DEF Logout, RevokeOwn, RevokeAny, Revoke, UpdateUser, ToggleActive, Tick, Crash,
                rows, counters, ghosts
  <1> QED BY <1>1, <1>2, <1>3, <1>4 DEF Next, Step

\* An accepted code takes its place behind the row that accepted it.
LEMMA AcceptOnce ==
  ASSUME CodeInv, NEW u \in Users, NEW c \in Int \cup Recovery, Accept(u, c), UNCHANGED gen,
         enrolment[u] # None, NEW row \in Enrolment, enrolment' = [enrolment EXCEPT ![u] = row],
         row.gen = enrolment[u].gen, row.last >= enrolment[u].last,
         row.codes \subseteq enrolment[u].codes,
         \/ c \in Int /\ enrolment[u].last < c /\ c <= row.last
         \/ c \in enrolment[u].codes /\ c \notin row.codes
  PROVE  Spent' /\ CodesOnce'
  <1> DEFINE g == enrolment[u].gen
  <1>1. enrolment[u] \in Enrolment /\ g \in Nat /\ g <= gen
    BY DEF CodeInv, TypeInv, TypeOK, Enrolment
  <1>2. /\ enrolment[u].last \in Int /\ row.last \in Int /\ row.codes \subseteq Recovery
        /\ enrolment[u].codes \subseteq Recovery
    BY <1>1 DEF Enrolment
  <1>3. c \in Int => c \notin Recovery
    BY SignInAssumption
  <1>4. <<u, g, c>> \notin accepted
    <2> SUFFICES ASSUME <<u, g, c>> \in accepted PROVE FALSE
      OBVIOUS
    <2>1. Behind(<<u, g, c>>)
      BY DEF CodeInv, Spent
    <2>2. (c \in Int => c <= enrolment[u].last) /\ c \notin enrolment[u].codes
      BY <2>1 DEF Behind
    <2> QED BY <1>2, <1>3, <2>2
  <1>5. CodesOnce'
    BY <1>4 DEF Accept, CodesOnce, CodeInv
  <1>6. enrolment'[u] = row /\ \A v \in Users \ {u} : enrolment'[v] = enrolment[v]
    BY DEF CodeInv, TypeInv, TypeOK
  <1>7. ASSUME NEW a \in accepted'
        PROVE  a \in Users \X Nat \X (Int \cup Recovery) /\ a[2] <= gen' /\ Behind(a)'
    <2>1. CASE a = <<u, g, c>>
      <3>1. (c \in Int => c <= row.last) /\ c \notin row.codes
        BY <1>2, <1>3
      <3>2. Behind(a)'
        BY <1>6, <2>1, <3>1 DEF Behind
      <3> QED BY <1>1, <2>1, <3>2
    <2>2. CASE a \in accepted
      <3>1. a \in Users \X Nat \X (Int \cup Recovery) /\ a[2] <= gen /\ Behind(a)
        BY <2>2 DEF CodeInv, Spent
      <3>2. CASE a[1] # u
        <4>1. enrolment'[a[1]] = enrolment[a[1]]
          BY <1>6, <3>1, <3>2
        <4> QED BY <3>1, <4>1 DEF Behind
      <3>3. CASE a[1] = u
        <4>1. a[2] = g => (a[3] \in Int => a[3] <= enrolment[u].last) /\ a[3] \notin enrolment[u].codes
          BY <3>1, <3>3 DEF Behind
        <4>2. a[2] = g => (a[3] \in Int => a[3] <= row.last) /\ a[3] \notin row.codes
          BY <1>2, <4>1
        <4> QED BY <1>6, <3>1, <3>3, <4>2 DEF Behind
      <3> QED BY <3>2, <3>3
    <2> QED BY <2>1, <2>2 DEF Accept
  <1> QED BY <1>5, <1>7 DEF Spent

\* Rows that go, are enabled or are begun anew leave what was accepted behind.
LEMMA OthersSpent ==
  ASSUME CodeInv, UNCHANGED <<accepted, replayed>>, gen' \in Nat, gen <= gen',
         \A u \in Users : \/ enrolment'[u] \in {enrolment[u], None}
                         \/ enrolment'[u].gen > gen
                         \/ /\ enrolment[u] # None
                            /\ enrolment'[u].gen = enrolment[u].gen
                            /\ enrolment'[u].last = enrolment[u].last
                            /\ enrolment'[u].codes = enrolment[u].codes
  PROVE  Spent' /\ CodesOnce'
  <1>1. ASSUME NEW a \in accepted
        PROVE  a \in Users \X Nat \X (Int \cup Recovery) /\ a[2] <= gen' /\ Behind(a)'
    <2>1. a \in Users \X Nat \X (Int \cup Recovery) /\ a[2] <= gen /\ Behind(a)
      BY DEF CodeInv, Spent
    <2>2. gen \in Nat /\ a[2] \in Nat /\ a[1] \in Users
      BY <2>1 DEF CodeInv, TypeInv, TypeOK
    <2>3. a[2] <= gen'
      BY <2>1, <2>2
    <2>4. CASE enrolment'[a[1]] \in {enrolment[a[1]], None}
      BY <2>1, <2>3, <2>4 DEF Behind
    <2>5. CASE enrolment'[a[1]].gen > gen
      <3>1. enrolment'[a[1]].gen # a[2]
        BY <2>1, <2>2, <2>5
      <3> QED BY <2>1, <2>3, <3>1 DEF Behind
    <2>6. CASE /\ enrolment[a[1]] # None
               /\ enrolment'[a[1]].gen = enrolment[a[1]].gen
               /\ enrolment'[a[1]].last = enrolment[a[1]].last
               /\ enrolment'[a[1]].codes = enrolment[a[1]].codes
      BY <2>1, <2>3, <2>6 DEF Behind
    <2> QED BY <2>2, <2>4, <2>5, <2>6
  <1> QED BY <1>1 DEF Spent, CodesOnce, CodeInv

LEMMA CodeStep == ASSUME CodeInv, [Next]_vars PROVE CodeInv'
  <1> USE DEF CodeInv
  <1>0. TypeInv'
    BY NextType
  <1>1. enrolment \in [Users -> Enrolment \cup {None}] /\ gen \in Nat /\ Requests
    BY DEF TypeInv, TypeOK, Requests
  <1>2. CASE UNCHANGED <<enrolment, accepted, replayed, gen>>
    BY <1>0, <1>2 DEF Spent, Behind, CodesOnce
  <1>3. ASSUME NEW h \in Handlers, ClaimStep(h) PROVE Spent' /\ CodesOnce'
    <2> DEFINE u == req[h].user
    <2>1. u \in Users /\ req[h].num \in Int
      BY <1>1, <1>3 DEF ClaimStep, At, Requests, RequestOK
    <2>2. CASE enrolment[u] # None /\ enrolment[u].last < req[h].num
      <3> DEFINE row == [enrolment[u] EXCEPT !.last = req[h].num]
      <3>1. enrolment[u] \in Enrolment
        BY <1>1, <2>1, <2>2
      <3>2. /\ row \in Enrolment /\ row.gen = enrolment[u].gen /\ row.last = req[h].num
            /\ row.codes = enrolment[u].codes /\ enrolment[u].last \in Int
        BY <2>1, <3>1 DEF Enrolment
      <3>3. enrolment' = [enrolment EXCEPT ![u] = row] /\ Accept(u, req[h].num) /\ UNCHANGED gen
        BY <1>1, <1>3, <2>1, <2>2 DEF ClaimStep, counters
      <3>4. row.last >= enrolment[u].last /\ row.codes \subseteq enrolment[u].codes
        BY <2>1, <2>2, <3>2
      <3>5. req[h].num \in Int /\ enrolment[u].last < req[h].num /\ req[h].num <= row.last
        BY <2>1, <2>2, <3>2
      <3>6. req[h].num \in Int \cup Recovery
        BY <2>1
      <3> HIDE DEF row, u
      <3> QED BY <2>1, <2>2, <3>2, <3>3, <3>4, <3>5, <3>6, AcceptOnce, Zenon
    <2>3. CASE ~(enrolment[u] # None /\ enrolment[u].last < req[h].num)
      <3>1. UNCHANGED <<enrolment, accepted, replayed, gen>>
        BY <1>3, <2>3 DEF ClaimStep, counters
      <3> QED BY <3>1 DEF Spent, Behind, CodesOnce
    <2> QED BY <2>2, <2>3
  <1>4. ASSUME NEW h \in Handlers, RedeemCode(h) PROVE Spent' /\ CodesOnce'
    <2> DEFINE u == req[h].user
               c == req[h].what
    <2>1. u \in Users
      BY <1>1, <1>4 DEF RedeemCode, At, Requests, RequestOK
    <2>2. CASE enrolment[u] # None /\ enrolment[u].gen = req[h].num /\ c \in enrolment[u].codes
      <3> DEFINE row == [enrolment[u] EXCEPT !.codes = enrolment[u].codes \ {c}]
      <3>1. enrolment[u] \in Enrolment
        BY <1>1, <2>1, <2>2
      <3>2. /\ row \in Enrolment /\ row.gen = enrolment[u].gen /\ row.last = enrolment[u].last
            /\ row.codes = enrolment[u].codes \ {c} /\ enrolment[u].last \in Int
            /\ enrolment[u].codes \subseteq Recovery
        BY <3>1 DEF Enrolment
      <3>3. enrolment' = [enrolment EXCEPT ![u] = row] /\ Accept(u, c) /\ UNCHANGED gen
        BY <1>1, <1>4, <2>1, <2>2 DEF RedeemCode, counters
      <3>4. /\ c \in Int \cup Recovery /\ c \in enrolment[u].codes /\ c \notin row.codes
            /\ row.codes \subseteq enrolment[u].codes
        BY <2>2, <3>2
      <3>5. row.last >= enrolment[u].last
        BY <3>2
      <3> HIDE DEF row, u, c
      <3> QED BY <2>1, <2>2, <3>2, <3>3, <3>4, <3>5, AcceptOnce, Zenon
    <2>3. CASE ~(enrolment[u] # None /\ enrolment[u].gen = req[h].num /\ c \in enrolment[u].codes)
      <3>1. UNCHANGED <<enrolment, accepted, replayed, gen>>
        BY <1>4, <2>3 DEF RedeemCode, counters
      <3> QED BY <3>1 DEF Spent, Behind, CodesOnce
    <2> QED BY <2>2, <2>3
  <1>5. ASSUME NEW h \in Handlers, ConfirmEnable(h) PROVE Spent' /\ CodesOnce'
    <2> DEFINE u == req[h].user
    <2>1. u \in Users /\ UNCHANGED <<accepted, replayed, gen>>
      BY <1>1, <1>5 DEF ConfirmEnable, At, Requests, RequestOK, counters, ghosts
    <2>2. CASE enrolment[u] = None
      <3>1. UNCHANGED <<enrolment, accepted, replayed, gen>>
        BY <1>5, <2>1, <2>2 DEF ConfirmEnable
      <3> QED BY <3>1 DEF Spent, Behind, CodesOnce
    <2>3. CASE enrolment[u] # None
      <3>1. enrolment' = [enrolment EXCEPT ![u] = [enrolment[u] EXCEPT !.enabled = TRUE]]
        BY <1>1, <1>5, <2>1, <2>3 DEF ConfirmEnable
      <3>2. enrolment[u] \in Enrolment
        BY <1>1, <2>1, <2>3
      <3>3. \A v \in Users : \/ enrolment'[v] \in {enrolment[v], None}
                             \/ /\ enrolment[v] # None
                                /\ enrolment'[v].gen = enrolment[v].gen
                                /\ enrolment'[v].last = enrolment[v].last
                                /\ enrolment'[v].codes = enrolment[v].codes
        BY <1>1, <2>1, <2>3, <3>1, <3>2 DEF Enrolment
      <3> QED BY <1>1, <2>1, <3>3, OthersSpent
    <2> QED BY <2>2, <2>3
  <1>6. ASSUME \/ \E h \in Handlers : CancelDrop(h)
               \/ DisableMfa \/ DeleteUser
        PROVE  Spent' /\ CodesOnce'
    <2>1. \A v \in Users : enrolment'[v] \in {enrolment[v], None}
      BY <1>1, <1>6 DEF CancelDrop, DisableMfa, DeleteUser
    <2>2. UNCHANGED <<accepted, replayed, gen>>
      BY <1>6 DEF CancelDrop, DisableMfa, DeleteUser, counters, ghosts
    <2> QED BY <1>1, <2>1, <2>2, OthersSpent
  <1>7. ASSUME BeginEnrolment PROVE Spent' /\ CodesOnce'
    <2>1. PICK u \in Users : enrolment' = [enrolment EXCEPT ![u] =
            [gen |-> gen + 1, enabled |-> FALSE, last |-> -1, codes |-> Recovery]]
      BY <1>7 DEF BeginEnrolment
    <2>2. UNCHANGED <<accepted, replayed>> /\ gen' = gen + 1
      BY <1>7 DEF BeginEnrolment, ghosts
    <2>3. \A v \in Users : enrolment'[v] \in {enrolment[v], None} \/ enrolment'[v].gen > gen
      BY <1>1, <2>1
    <2> QED BY <1>1, <2>2, <2>3, OthersSpent
  <1> QED BY <1>0, <1>2, <1>3, <1>4, <1>5, <1>6, <1>7, EnrolmentSteps

\* No code is accepted twice on one enrolment, for any number of users,
\* handlers and recovery codes, whatever is presented at the same time and
\* whenever a worker stops: the statement that accepts a code is the one that
\* puts it behind the row.
THEOREM CodeOnce == Spec => []CodesOnce
  <1>1. Init => CodeInv
    BY InitType DEF Init, CodeInv, Spent, CodesOnce
  <1> QED BY <1>1, CodeStep, PTL DEF Spec, CodeInv

-----------------------------------------------------------------------------
(* Enrolments.  A confirmation between its statements matched a secret that  *)
(* is, or was before, the user's: what is there by now is no older.          *)

Matched ==
  \A h \in Handlers : req[h].pc = "enable" =>
    /\ req[h].num \in confirmed /\ req[h].num <= gen
    /\ LET row == enrolment[req[h].user] IN row # None => req[h].num <= row.gen

MfaInv == TypeInv /\ Matched

\* Rows keep their secret, go, or are drafts newer than any secret.
LEMMA MatchedKept ==
  ASSUME MfaInv, TypeInv', confirmed' = confirmed, gen' \in Nat, gen <= gen',
         \A u \in Users : \/ enrolment'[u] = None
                         \/ (enrolment[u] # None /\ enrolment'[u].gen = enrolment[u].gen)
                         \/ enrolment'[u].gen > gen,
         \A h \in Handlers : req'[h].pc = "enable" => req'[h] = req[h]
  PROVE  Matched'
  <1> SUFFICES ASSUME NEW h \in Handlers, req'[h].pc = "enable"
               PROVE  /\ req[h].num \in confirmed /\ req[h].num <= gen'
                      /\ enrolment'[req[h].user] # None => req[h].num <= enrolment'[req[h].user].gen
    BY DEF Matched
  <1>1. req'[h] = req[h] /\ req[h].user \in Users /\ req[h].num \in Int
    BY DEF MfaInv, TypeInv, TypeOK, RequestOK
  <1>2. /\ req[h].num \in confirmed /\ req[h].num <= gen
        /\ enrolment[req[h].user] # None => req[h].num <= enrolment[req[h].user].gen
    BY <1>1 DEF MfaInv, Matched
  <1>3. gen \in Nat
    BY DEF MfaInv, TypeInv, TypeOK
  <1>4. ASSUME enrolment'[req[h].user] # None PROVE req[h].num <= enrolment'[req[h].user].gen
    <2>1. CASE enrolment[req[h].user] # None /\ enrolment'[req[h].user].gen = enrolment[req[h].user].gen
      BY <1>2, <2>1
    <2>2. CASE enrolment'[req[h].user].gen > gen
      <3>1. enrolment'[req[h].user] \in Enrolment'
        BY <1>1, <1>4 DEF TypeInv, TypeOK
      <3>2. enrolment'[req[h].user].gen \in Nat
        BY <3>1 DEF Enrolment
      <3> QED BY <1>1, <1>2, <1>3, <2>2, <3>2
    <2> QED BY <1>1, <1>4, <2>1, <2>2
  <1> QED BY <1>1, <1>2, <1>3, <1>4

\* Only a confirmation's first statement makes a request one to enable.
LEMMA EnableSteps ==
  ASSUME TypeInv, [Next]_vars, ~\E h \in Handlers : ConfirmRead(h)
  PROVE  confirmed' = confirmed /\ \A h \in Handlers : req'[h].pc = "enable" => req'[h] = req[h]
  <1>1. ASSUME NEW h \in Handlers, Step(h)
        PROVE  confirmed' = confirmed /\ \A g \in Handlers : req'[g].pc = "enable" => req'[g] = req[g]
    <2>1. confirmed' = confirmed
      BY <1>1 DEF Step, Arrive, LoadUser, CheckLockout, Authenticate, RecordFailed, RecordSuccess,
                  Factor, MatchCode, ClaimStep, RedeemCode, ReadCap, Evict, InsertSession, Visit,
                  Touch, Expire, ConfirmEnable, CancelRead, CancelDrop, ghosts
    <2>2. OthersKept(h) /\ req'[h].pc # "enable"
      BY <1>1, StepGoes DEF Step, Goes
    <2> QED BY <2>1, <2>2 DEF OthersKept
  <1>2. ASSUME ~\E h \in Handlers : Step(h)
        PROVE  confirmed' = confirmed /\ \A g \in Handlers : req'[g].pc = "enable" => req'[g] = req[g]
    <2>1. confirmed' = confirmed
      BY <1>2 DEF Next, vars, Logout, RevokeOwn, RevokeAny, Revoke, BeginEnrolment, DisableMfa,
                  UpdateUser, ToggleActive, DeleteUser, Tick, Crash, ghosts
    <2> QED BY <1>2, <2>1, OutsideGoes DEF Idle
  <1> QED BY <1>1, <1>2

\* What a step does to the rows.
LEMMA EnrolmentRows ==
  ASSUME TypeInv, [Next]_vars
  PROVE  /\ gen' \in Nat /\ gen <= gen'
         /\ \A u \in Users : \/ enrolment'[u] = None
                            \/ (enrolment[u] # None /\ enrolment'[u].gen = enrolment[u].gen)
                            \/ enrolment'[u].gen > gen
  <1>1. enrolment \in [Users -> Enrolment \cup {None}] /\ gen \in Nat /\ Requests
    BY DEF TypeInv, TypeOK, Requests
  <1>2. CASE UNCHANGED <<enrolment, accepted, replayed, gen>>
    BY <1>1, <1>2
  <1>3. CASE \E h \in Handlers : ClaimStep(h) \/ RedeemCode(h) \/ ConfirmEnable(h)
    <2>1. PICK h \in Handlers : ClaimStep(h) \/ RedeemCode(h) \/ ConfirmEnable(h)
      BY <1>3
    <2>2. gen' = gen /\ req[h].user \in Users
      BY <1>1, <2>1 DEF ClaimStep, RedeemCode, ConfirmEnable, At, Requests, RequestOK, counters
    <2>3. CASE enrolment' = enrolment
      BY <1>1, <2>2, <2>3
    <2>4. CASE enrolment' # enrolment
      <3>1. enrolment[req[h].user] # None /\ enrolment[req[h].user] \in Enrolment
        BY <1>1, <2>1, <2>2, <2>4 DEF ClaimStep, RedeemCode, ConfirmEnable
      <3>2. \/ enrolment' = [enrolment EXCEPT ![req[h].user].last = req[h].num]
            \/ enrolment' = [enrolment EXCEPT ![req[h].user].codes = @ \ {req[h].what}]
            \/ enrolment' = [enrolment EXCEPT ![req[h].user].enabled = TRUE]
        BY <2>1, <2>4 DEF ClaimStep, RedeemCode, ConfirmEnable
      <3>3. enrolment'[req[h].user].gen = enrolment[req[h].user].gen
        BY <1>1, <2>2, <3>1, <3>2 DEF Enrolment
      <3>4. \A v \in Users \ {req[h].user} : enrolment'[v] = enrolment[v]
        BY <1>1, <2>2, <3>2
      <3> QED BY <1>1, <2>2, <3>1, <3>3, <3>4
    <2> QED BY <2>3, <2>4
  <1>4. CASE (\E h \in Handlers : CancelDrop(h)) \/ DisableMfa \/ DeleteUser
    <2>1. gen' = gen
      BY <1>4 DEF CancelDrop, DisableMfa, DeleteUser, counters
    <2>2. \A u \in Users : enrolment'[u] \in {enrolment[u], None}
      BY <1>1, <1>4 DEF CancelDrop, DisableMfa, DeleteUser
    <2> QED BY <1>1, <2>1, <2>2
  <1>5. CASE BeginEnrolment
    BY <1>1, <1>5 DEF BeginEnrolment
  <1> QED BY <1>2, <1>3, <1>4, <1>5, EnrolmentSteps

LEMMA MfaInvStep == ASSUME MfaInv, [Next]_vars PROVE MfaInv'
  <1>0. TypeInv /\ TypeInv' /\ Matched
    BY NextType DEF MfaInv
  <1>1. CASE ~\E h \in Handlers : ConfirmRead(h)
    BY <1>0, <1>1, EnableSteps, EnrolmentRows, MatchedKept DEF MfaInv
  <1>2. ASSUME NEW h \in Handlers, ConfirmRead(h) PROVE Matched'
    <2>1. PICK u \in Users :
            /\ enrolment[u] # None
            /\ confirmed' = confirmed \cup {enrolment[u].gen}
            /\ req' = [req EXCEPT ![h] = [pc |-> "enable", kind |-> "confirm", user |-> u,
                                         what |-> None, num |-> enrolment[u].gen]]
      BY <1>2 DEF ConfirmRead
    <2>2. UNCHANGED <<enrolment, gen>>
      BY <1>2 DEF ConfirmRead, rows, counters
    <2>3. enrolment[u].gen \in Nat /\ enrolment[u].gen <= gen /\ DOMAIN req = Handlers
      BY <1>0, <2>1 DEF TypeInv, TypeOK, Enrolment
    <2> QED BY <1>0, <2>1, <2>2, <2>3 DEF Matched
  <1> QED BY <1>0, <1>1, <1>2 DEF MfaInv

LEMMA MfaStepHolds == ASSUME MfaInv, [Next]_vars PROVE [MfaStep]_vars
  <1> SUFFICES ASSUME NEW u \in Users
        PROVE  /\ (Enabled(u) /\ ~(Enabled(u)' /\ enrolment'[u].gen = enrolment[u].gen)) =>
                    \/ DisableMfa \/ ~account'[u].live \/ Stale(u, "drop")
               /\ (Enabled(u)' /\ ~Enabled(u)) =>
                    \/ enrolment'[u].gen \in confirmed
                    \/ \E h \in Handlers : /\ At(h, "enable") /\ req[h].user = u
                                           /\ req[h].num < enrolment[u].gen
    BY DEF MfaStep
  <1>1. enrolment \in [Users -> Enrolment \cup {None}] /\ gen \in Nat /\ Requests
    BY DEF MfaInv, TypeInv, TypeOK, Requests
  <1>2. CASE enrolment' = enrolment
    BY <1>2 DEF Enabled
  <1>3. ASSUME NEW h \in Handlers, ClaimStep(h) \/ RedeemCode(h), enrolment' # enrolment
        PROVE  Enabled(u)' = Enabled(u) /\ enrolment'[u].gen = enrolment[u].gen
    <2>1. /\ req[h].user \in Users /\ enrolment[req[h].user] \in Enrolment
          /\ enrolment[req[h].user] # None
      BY <1>1, <1>3 DEF ClaimStep, RedeemCode, At, Requests, RequestOK
    <2>2. PICK row : /\ enrolment' = [enrolment EXCEPT ![req[h].user] = row] /\ row \in Enrolment
                     /\ row.gen = enrolment[req[h].user].gen
                     /\ row.enabled = enrolment[req[h].user].enabled
      <3>1. CASE ClaimStep(h)
        <4> DEFINE row == [enrolment[req[h].user] EXCEPT !.last = req[h].num]
        <4>1. enrolment' = [enrolment EXCEPT ![req[h].user] = row]
          BY <1>1, <1>3, <2>1, <3>1 DEF ClaimStep
        <4>2. req[h].num \in Int
          BY <1>1, <3>1 DEF Requests, RequestOK
        <4>3. row \in Enrolment /\ row.gen = enrolment[req[h].user].gen
          BY <2>1, <4>2 DEF Enrolment
        <4>4. row.enabled = enrolment[req[h].user].enabled
          BY <2>1 DEF Enrolment
        <4> QED BY <4>1, <4>3, <4>4
      <3>2. CASE RedeemCode(h)
        <4> DEFINE row == [enrolment[req[h].user] EXCEPT !.codes = enrolment[req[h].user].codes \ {req[h].what}]
        <4>1. enrolment' = [enrolment EXCEPT ![req[h].user] = row]
          BY <1>1, <1>3, <2>1, <3>2 DEF RedeemCode
        <4>2. row \in Enrolment /\ row.gen = enrolment[req[h].user].gen
          BY <2>1 DEF Enrolment
        <4>3. row.enabled = enrolment[req[h].user].enabled
          BY <2>1 DEF Enrolment
        <4> QED BY <4>1, <4>2, <4>3
      <3> QED BY <1>3, <3>1, <3>2
    <2>3. row # None
      BY <2>2, SignInAssumption DEF Enrolment
    <2>4. CASE u = req[h].user
      <3>1. enrolment'[u] = row
        BY <1>1, <2>2, <2>4
      <3> QED BY <2>1, <2>2, <2>3, <2>4, <3>1 DEF Enabled
    <2>5. CASE u # req[h].user
      <3>1. enrolment'[u] = enrolment[u]
        BY <1>1, <2>2, <2>5
      <3> QED BY <3>1 DEF Enabled
    <2> QED BY <2>4, <2>5
  <1>4. ASSUME NEW h \in Handlers, ConfirmEnable(h), enrolment' # enrolment
        PROVE  /\ Enabled(u) => Enabled(u)' /\ enrolment'[u].gen = enrolment[u].gen
               /\ (Enabled(u)' /\ ~Enabled(u)) =>
                     enrolment'[u].gen \in confirmed \/ (/\ At(h, "enable") /\ req[h].user = u
                                                       /\ req[h].num < enrolment[u].gen)
    <2>1. /\ req[h].user \in Users /\ enrolment[req[h].user] # None
          /\ enrolment[req[h].user] \in Enrolment /\ req[h].num \in Int
      BY <1>1, <1>4 DEF ConfirmEnable, At, Requests, RequestOK
    <2> DEFINE row == [enrolment[req[h].user] EXCEPT !.enabled = TRUE]
    <2>2. enrolment' = [enrolment EXCEPT ![req[h].user] = row]
      BY <1>1, <1>4, <2>1 DEF ConfirmEnable
    <2>3. row \in Enrolment /\ row.gen = enrolment[req[h].user].gen
      BY <2>1 DEF Enrolment
    <2>4. row.enabled
      BY <2>1 DEF Enrolment
    <2>5. row # None
      BY <2>3, SignInAssumption DEF Enrolment
    <2> HIDE DEF row
    <2>6. CASE u = req[h].user
      <3>1. enrolment'[u] = row
        BY <1>1, <2>2, <2>6
      <3>2. Enabled(u)' /\ enrolment'[u].gen = enrolment[u].gen
        BY <2>3, <2>4, <2>5, <2>6, <3>1 DEF Enabled
      <3>3. At(h, "enable") /\ req[h].num \in confirmed /\ req[h].num <= enrolment[u].gen
        BY <1>4, <2>1, <2>6 DEF ConfirmEnable, MfaInv, Matched, At
      <3>4. enrolment[u].gen \in Nat
        BY <2>1, <2>6 DEF Enrolment
      <3>5. req[h].num = enrolment[u].gen \/ req[h].num < enrolment[u].gen
        BY <2>1, <3>3, <3>4
      <3> QED BY <2>6, <3>2, <3>3, <3>5
    <2>7. CASE u # req[h].user
      <3>1. enrolment'[u] = enrolment[u]
        BY <1>1, <2>2, <2>7
      <3> QED BY <3>1 DEF Enabled
    <2> QED BY <2>6, <2>7
  <1>5. ASSUME NEW h \in Handlers, CancelDrop(h)
        PROVE  (Enabled(u)' => Enabled(u)) /\ (enrolment'[u] = enrolment[u] \/ Stale(u, "drop"))
    BY <1>1, <1>5 DEF CancelDrop, Enabled, Stale
  <1>6. ASSUME DeleteUser
        PROVE  (Enabled(u)' => Enabled(u)) /\ (enrolment'[u] = enrolment[u] \/ ~account'[u].live)
    <2>1. account \in [Users -> Account]
      BY DEF MfaInv, TypeInv, TypeOK
    <2>2. PICK v \in Users : /\ account' = [account EXCEPT ![v].live = FALSE]
                             /\ enrolment' = [enrolment EXCEPT ![v] = None]
      BY <1>6 DEF DeleteUser
    <2>3. ~account'[v].live
      BY <2>1, <2>2 DEF Account
    <2> QED BY <1>1, <2>2, <2>3 DEF Enabled
  <1>7. ASSUME DisableMfa PROVE Enabled(u)' => Enabled(u)
    BY <1>1, <1>7 DEF DisableMfa, Enabled
  <1>8. ASSUME BeginEnrolment
        PROVE  (Enabled(u)' => Enabled(u)) /\ (Enabled(u) => enrolment'[u] = enrolment[u])
    <2>1. PICK v \in Users :
            /\ ~Enabled(v)
            /\ enrolment' = [enrolment EXCEPT ![v] =
                 [gen |-> gen + 1, enabled |-> FALSE, last |-> -1, codes |-> Recovery]]
      BY <1>8 DEF BeginEnrolment
    <2>2. CASE u = v
      BY <1>1, <2>1, <2>2 DEF Enabled
    <2>3. CASE u # v
      BY <1>1, <2>1, <2>3 DEF Enabled
    <2> QED BY <2>2, <2>3
  <1> QED BY <1>2, <1>3, <1>4, <1>5, <1>6, <1>7, <1>8, EnrolmentSteps DEF Enabled

\* An enabled second factor stays with its secret until the user disables it,
\* the account goes, or a cancel decided earlier drops it; and a secret becomes
\* enabled only by a code matched against it or, if a new draft came between a
\* confirmation's two statements, against an older one.
THEOREM EnrolmentStays == Spec => MfaHolds
  <1>1. Init => MfaInv
    <2>1. Init => \A h \in Handlers : req[h].pc # "enable"
      BY DEF Init, Idle
    <2> QED BY <2>1, InitType DEF MfaInv, Matched
  <1>2. MfaInv /\ [Next]_vars => MfaInv' /\ [MfaStep]_vars
    BY MfaInvStep, MfaStepHolds
  <1> QED BY <1>1, <1>2, PTL DEF Spec, MfaHolds

-----------------------------------------------------------------------------
(* Counting the handlers that are at some of the stages for a user.          *)

Among(P, u) == {h \in Handlers : req[h].pc \in P /\ req[h].user = u}
One(b) == IF b THEN 1 ELSE 0

LEMMA AmongFinite ==
  ASSUME NEW P, NEW u
  PROVE  /\ IsFiniteSet(Among(P, u)) /\ Cardinality(Among(P, u)) \in Nat
         /\ Cardinality(Among(P, u)) <= Cardinality(Handlers)
  BY SignInAssumption, FS_Subset, FS_CardinalityType DEF Among

LEMMA AmongApart ==
  ASSUME NEW P, NEW Q, P \cap Q = {}, NEW u
  PROVE  Cardinality(Among(P, u)) + Cardinality(Among(Q, u)) <= Cardinality(Handlers)
  <1>1. /\ IsFiniteSet(Among(P, u)) /\ IsFiniteSet(Among(Q, u)) /\ Among(P, u) \cap Among(Q, u) = {}
        /\ Among(P, u) \cup Among(Q, u) \subseteq Handlers
    <2>1. IsFiniteSet(Among(P, u)) /\ IsFiniteSet(Among(Q, u))
      BY AmongFinite
    <2>2. Among(P, u) \cap Among(Q, u) = {}
      BY DEF Among
    <2>3. Among(P, u) \cup Among(Q, u) \subseteq Handlers
      BY DEF Among
    <2> QED BY <2>1, <2>2, <2>3
  <1>2. Cardinality(Among(P, u) \cup Among(Q, u)) = Cardinality(Among(P, u)) + Cardinality(Among(Q, u))
    <2> DEFINE A == Among(P, u)
               B == Among(Q, u)
    <2>1. /\ IsFiniteSet(A) /\ IsFiniteSet(B) /\ A \cap B = {}
          /\ Cardinality(A) \in Nat /\ Cardinality(B) \in Nat
      BY <1>1, FS_CardinalityType
    <2> HIDE DEF A, B
    <2>2. Cardinality(A \cup B) = Cardinality(A) + Cardinality(B) - Cardinality(A \cap B)
      BY <2>1, FS_Union
    <2>3. Cardinality(A \cap B) = 0
      BY <2>1, FS_EmptySet
    <2> QED BY <2>1, <2>2, <2>3 DEF A, B
  <1> QED BY <1>1, <1>2, SignInAssumption, FS_Subset

\* One more, one less, or the same, when one handler moves.
LEMMA SetMoves ==
  ASSUME NEW S, NEW T, NEW h, IsFiniteSet(S), \A x : x # h => (x \in S <=> x \in T)
  PROVE  Cardinality(T) = Cardinality(S) + One(h \in T) - One(h \in S)
  <1>0. Cardinality(S) \in Nat
    BY FS_CardinalityType
  <1>1. CASE h \in S <=> h \in T
    <2>1. S = T
      BY <1>1
    <2> QED BY <1>0, <2>1 DEF One
  <1>2. CASE h \notin S /\ h \in T
    <2>1. T = S \cup {h}
      BY <1>2
    <2> QED BY <1>0, <1>2, <2>1, FS_AddElement DEF One
  <1>3. CASE h \in S /\ h \notin T
    <2>1. T = S \ {h}
      BY <1>3
    <2> QED BY <1>0, <1>3, <2>1, FS_RemoveElement DEF One
  <1> QED BY <1>1, <1>2, <1>3

LEMMA AmongMoves ==
  ASSUME NEW h \in Handlers, OthersKept(h), NEW P, NEW u
  PROVE  Cardinality(Among(P, u)') = Cardinality(Among(P, u))
           + One(req'[h].pc \in P /\ req'[h].user = u) - One(req[h].pc \in P /\ req[h].user = u)
  <1> DEFINE S == Among(P, u)
             T == {g \in Handlers : req'[g].pc \in P /\ req'[g].user = u}
  <1>1. IsFiniteSet(S)
    BY AmongFinite
  <1>2. \A x : x # h => (x \in S <=> x \in T)
    BY DEF OthersKept, Among
  <1>3. /\ h \in S <=> (req[h].pc \in P /\ req[h].user = u)
        /\ h \in T <=> (req'[h].pc \in P /\ req'[h].user = u)
    BY DEF Among
  <1>4. Among(P, u)' = T
    BY DEF Among
  <1> HIDE DEF S, T
  <1>5. Cardinality(T) = Cardinality(S) + One(h \in T) - One(h \in S)
    BY <1>1, <1>2, SetMoves
  <1> QED BY <1>3, <1>4, <1>5 DEF One, S

-----------------------------------------------------------------------------
(* The session cap.  An eviction leaves one place below the cap and turns    *)
(* the handler into one about to insert; every insert uses up such a handler. *)

CapsRead ==
  \A h \in Handlers : req[h].pc = "evict" => \E r \in Roles : req[h].num = SessionCap[r]

Within(cap, u) ==
  Cardinality(SessionsOf(u)) + Cardinality(Inserting(u)) <= cap - 1 + Cardinality(Handlers)

CapInv ==
  /\ TypeInv /\ CapsRead
  /\ \A u \in Users : IsFiniteSet(SessionsOf(u))
  /\ SessionsBounded

LEMMA InsertingIs == \A u : Inserting(u) = Among({"insert"}, u)
  BY DEF Inserting, Among, At

LEMMA InsertingPrimed == \A u : Inserting(u)' = Among({"insert"}, u)'
  BY DEF Inserting, Among, At

\* Every other step only takes sessions, and handlers about to insert, away.
LEMMA QuietSteps ==
  ASSUME TypeInv, [Next]_vars, ~\E h \in Handlers : Evict(h) \/ InsertSession(h), NEW u \in Users
  PROVE  SessionsOf(u)' \subseteq SessionsOf(u) /\ Inserting(u)' \subseteq Inserting(u)
  <1>1. sessions \in [Sids -> Session \cup {None}]
    BY DEF TypeInv, TypeOK
  <1>2. ASSUME \A s \in Sids : sessions'[s] # None =>
                  sessions[s] # None /\ sessions'[s].user = sessions[s].user
        PROVE  SessionsOf(u)' \subseteq SessionsOf(u)
    BY <1>2 DEF SessionsOf
  <1>3. ASSUME \A h \in Handlers : req'[h].pc = "insert" => req'[h] = req[h]
        PROVE  Inserting(u)' \subseteq Inserting(u)
    BY <1>3 DEF Inserting, At
  <1>4. ASSUME NEW h \in Handlers, Step(h) PROVE SessionsOf(u)' \subseteq SessionsOf(u) /\ Inserting(u)' \subseteq Inserting(u)
    <2>1. OthersKept(h) /\ req'[h].pc # "insert"
      BY <1>4, StepGoes DEF Step, Goes
    <2>2. Inserting(u)' \subseteq Inserting(u)
      BY <1>3, <2>1 DEF OthersKept
    <2>3. CASE ~Touch(h) /\ ~Expire(h)
      <3>1. sessions' = sessions
        BY <1>4, <2>3 DEF Step, Arrive, LoadUser, CheckLockout, Authenticate, RecordFailed,
             RecordSuccess, Factor, MatchCode, ClaimStep, RedeemCode, ReadCap, Visit,
             ConfirmRead, ConfirmEnable, CancelRead, CancelDrop, rows
      <3> QED BY <1>2, <2>2, <3>1
    <2>4. CASE Expire(h)
      <3>1. \A s \in Sids : sessions'[s] \in {sessions[s], None}
        BY <1>1, <2>4 DEF Expire
      <3> QED BY <1>2, <2>2, <3>1
    <2>5. CASE Touch(h)
      <3>1. CASE sessions' = sessions
        BY <1>2, <2>2, <3>1
      <3>2. CASE sessions' # sessions
        <4>1. req[h].what \in Sids /\ sessions[req[h].what] # None
          BY <2>5, <3>2 DEF Touch, At, TypeInv, TypeOK, RequestOK
        <4>2. sessions[req[h].what] \in Session /\ sessions' = [sessions EXCEPT ![req[h].what].active = req[h].num]
          BY <1>1, <2>5, <3>2, <4>1 DEF Touch
        <4>3. \A s \in Sids : sessions'[s] # None =>
                 sessions[s] # None /\ sessions'[s].user = sessions[s].user
          BY <1>1, <4>1, <4>2 DEF Session
        <4> QED BY <1>2, <2>2, <4>3
      <3> QED BY <3>1, <3>2
    <2> QED BY <2>3, <2>4, <2>5
  <1>5. ASSUME ~\E h \in Handlers : Step(h) PROVE SessionsOf(u)' \subseteq SessionsOf(u) /\ Inserting(u)' \subseteq Inserting(u)
    <2>1. Inserting(u)' \subseteq Inserting(u)
      BY <1>3, <1>5, OutsideGoes DEF Idle
    <2>2. \A s \in Sids : sessions'[s] \in {sessions[s], None}
      BY <1>1, <1>5 DEF Next, vars, rows, Logout, RevokeOwn, RevokeAny, Revoke, BeginEnrolment, DisableMfa,
                  UpdateUser, ToggleActive, DeleteUser, Tick, Crash, SessionsOf
    <2> QED BY <1>2, <2>1, <2>2
  <1> QED BY <1>4, <1>5

LEMMA CapsReadKept == ASSUME TypeInv, CapsRead, [Next]_vars PROVE CapsRead'
  <1>1. ASSUME NEW h \in Handlers, Step(h) PROVE CapsRead'
    <2>1. CASE ~ReadCap(h)
      <3>1. OthersKept(h) /\ req'[h].pc # "evict"
        BY <1>1, <2>1, StepGoes DEF Step, Goes
      <3> QED BY <3>1 DEF CapsRead, OthersKept
    <2>2. CASE ReadCap(h)
      <3>1. req[h].user \in Users /\ OthersKept(h) /\ DOMAIN req = Handlers
        BY <2>2, StepGoes DEF ReadCap, Goes, At, TypeInv, TypeOK, RequestOK
      <3>2. account[req[h].user].role \in Roles
        BY <3>1 DEF TypeInv, TypeOK, Account
      <3>3. req'[h].num = SessionCap[account[req[h].user].role]
        BY <2>2, <3>1 DEF ReadCap, Hold, TypeInv, TypeOK, RequestOK
      <3> QED BY <3>1, <3>2, <3>3 DEF CapsRead, OthersKept
    <2> QED BY <2>1, <2>2
  <1>2. ASSUME ~\E h \in Handlers : Step(h) PROVE CapsRead'
    BY <1>2, OutsideGoes DEF CapsRead, Idle
  <1> QED BY <1>1, <1>2

LEMMA EvictKeeps ==
  ASSUME CapInv, NEW h \in Handlers, Evict(h), NEW u \in Users, NEW cap \in Nat,
         \A r \in Roles : SessionCap[r] \in 1..cap, Within(cap, u)
  PROVE  IsFiniteSet(SessionsOf(u))' /\ Within(cap, u)'
  <1>1. OthersKept(h) /\ req'[h].pc = "insert" /\ req'[h].user = req[h].user /\ req[h].pc = "evict"
    BY StepGoes DEF Evict, Goes, CapInv, At
  <1>2. /\ Cardinality(Inserting(u)') \in Nat /\ Cardinality(Handlers) \in Nat
        /\ Cardinality(Inserting(u)') <= Cardinality(Handlers)
    BY SignInAssumption, FS_Subset, FS_CardinalityType DEF Inserting
  <1>3. sessions' \in [Sids -> Session \cup {None}] /\ TypeInv
    <2>1. TypeInv'
      BY SessionsKeepType DEF CapInv
    <2> QED BY <2>1 DEF TypeInv, TypeOK, CapInv, Session
  <1>4. CASE u # req[h].user
    <2>1. SessionsOf(u)' = SessionsOf(u)
      BY <1>4 DEF Evict, SessionsOf
    <2>2. Inserting(u)' = Inserting(u)
      BY <1>1, <1>4 DEF Inserting, At, OthersKept
    <2> QED BY <2>1, <2>2 DEF CapInv, Within
  <1>5. CASE u = req[h].user
    <2>1. req[h].num \in 1..cap
      BY <1>1 DEF CapInv, CapsRead
    <2>2. PICK K \in Kept(u, req[h].num - 1) :
            sessions' = [s \in Sids |-> IF s \in SessionsOf(u) \ K THEN None ELSE sessions[s]]
      BY <1>5, <2>1 DEF Evict
    <2>3. K \subseteq SessionsOf(u) /\ IsFiniteSet(K) /\ Cardinality(K) \in Nat
      BY FS_Subset, FS_CardinalityType DEF Kept, CapInv
    <2>4. Cardinality(K) <= req[h].num - 1
      <3>1. Cardinality(SessionsOf(u)) \in Nat
        BY FS_CardinalityType DEF CapInv
      <3> QED BY <2>1, <3>1 DEF Kept
    <2>5. SessionsOf(u)' = K
      BY <2>2, <2>3 DEF SessionsOf
    <2>6. Cardinality(SessionsOf(u)') <= cap - 1 /\ Cardinality(SessionsOf(u)') \in Nat
      BY <2>1, <2>3, <2>4, <2>5
    <2> QED BY <1>2, <2>3, <2>5, <2>6 DEF Within
  <1> QED BY <1>4, <1>5

LEMMA InsertKeeps ==
  ASSUME CapInv, NEW h \in Handlers, InsertSession(h), NEW u \in Users, NEW cap \in Nat, Within(cap, u)
  PROVE  IsFiniteSet(SessionsOf(u))' /\ Within(cap, u)'
  <1>1. /\ OthersKept(h) /\ req'[h].pc # "insert" /\ req[h].pc = "insert"
        /\ IsFiniteSet(SessionsOf(u)) /\ Cardinality(SessionsOf(u)) \in Nat
        /\ sessions \in [Sids -> Session \cup {None}]
    BY StepGoes, FS_CardinalityType DEF InsertSession, Goes, CapInv, At, TypeInv, TypeOK
  <1>2. Cardinality(Inserting(u)') = Cardinality(Inserting(u)) - One(req[h].user = u)
    <2>1. Cardinality(Among({"insert"}, u)') = Cardinality(Among({"insert"}, u))
              + One(req'[h].pc \in {"insert"} /\ req'[h].user = u)
              - One(req[h].pc \in {"insert"} /\ req[h].user = u)
      BY <1>1, AmongMoves
    <2>2. Cardinality(Among({"insert"}, u)) \in Nat
      BY AmongFinite
    <2> QED BY <1>1, <2>1, <2>2, InsertingIs, InsertingPrimed DEF One
  <1>3. Cardinality(Inserting(u)) \in Nat /\ Cardinality(Handlers) \in Nat
    BY InsertingIs, AmongFinite, SignInAssumption, FS_CardinalityType
  <1>4. CASE sessions' = sessions
    <2>1. SessionsOf(u)' = SessionsOf(u)
      BY <1>4 DEF SessionsOf
    <2> QED BY <1>1, <1>2, <1>3, <2>1 DEF Within, One
  <1>5. CASE sessions' # sessions
    <2>1. PICK s \in Sids : /\ sessions[s] = None
                            /\ sessions' = [sessions EXCEPT ![s] =
                                 [user |-> req[h].user, created |-> clock, active |-> clock]]
      BY <1>5 DEF InsertSession, Fresh
    <2>2. \A t \in Sids : t # s => sessions'[t] = sessions[t]
      BY <1>1, <2>1
    <2>3. sessions'[s].user = req[h].user
      BY <1>1, <2>1
    <2>4. CASE u # req[h].user
      <3>1. SessionsOf(u)' = SessionsOf(u)
        BY <2>1, <2>2, <2>3, <2>4 DEF SessionsOf
      <3> QED BY <1>1, <1>2, <1>3, <2>4, <3>1 DEF Within, One
    <2>5. CASE u = req[h].user
      <3>1. SessionsOf(u)' \subseteq SessionsOf(u) \cup {s} /\ s \notin SessionsOf(u)
        BY <2>1, <2>2 DEF SessionsOf
      <3>2. /\ IsFiniteSet(SessionsOf(u) \cup {s})
            /\ Cardinality(SessionsOf(u) \cup {s}) = Cardinality(SessionsOf(u)) + 1
        BY <1>1, <3>1, FS_AddElement
      <3>3. IsFiniteSet(SessionsOf(u)') /\ Cardinality(SessionsOf(u)') <= Cardinality(SessionsOf(u)) + 1
        BY <3>1, <3>2, FS_Subset
      <3>4. Cardinality(SessionsOf(u)') \in Nat
        BY <3>3, FS_CardinalityType
      <3> QED BY <1>1, <1>2, <1>3, <2>5, <3>3, <3>4 DEF Within, One
    <2> QED BY <2>4, <2>5
  <1> QED BY <1>4, <1>5

LEMMA CapStep == ASSUME CapInv, [Next]_vars PROVE CapInv'
  <1>0. TypeInv /\ TypeInv' /\ CapsRead'
    BY NextType, CapsReadKept DEF CapInv
  <1>1. ASSUME NEW u \in Users PROVE IsFiniteSet(SessionsOf(u))'
    <2>1. CASE ~\E h \in Handlers : Evict(h) \/ InsertSession(h)
      BY <1>0, <2>1, QuietSteps, FS_Subset DEF CapInv
    <2>2. ASSUME NEW h \in Handlers, Evict(h) PROVE IsFiniteSet(SessionsOf(u))'
      <3>1. SessionsOf(u)' \subseteq SessionsOf(u)
        BY <2>2 DEF Evict, SessionsOf
      <3> QED BY <3>1, FS_Subset DEF CapInv
    <2>3. ASSUME NEW h \in Handlers, InsertSession(h) PROVE IsFiniteSet(SessionsOf(u))'
      <3>1. \E s : SessionsOf(u)' \subseteq SessionsOf(u) \cup {s}
        BY <1>0, <2>3 DEF InsertSession, SessionsOf, TypeInv, TypeOK
      <3> QED BY <3>1, FS_AddElement, FS_Subset DEF CapInv
    <2> QED BY <2>1, <2>2, <2>3
  <1>2. ASSUME NEW cap \in {SessionCap[r] : r \in Roles}, \A r \in Roles : SessionCap[r] \in 1..cap,
               NEW u \in Users
        PROVE  Within(cap, u)'
    <2>1. cap \in Nat /\ Within(cap, u)
      BY <1>2, SignInAssumption DEF CapInv, SessionsBounded, Within
    <2>2. CASE ~\E h \in Handlers : Evict(h) \/ InsertSession(h)
      <3>1. SessionsOf(u)' \subseteq SessionsOf(u) /\ Inserting(u)' \subseteq Inserting(u)
        BY <1>0, <2>2, QuietSteps
      <3>2. /\ IsFiniteSet(SessionsOf(u)) /\ IsFiniteSet(Inserting(u)) /\ IsFiniteSet(Handlers)
        BY InsertingIs, AmongFinite, SignInAssumption DEF CapInv
      <3>3. /\ Cardinality(SessionsOf(u)') <= Cardinality(SessionsOf(u))
            /\ Cardinality(Inserting(u)') <= Cardinality(Inserting(u))
            /\ IsFiniteSet(SessionsOf(u)') /\ IsFiniteSet(Inserting(u)')
        BY <3>1, <3>2, FS_Subset
      <3>4. /\ Cardinality(SessionsOf(u)) \in Nat /\ Cardinality(Inserting(u)) \in Nat
            /\ Cardinality(SessionsOf(u)') \in Nat /\ Cardinality(Inserting(u)') \in Nat
            /\ Cardinality(Handlers) \in Nat
        BY <3>2, <3>3, FS_CardinalityType
      <3> QED BY <2>1, <3>3, <3>4 DEF Within
    <2>3. CASE \E h \in Handlers : Evict(h) \/ InsertSession(h)
      BY <1>2, <2>1, <2>3, EvictKeeps, InsertKeeps
    <2> QED BY <2>2, <2>3
  <1> QED BY <1>0, <1>1, <1>2 DEF CapInv, SessionsBounded, Within, TypeInv

\* While every role's limit is positive, a user never has more sessions than
\* the largest limit less one and the number of handlers, however many
\* sign-ins overlap between the eviction and the insert.
THEOREM SessionCapHolds == Spec => []SessionsBounded
  <1>1. Init => CapInv
    <2> SUFFICES ASSUME Init PROVE CapInv
      OBVIOUS
    <2>1. TypeInv /\ \A h \in Handlers : req[h] = Idle
      BY InitType DEF Init
    <2>2. \A u \in Users : SessionsOf(u) = {} /\ Inserting(u) = {}
      BY <2>1 DEF Init, SessionsOf, Inserting, At, Idle
    <2>3. IsFiniteSet({}) /\ Cardinality({}) = 0 /\ Cardinality(Handlers) \in Nat
      BY FS_EmptySet, SignInAssumption, FS_CardinalityType
    <2>4. CapsRead
      BY <2>1 DEF CapsRead, Idle
    <2>5. ASSUME NEW cap \in {SessionCap[r] : r \in Roles}, \A r \in Roles : SessionCap[r] \in 1..cap,
                 NEW u \in Users
          PROVE  Cardinality(SessionsOf(u)) + Cardinality(Inserting(u)) <= cap - 1 + Cardinality(Handlers)
      <3>1. cap \in Int /\ cap >= 1
        BY <2>5, SignInAssumption
      <3> QED BY <2>2, <2>3, <3>1
    <2> QED BY <2>1, <2>2, <2>3, <2>4, <2>5 DEF CapInv, SessionsBounded, TypeInv
  <1> QED BY <1>1, CapStep, PTL DEF Spec, CapInv

-----------------------------------------------------------------------------
(* The budget of guesses.  A wrong guess is either in the row, about to be   *)
(* put there by a handler, or lost with one.  While the account is open the  *)
(* row holds fewer than the limit, or a lock ran out since; once it is       *)
(* locked, only handlers already past the check can still guess.             *)

GuessStages == {"password", "enrolment", "claim", "redeem"}
ToCount(u) == Cardinality(Among({"record"}, u))
Guessing(u) == Cardinality(Among(GuessStages, u))

Budget(u) ==
  /\ tries[u] - lost[u] <= account[u].failed + ToCount(u)
  /\ (~Locked(u) /\ account[u].failed >= MaxFailed) => tries[u] - lost[u] <= ToCount(u)
  /\ Locked(u) => tries[u] - lost[u] + Guessing(u) <= MaxFailed - 1 + Cardinality(Handlers)

BudgetInv == TypeInv /\ \A u \in Users : account[u].live => Budget(u)

LEMMA Counts ==
  ASSUME NEW u
  PROVE  /\ ToCount(u) \in Nat /\ Guessing(u) \in Nat /\ ToCount(u)' \in Nat /\ Guessing(u)' \in Nat
         /\ ToCount(u) + Guessing(u) <= Cardinality(Handlers)
         /\ Cardinality(Handlers) \in Nat /\ MaxFailed \in Nat \ {0} /\ LockFor \in Nat \ {0}
  <1>1. ToCount(u) \in Nat /\ Guessing(u) \in Nat
    BY AmongFinite DEF ToCount, Guessing
  <1>2. ToCount(u)' \in Nat /\ Guessing(u)' \in Nat
    BY SignInAssumption, FS_Subset, FS_CardinalityType DEF ToCount, Guessing, Among
  <1>3. ToCount(u) + Guessing(u) <= Cardinality(Handlers)
    <2>1. {"record"} \cap GuessStages = {}
      BY DEF GuessStages
    <2> QED BY <2>1, AmongApart DEF ToCount, Guessing
  <1> QED BY <1>1, <1>2, <1>3, SignInAssumption, FS_CardinalityType

LEMMA CountMoves ==
  ASSUME NEW h \in Handlers, OthersKept(h), NEW u
  PROVE  /\ ToCount(u)' = ToCount(u) + One(req'[h].pc = "record" /\ req'[h].user = u)
                                    - One(req[h].pc = "record" /\ req[h].user = u)
         /\ Guessing(u)' = Guessing(u) + One(req'[h].pc \in GuessStages /\ req'[h].user = u)
                                      - One(req[h].pc \in GuessStages /\ req[h].user = u)
  <1>1. Cardinality(Among({"record"}, u)') = Cardinality(Among({"record"}, u))
           + One(req'[h].pc \in {"record"} /\ req'[h].user = u)
           - One(req[h].pc \in {"record"} /\ req[h].user = u)
    BY AmongMoves
  <1>2. Cardinality(Among(GuessStages, u)') = Cardinality(Among(GuessStages, u))
           + One(req'[h].pc \in GuessStages /\ req'[h].user = u)
           - One(req[h].pc \in GuessStages /\ req[h].user = u)
    BY AmongMoves
  <1>3. ToCount(u)' = Cardinality(Among({"record"}, u)') /\ Guessing(u)' = Cardinality(Among(GuessStages, u)')
    BY DEF ToCount, Guessing, GuessStages
  <1> QED BY <1>1, <1>2, <1>3 DEF ToCount, Guessing, One

Row(u) ==
  /\ account[u].failed \in Nat /\ account[u].lockedUntil \in Nat /\ clock \in Nat
  /\ tries[u] \in Nat /\ lost[u] \in Nat

LEMMA RowTypes == ASSUME TypeInv, NEW u \in Users PROVE Row(u)
  <1>1. account[u] \in Account
    BY DEF TypeInv, TypeOK
  <1> QED BY <1>1 DEF Row, TypeInv, TypeOK, Account

\* A step that weighs and counts no guess of u, and lets none in while u is locked.
LEMMA BudgetSame ==
  ASSUME NEW u \in Users, Row(u), Budget(u), UNCHANGED <<account[u], tries[u], lost[u], clock>>,
         ToCount(u)' = ToCount(u), Guessing(u)' <= Guessing(u) \/ ~Locked(u)
  PROVE  Budget(u)'
  BY Counts DEF Budget, Row, Locked

\* A wrong guess of u leaves the handler to count it.
LEMMA BudgetGuess ==
  ASSUME NEW u \in Users, Row(u), Budget(u), UNCHANGED <<account[u], lost[u], clock>>,
         tries'[u] = tries[u] + 1, ToCount(u)' = ToCount(u) + 1, Guessing(u)' = Guessing(u) - 1
  PROVE  Budget(u)'
  BY Counts DEF Budget, Row, Locked

\* Counting it locks the account at the limit.
LEMMA BudgetCount ==
  ASSUME NEW u \in Users, Row(u), Budget(u), UNCHANGED <<tries[u], lost[u], clock>>,
         account'[u].failed = account[u].failed + 1,
         account'[u].lockedUntil = IF account[u].failed + 1 >= MaxFailed
                                   THEN clock + LockFor ELSE account[u].lockedUntil,
         ToCount(u)' = ToCount(u) - 1, Guessing(u)' = Guessing(u)
  PROVE  Budget(u)'
  <1>1. CASE account[u].failed + 1 < MaxFailed
    BY <1>1, Counts DEF Budget, Row, Locked
  <1>2. CASE account[u].failed + 1 >= MaxFailed
    <2>1. Locked(u)'
      BY <1>2, Counts DEF Row, Locked
    <2>2. tries[u] - lost[u] + Guessing(u) <= MaxFailed - 1 + Cardinality(Handlers)
      <3>1. CASE Locked(u)
        BY <3>1 DEF Budget
      <3>2. CASE ~Locked(u) /\ account[u].failed >= MaxFailed
        BY <3>2, Counts DEF Budget, Row
      <3>3. CASE ~Locked(u) /\ account[u].failed < MaxFailed
        BY <1>2, <3>3, Counts DEF Budget, Row
      <3> QED BY <3>1, <3>2, <3>3, Counts DEF Row
    <2>3. tries'[u] - lost'[u] <= account'[u].failed + ToCount(u)'
      BY Counts DEF Budget, Row
    <2> QED BY <2>1, <2>2, <2>3 DEF Budget
  <1> QED BY <1>1, <1>2, Counts DEF Row

\* A right password opens the account and clears the count.
LEMMA BudgetReset ==
  ASSUME NEW u \in Users, Row(u), UNCHANGED <<lost[u], clock>>, account'[u].failed = 0,
         account'[u].lockedUntil = 0, tries'[u] = 0
  PROVE  Budget(u)'
  BY Counts DEF Budget, Row, Locked

\* The four statements that weigh a guess: it was right, or the handler goes to count it.
LEMMA WeighStep ==
  ASSUME TypeInv, NEW h \in Handlers, NEW u \in Users, account[u].live, Budget(u),
         Authenticate(h) \/ MatchCode(h) \/ ClaimStep(h) \/ RedeemCode(h)
  PROVE  Budget(u)'
  <1>1. /\ Row(u) /\ OthersKept(h) /\ UNCHANGED <<account, lost, clock>> /\ req[h].pc \in GuessStages
        /\ req'[h].user = req[h].user /\ req'[h].pc \in {"reset", "claim", "redeem", "record"}
    BY RowTypes, StepGoes DEF Authenticate, MatchCode, ClaimStep, RedeemCode, Goes, At, GuessStages,
                              rows, counters
  <1>2. /\ tries \in [Users -> Nat] /\ req[h].user \in Users /\ Requests
    BY <1>1 DEF TypeInv, TypeOK, RequestOK, GuessStages, Requests
  <1>3. \/ req'[h].pc # "record" /\ tries' = tries
        \/ req'[h].pc = "record" /\ tries' = Tried(req[h].user)
    <2>1. ~At(h, "idle")
      BY <1>1 DEF GuessStages, At
    <2>2. ASSUME NEW pc \in Stages \ {"idle", "touch", "expire"}, Goto(h, pc) PROVE req'[h].pc = pc
      BY <1>2, <2>1, <2>2, GotoMoves
    <2>3. ASSUME NEW pc, NEW v, NEW n, Hold(h, pc, v, n) PROVE req'[h].pc = pc
      BY <1>2, <2>3 DEF Hold, Requests, RequestOK
    <2>4. CASE Authenticate(h)
      BY <2>2, <2>3, <2>4 DEF Authenticate, Stages
    <2>5. CASE MatchCode(h)
      BY <2>2, <2>3, <2>5 DEF MatchCode, Stages
    <2>6. CASE ClaimStep(h)
      BY <2>2, <2>6 DEF ClaimStep, Stages
    <2>7. CASE RedeemCode(h)
      BY <2>2, <2>7 DEF RedeemCode, Stages
    <2> QED BY <2>4, <2>5, <2>6, <2>7
  <1>4. /\ ToCount(u)' = ToCount(u) + One(req'[h].pc = "record" /\ req'[h].user = u)
                                   - One(req[h].pc = "record" /\ req[h].user = u)
        /\ Guessing(u)' = Guessing(u) + One(req'[h].pc \in GuessStages /\ req'[h].user = u)
                                     - One(req[h].pc \in GuessStages /\ req[h].user = u)
    BY <1>1, CountMoves
  <1>5. CASE req[h].user # u
    <2>1. tries'[u] = tries[u]
      BY <1>2, <1>3, <1>5 DEF Tried
    <2>2. ToCount(u)' = ToCount(u) /\ Guessing(u)' = Guessing(u)
      BY <1>1, <1>4, <1>5, Counts DEF One
    <2> QED BY <1>1, <2>1, <2>2, Counts, BudgetSame
  <1>6. CASE req[h].user = u /\ req'[h].pc # "record"
    <2>1. tries'[u] = tries[u]
      BY <1>3, <1>6
    <2>2. ToCount(u)' = ToCount(u) /\ Guessing(u)' <= Guessing(u)
      BY <1>1, <1>4, <1>6, Counts DEF One, GuessStages
    <2> QED BY <1>1, <2>1, <2>2, BudgetSame
  <1>7. CASE req[h].user = u /\ req'[h].pc = "record"
    <2>1. tries'[u] = tries[u] + 1
      BY <1>2, <1>3, <1>7 DEF Tried
    <2>2. ToCount(u)' = ToCount(u) + 1 /\ Guessing(u)' = Guessing(u) - 1
      BY <1>1, <1>4, <1>7, Counts DEF One, GuessStages
    <2> QED BY <1>1, <2>1, <2>2, BudgetGuess
  <1> QED BY <1>5, <1>6, <1>7

LEMMA CountStep ==
  ASSUME TypeInv, NEW h \in Handlers, NEW u \in Users, account[u].live, Budget(u),
         RecordFailed(h) \/ RecordSuccess(h)
  PROVE  Budget(u)'
  <1>1. /\ Row(u) /\ OthersKept(h) /\ UNCHANGED <<lost, clock>> /\ req[h].pc \in {"record", "reset"}
        /\ req'[h].pc \in {"idle", "factor", "cap"}
    BY RowTypes, StepGoes DEF RecordFailed, RecordSuccess, Goes, At, counters, ghosts
  <1>2. /\ tries \in [Users -> Nat] /\ req[h].user \in Users /\ account \in [Users -> Account]
        /\ account[u] \in Account
    BY <1>1 DEF TypeInv, TypeOK, RequestOK
  <1>3. /\ ToCount(u)' = ToCount(u) - One(req[h].pc = "record" /\ req[h].user = u)
        /\ Guessing(u)' = Guessing(u)
    <2>1. /\ ToCount(u)' = ToCount(u) + One(req'[h].pc = "record" /\ req'[h].user = u)
                                     - One(req[h].pc = "record" /\ req[h].user = u)
          /\ Guessing(u)' = Guessing(u) + One(req'[h].pc \in GuessStages /\ req'[h].user = u)
                                       - One(req[h].pc \in GuessStages /\ req[h].user = u)
      BY <1>1, CountMoves
    <2> QED BY <1>1, <2>1, Counts DEF One, GuessStages
  <1>4. CASE RecordFailed(h)
    <2>1. req[h].pc = "record" /\ tries' = tries
      BY <1>4 DEF RecordFailed, At, ghosts
    <2>2. CASE req[h].user # u
      <3>1. account'[u] = account[u]
        BY <1>2, <1>4, <2>2 DEF RecordFailed
      <3>2. ToCount(u)' = ToCount(u)
        BY <1>3, <2>2, Counts DEF One
      <3> QED BY <1>1, <1>3, <2>1, <3>1, <3>2, Counts, BudgetSame
    <2>3. CASE req[h].user = u
      <3> DEFINE n == account[u].failed + 1
                 until == IF n >= MaxFailed THEN clock + LockFor ELSE account[u].lockedUntil
      <3>1. account' = [account EXCEPT ![u] = [account[u] EXCEPT !.failed = n, !.lockedUntil = until]]
        BY <1>2, <1>4, <2>3 DEF RecordFailed
      <3>2. account'[u].failed = n /\ account'[u].lockedUntil = until
        BY <1>2, <3>1 DEF Account
      <3>3. ToCount(u)' = ToCount(u) - 1
        BY <1>3, <2>1, <2>3 DEF One
      <3> QED BY <1>1, <1>3, <2>1, <3>2, <3>3, BudgetCount
    <2> QED BY <2>2, <2>3
  <1>5. CASE RecordSuccess(h)
    <2>1. ToCount(u)' = ToCount(u)
      BY <1>3, <1>5, Counts DEF One, RecordSuccess, At
    <2>2. CASE req[h].user # u
      <3>1. account'[u] = account[u] /\ tries'[u] = tries[u]
        BY <1>2, <1>5, <2>2 DEF RecordSuccess
      <3> QED BY <1>1, <1>3, <2>1, <3>1, Counts, BudgetSame
    <2>3. CASE req[h].user = u
      <3>1. account'[u].failed = 0 /\ account'[u].lockedUntil = 0 /\ tries'[u] = 0
        BY <1>2, <1>5, <2>3 DEF RecordSuccess, Account
      <3> QED BY <1>1, <3>1, BudgetReset
    <2> QED BY <2>2, <2>3
  <1> QED BY <1>4, <1>5

\* No other statement of a handler weighs or counts a guess, and the check
\* lets in no handler while the account is locked.
LEMMA OtherStep ==
  ASSUME TypeInv, NEW h \in Handlers, NEW u \in Users, account[u].live, Budget(u), Step(h),
         ~(Authenticate(h) \/ MatchCode(h) \/ ClaimStep(h) \/ RedeemCode(h)),
         ~(RecordFailed(h) \/ RecordSuccess(h))
  PROVE  Budget(u)'
  <1>1. Row(u) /\ OthersKept(h) /\ UNCHANGED <<account, tries, lost, clock>>
    <2>1. OthersKept(h)
      BY StepGoes DEF Step, Goes
    <2>2. UNCHANGED <<account, tries, lost, clock>>
      BY DEF Step, Arrive, LoadUser, CheckLockout, Factor, ReadCap, Evict, InsertSession, Visit, Touch,
             Expire, ConfirmRead, ConfirmEnable, CancelRead, CancelDrop, rows, counters, ghosts
    <2> QED BY <2>1, <2>2, RowTypes
  <1>2. /\ req[h].pc \notin GuessStages \cup {"record"} /\ req'[h].pc # "record"
        /\ ~CheckLockout(h) => req'[h].pc \notin GuessStages
        /\ (CheckLockout(h) /\ req'[h].pc \in GuessStages) => req'[h].user = req[h].user
    <2>1. req[h].pc \notin GuessStages \cup {"record"}
      BY DEF Step, Arrive, LoadUser, CheckLockout, Factor, ReadCap, Evict, InsertSession, Visit, Touch,
             Expire, ConfirmRead, ConfirmEnable, CancelRead, CancelDrop, At, GuessStages
    <2>2. req'[h].pc # "record" /\ (~CheckLockout(h) => req'[h].pc \notin GuessStages)
      BY StepGoes DEF Step, Goes, GuessStages
    <2>3. (CheckLockout(h) /\ req'[h].pc \in GuessStages) => req'[h].user = req[h].user
      BY StepGoes DEF Goes, GuessStages
    <2> QED BY <2>1, <2>2, <2>3
  <1>3. /\ ToCount(u)' = ToCount(u)
        /\ Guessing(u)' = Guessing(u) + One(req'[h].pc \in GuessStages /\ req'[h].user = u)
    <2>1. /\ ToCount(u)' = ToCount(u) + One(req'[h].pc = "record" /\ req'[h].user = u)
                                     - One(req[h].pc = "record" /\ req[h].user = u)
          /\ Guessing(u)' = Guessing(u) + One(req'[h].pc \in GuessStages /\ req'[h].user = u)
                                       - One(req[h].pc \in GuessStages /\ req[h].user = u)
      BY <1>1, CountMoves
    <2> QED BY <1>2, <2>1, Counts DEF One
  <1>4. Guessing(u)' <= Guessing(u) \/ ~Locked(u)
    <2>1. CASE req'[h].pc \in GuessStages /\ req'[h].user = u
      <3>1. CheckLockout(h) /\ req[h].user = u /\ req'[h].pc # "idle"
        BY <1>2, <2>1 DEF GuessStages
      <3>2. req' # [req EXCEPT ![h] = Idle]
        BY <3>1 DEF CheckLockout, At, TypeInv, TypeOK, Idle
      <3> QED BY <3>1, <3>2 DEF CheckLockout, End
    <2>2. CASE ~(req'[h].pc \in GuessStages /\ req'[h].user = u)
      BY <1>3, <2>2, Counts DEF One
    <2> QED BY <2>1, <2>2
  <1> QED BY <1>1, <1>3, <1>4, BudgetSame

LEMMA OutsideBudget ==
  ASSUME TypeInv, NEW u \in Users, account[u].live => Budget(u), account'[u].live, [Next]_vars,
         ~\E h \in Handlers : Step(h)
  PROVE  Budget(u)'
  <1>1. /\ Row(u) /\ account \in [Users -> Account] /\ account[u] \in Account
        /\ lost \in [Users -> Nat] /\ tries \in [Users -> Nat]
    BY RowTypes DEF TypeInv, TypeOK
  <1>2. ASSUME UNCHANGED <<req, clock, account, tries, lost>> PROVE Budget(u)'
    <2>1. ToCount(u)' = ToCount(u) /\ Guessing(u)' = Guessing(u)
      BY <1>2 DEF ToCount, Guessing, Among, GuessStages
    <2> QED BY <1>1, <1>2, <2>1, Counts, BudgetSame
  <1>3. CASE UNCHANGED vars
    BY <1>2, <1>3 DEF vars, rows, counters, ghosts
  <1>4. CASE Logout \/ RevokeOwn \/ RevokeAny \/ BeginEnrolment \/ DisableMfa
    BY <1>2, <1>4 DEF Logout, RevokeOwn, RevokeAny, Revoke, BeginEnrolment, DisableMfa, counters, ghosts
  <1>5. CASE UpdateUser \/ ToggleActive \/ DeleteUser
    <2>1. /\ account'[u].live = account[u].live /\ account'[u].failed = account[u].failed
          /\ account'[u].lockedUntil = account[u].lockedUntil
      <3>1. CASE UpdateUser
        <4>1. PICK v \in Users, r \in Roles : account' = [account EXCEPT ![v].role = r]
          BY <3>1 DEF UpdateUser
        <4>2. CASE v = u
          BY <1>1, <4>1, <4>2 DEF Account
        <4>3. CASE v # u
          BY <1>1, <4>1, <4>3
        <4> QED BY <4>2, <4>3
      <3>2. CASE ToggleActive
        <4>1. PICK v \in Users : account' = [account EXCEPT ![v].active = ~@]
          BY <3>2 DEF ToggleActive
        <4>2. CASE v = u
          <5>1. account'[u] = [account[u] EXCEPT !.active = ~@]
            BY <1>1, <4>1, <4>2
          <5>2. account[u] \in Account
            BY <1>1
          <5> QED BY <5>1, <5>2 DEF Account
        <4>3. CASE v # u
          BY <1>1, <4>1, <4>3
        <4> QED BY <4>2, <4>3
      <3>3. CASE DeleteUser
        BY <1>1, <3>3 DEF DeleteUser, Account
      <3> QED BY <1>5, <3>1, <3>2, <3>3
    <2>2. UNCHANGED <<req, clock, tries, lost>>
      BY <1>5 DEF UpdateUser, ToggleActive, DeleteUser, ghosts
    <2>3. ToCount(u)' = ToCount(u) /\ Guessing(u)' = Guessing(u)
      BY <2>2 DEF ToCount, Guessing, Among, GuessStages
    <2> QED BY <2>1, <2>2, <2>3 DEF Budget, Locked
  <1>6. CASE Tick
    <2>1. UNCHANGED <<account, req, lost>> /\ clock' = clock + 1
      BY <1>6 DEF Tick, rows
    <2>2. tries'[u] = IF Locked(u) /\ account[u].lockedUntil <= clock + 1 THEN 0 ELSE tries[u]
      BY <1>6 DEF Tick
    <2>3. ToCount(u)' = ToCount(u) /\ Guessing(u)' = Guessing(u)
      BY <2>1 DEF ToCount, Guessing, Among, GuessStages
    <2> QED BY <1>1, <2>1, <2>2, <2>3, Counts DEF Budget, Locked, Row
  <1>7. CASE Crash
    <2>1. UNCHANGED <<account, clock, tries>> /\ req' = [h \in Handlers |-> Idle]
      BY <1>7 DEF Crash, rows
    <2>2. lost'[u] = lost[u] + ToCount(u)
      <3>1. {h \in Handlers : At(h, "record") /\ req[h].user = u} = Among({"record"}, u)
        BY DEF At, Among
      <3> QED BY <1>1, <1>7, <3>1 DEF Crash, ToCount
    <2>3. ToCount(u)' = 0 /\ Guessing(u)' = 0
      <3>1. Among({"record"}, u)' = {} /\ Among(GuessStages, u)' = {}
        BY <2>1 DEF Among, Idle, GuessStages
      <3> QED BY <3>1, FS_EmptySet DEF ToCount, Guessing
    <2> QED BY <1>1, <2>1, <2>2, <2>3, Counts DEF Budget, Locked, Row
  <1> QED BY <1>3, <1>4, <1>5, <1>6, <1>7 DEF Next

LEMMA BudgetStep == ASSUME BudgetInv, [Next]_vars PROVE BudgetInv'
  <1>1. TypeInv /\ TypeInv'
    BY NextType DEF BudgetInv
  <1>2. ASSUME NEW u \in Users, account'[u].live PROVE Budget(u)'
    <2>1. ASSUME NEW h \in Handlers, Step(h) PROVE Budget(u)'
      <3>1. account[u].live
        <4>1. CASE ~RecordFailed(h) /\ ~RecordSuccess(h)
          BY <1>2, <2>1, <4>1 DEF Step, Arrive, LoadUser, CheckLockout, Authenticate, Factor,
             MatchCode, ClaimStep, RedeemCode, ReadCap, Evict, InsertSession, Visit, Touch, Expire,
             ConfirmRead, ConfirmEnable, CancelRead, CancelDrop, rows
        <4>2. CASE RecordFailed(h) \/ RecordSuccess(h)
          <5>1. account \in [Users -> Account]
            BY <1>1 DEF TypeInv, TypeOK
          <5> QED BY <1>2, <4>2, <5>1 DEF RecordFailed, RecordSuccess, Account
        <4> QED BY <4>1, <4>2
      <3>2. Budget(u)
        BY <3>1 DEF BudgetInv
      <3> QED BY <1>1, <2>1, <3>1, <3>2, WeighStep, CountStep, OtherStep
    <2>2. ASSUME ~\E h \in Handlers : Step(h) PROVE Budget(u)'
      BY <1>1, <1>2, <2>2, OutsideBudget DEF BudgetInv
    <2> QED BY <2>1, <2>2
  <1> QED BY <1>1, <1>2 DEF BudgetInv

\* Between two openings of an account no more wrong guesses are weighed, at the
\* password and at the second factor together, than the limit, the handlers
\* that had passed the check, and the guesses that crashes kept from the count.
THEOREM GuessesBounded == Spec => []GuessBudget
  <1>1. Init => BudgetInv
    <2> SUFFICES ASSUME Init PROVE BudgetInv
      OBVIOUS
    <2>1. TypeInv
      BY InitType
    <2>2. ASSUME NEW u \in Users PROVE Budget(u)
      <3>1. Row(u) /\ tries[u] = 0 /\ lost[u] = 0 /\ clock = 1
        BY <2>1, RowTypes DEF Init
      <3>2. account[u].failed = 0 /\ account[u].lockedUntil = 0
        BY DEF Init
      <3> QED BY <3>1, <3>2, Counts DEF Budget, Locked, Row
    <2> QED BY <2>1, <2>2 DEF BudgetInv
  <1>2. BudgetInv => GuessBudget
    <2> SUFFICES ASSUME BudgetInv, NEW u \in Users, account[u].live
                 PROVE  tries[u] <= MaxFailed - 1 + Cardinality(Handlers) + lost[u]
      BY DEF GuessBudget
    <2>1. Row(u) /\ Budget(u)
      BY RowTypes DEF BudgetInv
    <2>2. CASE Locked(u)
      BY <2>1, <2>2, Counts DEF Budget, Row
    <2>3. CASE ~Locked(u) /\ account[u].failed >= MaxFailed
      BY <2>1, <2>3, Counts DEF Budget, Row
    <2>4. CASE ~Locked(u) /\ account[u].failed < MaxFailed
      BY <2>1, <2>4, Counts DEF Budget, Row
    <2> QED BY <2>1, <2>2, <2>3, <2>4, Counts DEF Row
  <1> QED BY <1>1, <1>2, BudgetStep, PTL DEF Spec

-----------------------------------------------------------------------------
(* The limiter (Limiter).  First one window: its deque hits, the log of what *)
(* it let through and its last refusal, told, at time t with windows of W.   *)

Cut(hits, c) == SubSeq(hits, Cardinality({i \in DOMAIN hits : hits[i] < c}) + 1, Len(hits))
CutLog(log, c) == SubSeq(log, Cardinality({i \in DOMAIN log : log[i].at < c}) + 1, Len(log))

Rising(n, f) == \A i \in 1..n : f[i] \in Int /\ \A j \in 1..i : f[j] <= f[i]

\* The deque is in order, and so is the log.
HitsOK(hits, t) ==
  /\ hits \in Seq(Int)
  /\ Rising(Len(hits), hits)
  /\ \A i \in 1..Len(hits) : hits[i] <= t

LogOK(log, t) ==
  /\ log \in Seq([at : Int, limit : Int])
  /\ \A i \in 1..Len(log), j \in 1..Len(log) : j <= i => log[j].at <= log[i].at
  /\ \A i \in 1..Len(log) : log[i].at <= t

\* Counted from the end, what the log has of the last window is in the deque.
Aligned(hits, log, c) ==
  \A j \in 0..(Len(log) - 1) : log[Len(log) - j].at >= c =>
      j < Len(hits) /\ hits[Len(hits) - j] = log[Len(log) - j].at

\* Each entry of the log had room for itself below the budget that it was held to.
Room(log, W) ==
  \A i \in 1..Len(log), j \in 1..Len(log) : j <= i /\ log[j].at >= log[i].at - W => i - j < log[i].limit

\* While the deque is as full as at the refusal, the time that was told is later
\* than the end of the oldest hit.
Noted(hits, tell, W) ==
  tell # NoValue =>
    /\ tell.at \in Int /\ tell.limit \in Int
    /\ tell.full => /\ tell.limit > 0 /\ Len(hits) <= tell.limit
                    /\ Len(hits) = tell.limit => hits[1] + W < tell.at

WindowOK(hits, log, tell, t, W) ==
  HitsOK(hits, t) /\ LogOK(log, t) /\ Aligned(hits, log, t - W) /\ Room(log, W) /\ Noted(hits, tell, W)

LEMMA Elements ==
  ASSUME NEW S, NEW s \in Seq(S)
  PROVE  Len(s) \in Nat /\ DOMAIN s = 1..Len(s) /\ \A i \in 1..Len(s) : s[i] \in S
  OBVIOUS

LEMMA Rest ==
  ASSUME NEW S, NEW s \in Seq(S), NEW k \in 0..Len(s)
  PROVE  /\ SubSeq(s, k + 1, Len(s)) \in Seq(S) /\ Len(SubSeq(s, k + 1, Len(s))) = Len(s) - k
         /\ \A i \in 1..(Len(s) - k) : SubSeq(s, k + 1, Len(s))[i] = s[i + k]
  <1>1. Len(s) \in Nat /\ \A i \in (k + 1)..Len(s) : s[i] \in S BY Elements
  <1>2. k + 1 \in Int /\ Len(s) \in Int BY <1>1
  <1>3. /\ SubSeq(s, k + 1, Len(s)) \in Seq(S)
        /\ Len(SubSeq(s, k + 1, Len(s))) = IF k + 1 <= Len(s) THEN Len(s) - (k + 1) + 1 ELSE 0
        /\ \A i \in 1..(Len(s) - (k + 1) + 1) : SubSeq(s, k + 1, Len(s))[i] = s[(k + 1) + i - 1]
    BY <1>1, <1>2, SubSeqProperties
  <1>4. Len(s) - (k + 1) + 1 = Len(s) - k /\ (k + 1 <= Len(s) \/ Len(s) - k = 0) BY <1>1
  <1>5. \A i \in 1..(Len(s) - k) : (k + 1) + i - 1 = i + k BY <1>1
  <1> QED BY <1>1, <1>3, <1>4, <1>5

LEMMA HitsElements ==
  ASSUME NEW t, NEW hits, HitsOK(hits, t)
  PROVE  /\ hits \in Seq(Int) /\ Len(hits) \in Nat /\ DOMAIN hits = 1..Len(hits)
         /\ \A i \in 1..Len(hits) : hits[i] \in Int
  BY Elements DEF HitsOK

LEMMA LogElements ==
  ASSUME NEW t, NEW log, LogOK(log, t)
  PROVE  /\ log \in Seq([at : Int, limit : Int]) /\ Len(log) \in Nat /\ DOMAIN log = 1..Len(log)
         /\ \A i \in 1..Len(log) : log[i].at \in Int /\ log[i].limit \in Int
  <1>1. log \in Seq([at : Int, limit : Int]) BY DEF LogOK
  <1>2. \A i \in 1..Len(log) : log[i] \in [at : Int, limit : Int] BY <1>1, Elements
  <1> QED BY <1>1, <1>2, Elements

\* In a rising sequence what is below a value comes first, and is counted.
LEMMA FirstPart ==
  ASSUME NEW n \in Nat, NEW f, Rising(n, f), NEW c \in Int
  PROVE  LET k == Cardinality({i \in 1..n : f[i] < c})
         IN k \in 0..n /\ \A i \in 1..n : f[i] < c <=> i <= k
  <1> DEFINE S == {i \in 1..n : f[i] < c}
             k == Cardinality(S)
  <1>1. IsFiniteSet(1..n) /\ Cardinality(1..n) = n BY FS_Interval
  <1>2. IsFiniteSet(S) /\ k <= n /\ k \in Nat
    <2>1. S \in SUBSET (1..n) OBVIOUS
    <2>2. IsFiniteSet(S) /\ Cardinality(S) <= Cardinality(1..n) BY <1>1, <2>1, FS_Subset
    <2> QED BY <1>1, <2>2, FS_CardinalityType
  <1>3. ASSUME NEW i \in S PROVE i <= k
    <2>1. 1..i \in SUBSET S BY DEF Rising
    <2>2. IsFiniteSet(1..i) /\ Cardinality(1..i) = i BY FS_Interval
    <2>3. Cardinality(1..i) <= Cardinality(S) BY <1>2, <2>1, FS_Subset
    <2> QED BY <2>2, <2>3
  <1>4. S = 1..k
    <2>1. S \in SUBSET (1..k) BY <1>2, <1>3
    <2>2. IsFiniteSet(1..k) /\ Cardinality(1..k) = k BY <1>2, FS_Interval
    <2>3. Cardinality(1..k) = Cardinality(S) => 1..k = S BY <2>1, <2>2, FS_Subset
    <2> QED BY <2>2, <2>3
  <1>5. ASSUME NEW i \in 1..n PROVE f[i] < c <=> i <= k
    <2>1. i \in S <=> i \in 1..k BY <1>4
    <2> QED BY <2>1, <1>2
  <1> QED BY <1>2, <1>5

\* What the cut leaves of a deque: all of the hits that are not older than c.
LEMMA CutFacts ==
  ASSUME NEW t \in Int, NEW c \in Int, NEW hits, HitsOK(hits, t)
  PROVE  \E k \in 0..Len(hits) :
           /\ Cut(hits, c) \in Seq(Int)
           /\ Len(Cut(hits, c)) = Len(hits) - k
           /\ \A i \in 1..(Len(hits) - k) : Cut(hits, c)[i] = hits[i + k]
           /\ \A i \in 1..Len(hits) : hits[i] < c <=> i <= k
  <1> DEFINE k == Cardinality({i \in 1..Len(hits) : hits[i] < c})
  <1>1. hits \in Seq(Int) /\ Len(hits) \in Nat /\ DOMAIN hits = 1..Len(hits) BY DEF HitsOK
  <1>2. k \in 0..Len(hits) /\ \A i \in 1..Len(hits) : hits[i] < c <=> i <= k
    BY <1>1, FirstPart DEF HitsOK
  <1>3. Cut(hits, c) = SubSeq(hits, k + 1, Len(hits)) BY <1>1 DEF Cut
  <1> HIDE DEF k
  <1>4. /\ SubSeq(hits, k + 1, Len(hits)) \in Seq(Int)
        /\ Len(SubSeq(hits, k + 1, Len(hits))) = Len(hits) - k
        /\ \A i \in 1..(Len(hits) - k) : SubSeq(hits, k + 1, Len(hits))[i] = hits[i + k]
    BY <1>1, <1>2, Elements, Rest
  <1> QED BY <1>2, <1>3, <1>4

LEMMA CutLogFacts ==
  ASSUME NEW t \in Int, NEW c \in Int, NEW log, LogOK(log, t)
  PROVE  \E k \in 0..Len(log) :
           /\ CutLog(log, c) \in Seq([at : Int, limit : Int])
           /\ Len(CutLog(log, c)) = Len(log) - k
           /\ \A i \in 1..(Len(log) - k) : CutLog(log, c)[i] = log[i + k]
           /\ \A i \in 1..Len(log) : log[i].at < c <=> i <= k
  <1> DEFINE f == [i \in 1..Len(log) |-> log[i].at]
             k == Cardinality({i \in 1..Len(log) : f[i] < c})
  <1>1. /\ log \in Seq([at : Int, limit : Int]) /\ Len(log) \in Nat /\ DOMAIN log = 1..Len(log)
        /\ \A i \in 1..Len(log) : log[i].at \in Int
    BY LogElements
  <1>2. Rising(Len(log), f) BY <1>1 DEF LogOK, Rising
  <1>3. k \in 0..Len(log) /\ \A i \in 1..Len(log) : f[i] < c <=> i <= k
    <2> HIDE DEF f
    <2> QED BY <1>1, <1>2, FirstPart
  <1>4. {i \in DOMAIN log : log[i].at < c} = {i \in 1..Len(log) : f[i] < c} BY <1>1
  <1>5. CutLog(log, c) = SubSeq(log, k + 1, Len(log)) BY <1>4 DEF CutLog
  <1>6. \A i \in 1..Len(log) : log[i].at < c <=> i <= k BY <1>3
  <1> HIDE DEF k
  <1>7. /\ SubSeq(log, k + 1, Len(log)) \in Seq([at : Int, limit : Int])
        /\ Len(SubSeq(log, k + 1, Len(log))) = Len(log) - k
        /\ \A i \in 1..(Len(log) - k) : SubSeq(log, k + 1, Len(log))[i] = log[i + k]
    BY <1>1, <1>3, Elements, Rest
  <1> QED BY <1>3, <1>5, <1>6, <1>7

LEMMA WindowStarts ==
  ASSUME NEW t \in Int, NEW W \in Nat
  PROVE  WindowOK(<<>>, <<>>, NoValue, t, W)
  <1>1. HitsOK(<<>>, t) BY DEF HitsOK, Rising
  <1>2. LogOK(<<>>, t) BY DEF LogOK
  <1>3. Aligned(<<>>, <<>>, t - W) /\ Room(<<>>, W) BY DEF Aligned, Room
  <1>4. Noted(<<>>, NoValue, W) BY DEF Noted
  <1> QED BY <1>1, <1>2, <1>3, <1>4 DEF WindowOK

LEMMA WindowTicks ==
  ASSUME NEW t \in Int, NEW W \in Nat, NEW hits, NEW log, NEW tell, WindowOK(hits, log, tell, t, W)
  PROVE  WindowOK(hits, log, tell, t + 1, W)
  <1>1. HitsOK(hits, t + 1) BY DEF WindowOK, HitsOK, Rising
  <1>2. LogOK(log, t + 1)
    <2>1. \A i \in 1..Len(log) : log[i].at \in Int BY LogElements DEF WindowOK
    <2> QED BY <2>1 DEF WindowOK, LogOK
  <1>3. Aligned(hits, log, (t + 1) - W)
    <2>1. \A j \in 0..(Len(log) - 1) : Len(log) - j \in 1..Len(log) BY DEF WindowOK, LogOK
    <2>2. \A i \in 1..Len(log) : log[i].at \in Int BY LogElements DEF WindowOK
    <2>3. ASSUME NEW j \in 0..(Len(log) - 1), log[Len(log) - j].at >= (t + 1) - W
          PROVE  log[Len(log) - j].at >= t - W
      <3>1. log[Len(log) - j].at \in Int BY <2>1, <2>2
      <3> QED BY <2>3, <3>1
    <2> QED BY <2>3 DEF WindowOK, Aligned
  <1> QED BY <1>1, <1>2, <1>3 DEF WindowOK

\* A deque without a hit in the window is dropped: the log has none in it either.
LEMMA WindowEvicted ==
  ASSUME NEW t \in Int, NEW W \in Nat, NEW hits, NEW log, NEW tell, WindowOK(hits, log, tell, t, W),
         hits # <<>>, hits[Len(hits)] < t - W
  PROVE  WindowOK(<<>>, log, tell, t, W)
  <1>1. HitsOK(<<>>, t) BY DEF HitsOK, Rising
  <1>2. Aligned(<<>>, log, t - W)
    <2> SUFFICES ASSUME NEW j \in 0..(Len(log) - 1), log[Len(log) - j].at >= t - W PROVE FALSE BY DEF Aligned
    <2>1. j < Len(hits) /\ hits[Len(hits) - j] = log[Len(log) - j].at BY DEF WindowOK, Aligned
    <2>2. Len(hits) \in Nat /\ Len(log) \in Nat /\ \A i \in 1..Len(hits) : hits[i] \in Int
      BY HitsElements, LogElements DEF WindowOK
    <2>3. Len(hits) - j \in 1..Len(hits) /\ Len(hits) \in 1..Len(hits) /\ Len(hits) - j <= Len(hits)
      BY <2>1, <2>2
    <2>4. hits[Len(hits) - j] <= hits[Len(hits)] BY <2>2, <2>3 DEF WindowOK, HitsOK, Rising
    <2>5. hits[Len(hits)] \in Int /\ hits[Len(hits) - j] \in Int BY <2>2, <2>3
    <2> QED BY <2>1, <2>4, <2>5
  <1>3. Noted(<<>>, tell, W)
    <2>1. Len(<<>>) = 0 OBVIOUS
    <2>2. ASSUME tell # NoValue
          PROVE  /\ tell.at \in Int /\ tell.limit \in Int
                 /\ tell.full => tell.limit > 0 /\ 0 <= tell.limit /\ 0 # tell.limit
      <3>1. tell.at \in Int /\ tell.limit \in Int /\ (tell.full => tell.limit > 0) BY <2>2 DEF WindowOK, Noted
      <3> QED BY <3>1
    <2> QED BY <2>1, <2>2 DEF Noted
  <1> QED BY <1>1, <1>2, <1>3 DEF WindowOK

\* The cut takes nothing that the log has in the window.
LEMMA CutAligned ==
  ASSUME NEW t \in Int, NEW c \in Int, NEW hits, NEW log, HitsOK(hits, t), LogOK(log, t), Aligned(hits, log, c)
  PROVE  HitsOK(Cut(hits, c), t) /\ Aligned(Cut(hits, c), log, c)
  <1> DEFINE cut == Cut(hits, c)
  <1>1. PICK k \in 0..Len(hits) :
          /\ cut \in Seq(Int) /\ Len(cut) = Len(hits) - k
          /\ \A i \in 1..(Len(hits) - k) : cut[i] = hits[i + k]
          /\ \A i \in 1..Len(hits) : hits[i] < c <=> i <= k
    BY CutFacts
  <1> HIDE DEF cut
  <1>2. hits \in Seq(Int) /\ Len(hits) \in Nat /\ Len(log) \in Nat BY DEF HitsOK, LogOK
  <1>3. HitsOK(cut, t)
    <2>1. \A i \in 1..Len(cut) : i + k \in 1..Len(hits) /\ cut[i] = hits[i + k] BY <1>1, <1>2
    <2>2. Rising(Len(cut), cut)
      <3> SUFFICES ASSUME NEW i \in 1..Len(cut) PROVE cut[i] \in Int /\ \A j \in 1..i : cut[j] <= cut[i]
        BY DEF Rising
      <3>1. cut[i] \in Int BY <1>1
      <3>2. ASSUME NEW j \in 1..i PROVE cut[j] <= cut[i]
        <4>1. j \in 1..Len(cut) /\ j + k \in 1..(i + k) BY <1>1, <1>2
        <4>2. hits[j + k] <= hits[i + k] BY <2>1, <4>1 DEF HitsOK, Rising
        <4> QED BY <2>1, <4>1, <4>2
      <3> QED BY <3>1, <3>2
    <2> QED BY <1>1, <2>1, <2>2 DEF HitsOK
  <1>4. Aligned(cut, log, c)
    <2> SUFFICES ASSUME NEW j \in 0..(Len(log) - 1), log[Len(log) - j].at >= c
                 PROVE  j < Len(cut) /\ cut[Len(cut) - j] = log[Len(log) - j].at
      BY DEF Aligned
    <2>1. j < Len(hits) /\ hits[Len(hits) - j] = log[Len(log) - j].at BY DEF Aligned
    <2>2. Len(hits) - j \in 1..Len(hits) BY <1>2, <2>1
    <2>3. hits[Len(hits) - j] \in Int /\ ~(hits[Len(hits) - j] < c)
      <3>1. hits[Len(hits) - j] \in Int BY <2>2, HitsElements
      <3> QED BY <2>1, <3>1
    <2>4. ~(Len(hits) - j <= k) BY <1>1, <2>2, <2>3
    <2>5. Len(cut) = Len(hits) - k /\ j \in Nat /\ Len(hits) - j > k
      <3>1. Len(hits) \in Nat /\ Len(log) \in Nat BY <1>2
      <3>2. Len(cut) = Len(hits) - k BY <1>1
      <3>3. Len(hits) - j > k BY <2>4, <3>1
      <3> QED BY <3>1, <3>2, <3>3
    <2>6. j < Len(cut) /\ Len(cut) - j \in 1..(Len(hits) - k) /\ (Len(cut) - j) + k = Len(hits) - j
      BY <1>2, <2>5
    <2> QED BY <1>1, <2>1, <2>6
  <1> QED BY <1>3, <1>4 DEF cut

\* A request that the deque has no room for.
LEMMA WindowRefuses ==
  ASSUME NEW t \in Int, NEW W \in Nat, NEW hits, NEW log, NEW tell, WindowOK(hits, log, tell, t, W),
         NEW limit \in Int, limit > 0, Len(Cut(hits, t - W)) >= limit,
         NEW at \in Int, at > Cut(hits, t - W)[1] + W,
         NEW full, full = (Len(Cut(hits, t - W)) = limit)
  PROVE  WindowOK(Cut(hits, t - W), log, [at |-> at, limit |-> limit, full |-> full], t, W)
  <1> DEFINE cut == Cut(hits, t - W)
             is == [at |-> at, limit |-> limit, full |-> full]
  <1>1. t - W \in Int OBVIOUS
  <1>2. HitsOK(cut, t) /\ Aligned(cut, log, t - W) BY <1>1, CutAligned DEF WindowOK
  <1> HIDE DEF cut
  <1>3. Noted(cut, is, W)
    <2>1. is.at = at /\ is.limit = limit /\ (is.full <=> Len(cut) = limit) BY DEF cut
    <2>2. at > cut[1] + W BY DEF cut
    <2>3. cut[1] \in Int BY <1>2 DEF HitsOK, Rising, cut
    <2> HIDE DEF is
    <2> QED BY <2>1, <2>2, <2>3 DEF Noted
  <1> QED BY <1>2, <1>3 DEF WindowOK, cut

LEMMA Earlier ==
  ASSUME NEW n \in Nat, NEW i \in 1..(n + 1), NEW j \in 1..(n + 1), j <= i, i # n + 1
  PROVE  i \in 1..n /\ j \in 1..n
  OBVIOUS

\* A request that it has room for: the log had no more in the window than the deque.
LEMMA WindowLets ==
  ASSUME NEW t \in Int, NEW W \in Nat, NEW hits, NEW log, NEW tell, WindowOK(hits, log, tell, t, W),
         NEW limit \in Int, limit > 0, Len(Cut(hits, t - W)) < limit
  PROVE  WindowOK(Append(Cut(hits, t - W), t), Append(CutLog(log, t - W), [at |-> t, limit |-> limit]),
                  NoValue, t, W)
  <1> DEFINE c == t - W
             cut == Cut(hits, c)
             rest == CutLog(log, c)
             last == [at |-> t, limit |-> limit]
             hits2 == Append(cut, t)
             log2 == Append(rest, last)
  <1>1. c \in Int /\ c <= t OBVIOUS
  <1>2. HitsOK(cut, t) /\ Aligned(cut, log, c) BY <1>1, CutAligned DEF WindowOK
  <1>3. PICK k \in 0..Len(log) :
          /\ rest \in Seq([at : Int, limit : Int]) /\ Len(rest) = Len(log) - k
          /\ \A i \in 1..(Len(log) - k) : rest[i] = log[i + k]
          /\ \A i \in 1..Len(log) : log[i].at < c <=> i <= k
    BY <1>1, CutLogFacts DEF WindowOK
  <1>4. last \in [at : Int, limit : Int] /\ last.at = t /\ last.limit = limit OBVIOUS
  <1>5. cut \in Seq(Int) /\ Len(cut) \in Nat /\ Len(rest) \in Nat /\ Len(log) \in Nat
    BY <1>2, <1>3 DEF HitsOK, WindowOK, LogOK
  <1>6. Len(cut) < limit OBVIOUS
  <1> HIDE DEF c, cut, rest, last
  <1>7. /\ hits2 \in Seq(Int) /\ Len(hits2) = Len(cut) + 1 /\ hits2[Len(cut) + 1] = t
        /\ \A i \in 1..Len(cut) : hits2[i] = cut[i]
    BY <1>5
  <1>8. /\ log2 \in Seq([at : Int, limit : Int]) /\ Len(log2) = Len(rest) + 1 /\ log2[Len(rest) + 1] = last
        /\ \A i \in 1..Len(rest) : log2[i] = rest[i]
    BY <1>3, <1>4, <1>5
  <1>len. /\ Len(cut) \in Nat /\ Len(rest) \in Nat
          /\ Len(hits2) = Len(cut) + 1 /\ Len(log2) = Len(rest) + 1
    BY <1>5, <1>7, <1>8
  <1>9. \A i \in 1..Len(rest) : /\ i + k \in 1..Len(log) /\ rest[i] = log[i + k]
                                /\ rest[i].at \in Int /\ rest[i].limit \in Int
                                /\ rest[i].at >= c /\ rest[i].at <= t
    <2> SUFFICES ASSUME NEW i \in 1..Len(rest)
                 PROVE  /\ i + k \in 1..Len(log) /\ rest[i] = log[i + k]
                        /\ rest[i].at \in Int /\ rest[i].limit \in Int
                        /\ rest[i].at >= c /\ rest[i].at <= t
      OBVIOUS
    <2>1. i + k \in 1..Len(log) /\ rest[i] = log[i + k] /\ ~(i + k <= k)
      <3>1. Len(rest) = Len(log) - k /\ k \in Nat BY <1>3
      <3>2. i + k \in 1..Len(log) /\ ~(i + k <= k) /\ i \in 1..(Len(log) - k) BY <1>len, <3>1
      <3> QED BY <1>3, <3>2
    <2>2. rest[i] \in [at : Int, limit : Int] BY <1>3, Elements
    <2>3. ~(log[i + k].at < c) /\ log[i + k].at <= t BY <1>3, <2>1 DEF WindowOK, LogOK
    <2> QED BY <1>1, <2>1, <2>2, <2>3
  <1>10. \A j \in 1..Len(rest) : j <= Len(cut) /\ cut[Len(cut) - j + 1] = rest[Len(rest) - j + 1].at
    <2> SUFFICES ASSUME NEW j \in 1..Len(rest)
                 PROVE  j <= Len(cut) /\ cut[Len(cut) - j + 1] = rest[Len(rest) - j + 1].at
      OBVIOUS
    <2>1. j - 1 \in 0..(Len(log) - 1) /\ Len(rest) - j + 1 \in 1..Len(rest)
          /\ (Len(rest) - j + 1) + k = Len(log) - (j - 1)
      <3>1. Len(rest) = Len(log) - k /\ k \in Nat BY <1>3
      <3> QED BY <1>5, <3>1
    <2>2. rest[Len(rest) - j + 1] = log[Len(log) - (j - 1)] /\ log[Len(log) - (j - 1)].at >= c BY <1>9, <2>1
    <2>3. j - 1 < Len(cut) /\ cut[Len(cut) - (j - 1)] = log[Len(log) - (j - 1)].at
      BY <1>2, <2>1, <2>2 DEF Aligned
    <2>4. Len(cut) - (j - 1) = Len(cut) - j + 1 BY <1>5
    <2> QED BY <1>5, <2>2, <2>3, <2>4
  <1> HIDE DEF hits2, log2
  <1>11. HitsOK(hits2, t)
    <2>1. \A i \in 1..Len(cut) : cut[i] \in Int /\ cut[i] <= t BY <1>2 DEF HitsOK, Rising
    <2>2. ASSUME NEW i \in 1..Len(hits2), NEW j \in 1..i PROVE hits2[j] <= hits2[i]
      <3>1. CASE i = Len(cut) + 1
        <4>1. j \in 1..Len(cut) \/ j = Len(cut) + 1 BY <1>5, <3>1
        <4>2. hits2[i] = t BY <1>7, <3>1
        <4>3. hits2[j] <= t
          <5>1. CASE j \in 1..Len(cut) BY <1>7, <2>1, <5>1
          <5>2. CASE j = Len(cut) + 1 BY <1>7, <5>2
          <5> QED BY <4>1, <5>1, <5>2
        <4> QED BY <4>2, <4>3
      <3>2. CASE i # Len(cut) + 1
        <4>1. i \in 1..Len(cut) /\ j \in 1..Len(cut) /\ j \in 1..i BY <1>len, <3>2
        <4>2. cut[j] <= cut[i] BY <1>2, <4>1 DEF HitsOK, Rising
        <4> QED BY <1>7, <4>1, <4>2
      <3> QED BY <3>1, <3>2
    <2>3. ASSUME NEW i \in 1..Len(hits2) PROVE hits2[i] <= t /\ hits2[i] \in Int
      <3>1. i \in 1..Len(cut) \/ i = Len(cut) + 1 BY <1>5, <1>7
      <3>2. CASE i \in 1..Len(cut) BY <1>7, <2>1, <3>2
      <3>3. CASE i = Len(cut) + 1 BY <1>7, <3>3
      <3> QED BY <3>1, <3>2, <3>3
    <2> QED BY <1>7, <2>2, <2>3 DEF HitsOK, Rising
  <1>12. LogOK(log2, t)
    <2>1. ASSUME NEW i \in 1..Len(log2) PROVE log2[i].at <= t
      <3>1. i = Len(rest) + 1 \/ i \in 1..Len(rest) BY <1>5, <1>8
      <3>2. CASE i = Len(rest) + 1 BY <1>4, <1>8, <3>2
      <3>3. CASE i \in 1..Len(rest) BY <1>8, <1>9, <3>3
      <3> QED BY <3>1, <3>2, <3>3
    <2>2. ASSUME NEW i \in 1..Len(log2), NEW j \in 1..Len(log2), j <= i PROVE log2[j].at <= log2[i].at
      <3>1. CASE i = Len(rest) + 1 BY <1>4, <1>8, <2>1, <3>1
      <3>2. CASE i # Len(rest) + 1
        <4>1. i \in 1..Len(rest) /\ j \in 1..Len(rest)
          <5>1. Len(log2) = Len(rest) + 1 BY <1>8
          <5>2. i \in 1..(Len(rest) + 1) /\ j \in 1..(Len(rest) + 1) BY <5>1
          <5>3. Len(rest) \in Nat BY <1>5
          <5> QED BY <2>2, <3>2, <5>2, <5>3, Earlier
        <4>2. i + k \in 1..Len(log) /\ j + k \in 1..Len(log) /\ j + k <= i + k BY <1>9, <2>2, <4>1
        <4>3. log[j + k].at <= log[i + k].at BY <4>2 DEF WindowOK, LogOK
        <4> QED BY <1>8, <1>9, <4>1, <4>3
      <3> QED BY <3>1, <3>2
    <2> QED BY <1>8, <2>1, <2>2 DEF LogOK
  <1>13. Aligned(hits2, log2, c)
    <2> SUFFICES ASSUME NEW j \in 0..(Len(log2) - 1)
                 PROVE  j < Len(hits2) /\ hits2[Len(hits2) - j] = log2[Len(log2) - j].at
      BY DEF Aligned
    <2>1. CASE j = 0
      <3>1. Len(hits2) - j = Len(cut) + 1 /\ Len(log2) - j = Len(rest) + 1 /\ j < Len(hits2) BY <1>len, <2>1
      <3>2. hits2[Len(cut) + 1] = t /\ log2[Len(rest) + 1].at = t BY <1>4, <1>7, <1>8
      <3> QED BY <3>1, <3>2
    <2>2. CASE j # 0
      <3>1. j \in 1..Len(rest) BY <1>5, <1>8, <2>2
      <3>2. j <= Len(cut) /\ cut[Len(cut) - j + 1] = rest[Len(rest) - j + 1].at BY <1>10, <3>1
      <3>3. /\ Len(hits2) - j = Len(cut) - j + 1 /\ Len(cut) - j + 1 \in 1..Len(cut)
            /\ Len(log2) - j = Len(rest) - j + 1 /\ Len(rest) - j + 1 \in 1..Len(rest)
        BY <1>5, <1>7, <1>8, <3>1, <3>2
      <3>4. hits2[Len(hits2) - j] = cut[Len(cut) - j + 1] /\ log2[Len(log2) - j] = rest[Len(rest) - j + 1]
        BY <1>7, <1>8, <3>3
      <3>5. j < Len(hits2) BY <1>5, <1>7, <3>2
      <3> QED BY <3>2, <3>4, <3>5
    <2> QED BY <2>1, <2>2
  <1>14. Room(log2, W)
    <2> SUFFICES ASSUME NEW i \in 1..Len(log2), NEW j \in 1..Len(log2), j <= i, log2[j].at >= log2[i].at - W
                 PROVE  i - j < log2[i].limit
      BY DEF Room
    <2>1. CASE i = Len(rest) + 1
      <3>1. Len(rest) = 0 \/ Len(rest) \in 1..Len(rest) BY <1>len
      <3>2. Len(rest) <= Len(cut)
        <4>1. CASE Len(rest) = 0 BY <1>len, <4>1
        <4>2. CASE Len(rest) \in 1..Len(rest) BY <1>10, <4>2
        <4> QED BY <3>1, <4>1, <4>2
      <3>3. i - j <= Len(rest) BY <1>len, <2>1
      <3>4. log2[i].limit = limit BY <1>4, <1>8, <2>1
      <3> QED BY <1>len, <1>6, <3>2, <3>3, <3>4
    <2>2. CASE i # Len(rest) + 1
      <3>1. i \in 1..Len(rest) /\ j \in 1..Len(rest)
        <4>1. Len(log2) = Len(rest) + 1 BY <1>8
        <4>2. i \in 1..(Len(rest) + 1) /\ j \in 1..(Len(rest) + 1) BY <4>1
        <4>3. Len(rest) \in Nat BY <1>5
        <4> QED BY <2>2, <4>2, <4>3, Earlier
      <3>2. i + k \in 1..Len(log) /\ j + k \in 1..Len(log) /\ j + k <= i + k BY <1>9, <3>1
      <3>3. log2[i] = log[i + k] /\ log2[j] = log[j + k] BY <1>8, <1>9, <3>1
      <3>4. (i + k) - (j + k) < log[i + k].limit BY <3>2, <3>3 DEF WindowOK, Room
      <3>5. (i + k) - (j + k) = i - j OBVIOUS
      <3> QED BY <3>3, <3>4, <3>5
    <2> QED BY <2>1, <2>2
  <1>15. Noted(hits2, NoValue, W) BY DEF Noted
  <1>16. WindowOK(hits2, log2, NoValue, t, W) BY <1>11, <1>12, <1>13, <1>14, <1>15 DEF WindowOK, c
  <1> QED BY <1>16 DEF hits2, log2, cut, rest, last, c

\* Whoever waited as he was told is refused only by a lower budget.
LEMMA WaitedEnough ==
  ASSUME NEW t \in Int, NEW W \in Nat, NEW hits, NEW log, NEW tell, WindowOK(hits, log, tell, t, W),
         tell # NoValue, tell.full, t >= tell.at, NEW limit \in Int, Len(Cut(hits, t - W)) >= limit
  PROVE  limit < tell.limit
  <1> DEFINE c == t - W
             cut == Cut(hits, c)
  <1>1. c \in Int OBVIOUS
  <1>2. PICK k \in 0..Len(hits) :
          /\ cut \in Seq(Int) /\ Len(cut) = Len(hits) - k
          /\ \A i \in 1..Len(hits) : hits[i] < c <=> i <= k
    BY <1>1, CutFacts DEF WindowOK
  <1>3. /\ tell.at \in Int /\ tell.limit \in Int /\ tell.limit > 0 /\ Len(hits) <= tell.limit
        /\ Len(hits) = tell.limit => hits[1] + W < tell.at
    BY DEF WindowOK, Noted
  <1>4. Len(hits) \in Nat /\ hits \in Seq(Int) BY DEF WindowOK, HitsOK
  <1>5. limit <= Len(hits) - k BY <1>2
  <1>6. CASE Len(hits) = tell.limit
    <2>1. 1 \in 1..Len(hits) /\ hits[1] \in Int BY <1>3, <1>4, <1>6
    <2>2. hits[1] < c BY <1>3, <1>6, <2>1
    <2>3. 1 <= k BY <1>2, <2>1, <2>2
    <2> QED BY <1>3, <1>4, <1>5, <1>6, <2>3
  <1>7. CASE Len(hits) # tell.limit BY <1>3, <1>4, <1>5, <1>7
  <1> QED BY <1>6, <1>7

\* Room for each is the budget of the minute that ends with it.
LEMMA RoomCounts ==
  ASSUME NEW t \in Int, NEW W \in Nat, NEW log, LogOK(log, t), Room(log, W), NEW i \in 1..Len(log)
  PROVE  Cardinality({j \in 1..i : log[j].at >= log[i].at - W}) <= log[i].limit
  <1> DEFINE S == {j \in 1..i : log[j].at >= log[i].at - W}
             limit == log[i].limit
  <1>1. log \in Seq([at : Int, limit : Int]) /\ Len(log) \in Nat /\ i \in Nat BY DEF LogOK
  <1>2. \A j \in 1..Len(log) : log[j].at \in Int /\ log[j].limit \in Int BY LogElements
  <1>3. limit \in Int /\ log[i].at \in Int BY <1>2
  <1>4. log[i].at >= log[i].at - W /\ i <= i BY <1>1, <1>3
  <1>5. i - i < limit BY <1>4 DEF Room
  <1>6. S \in SUBSET ((i - limit + 1)..i)
    <2> SUFFICES ASSUME NEW j \in S PROVE j \in (i - limit + 1)..i OBVIOUS
    <2>1. j \in 1..Len(log) /\ j <= i /\ log[j].at >= log[i].at - W BY <1>1
    <2>2. i - j < limit BY <2>1 DEF Room
    <2> HIDE DEF limit
    <2> QED BY <1>1, <1>3, <2>1, <2>2
  <1> HIDE DEF S, limit
  <1> DEFINE first == i - limit + 1
  <1>7. first \in Int /\ i \in Int /\ first <= i /\ i - first + 1 = limit
    <2>1. i \in Int /\ limit \in Int /\ i - i < limit BY <1>1, <1>3, <1>5
    <2> QED BY <2>1
  <1>8. S \in SUBSET (first..i) BY <1>6
  <1> HIDE DEF first
  <1>9. IsFiniteSet(first..i) /\ Cardinality(first..i) = i - first + 1 BY <1>7, FS_Interval
  <1>10. Cardinality(S) <= Cardinality(first..i) BY <1>8, <1>9, FS_Subset
  <1>11. Cardinality(S) <= limit BY <1>7, <1>9, <1>10
  <1> QED BY <1>11 DEF S, limit

-----------------------------------------------------------------------------
(* The limiter's state, for each part *)

ValuesOK(c, v) ==
  /\ \A b \in c.buckets : v[b] \in Int \cup {NoValue}
  /\ v["overrides"] = NoValue \/ Overriding(c, v["overrides"])

CopyOK(c, copy) == copy # NoValue => copy.at \in Int /\ ValuesOK(c, copy.values)

\* A value that was the stored one at t, or later.
StoredSince(v, s, t) == v[s] = store[s] \/ \E g \in past : g.key = s /\ g.value = v[s] /\ g.until >= t

LoadOK(c, r) ==
  /\ r.worker \in c.workers /\ r.ip \in c.ips /\ r.session \in c.sessions \cup {NoValue}
  /\ r.token \in c.tokens \cup {NoValue} /\ r.bucket \in c.buckets /\ r.path \in c.paths \cup {""}
  /\ r.at \in Int /\ r.at <= now /\ now <= r.at + c.most[1]
  /\ ValuesOK(c, r.values)

Settling(p) ==
  LET c == RateParts[p] IN
  /\ now \in Int
  /\ DOMAIN store = SettingNames(c) /\ ValuesOK(c, store)
  /\ DOMAIN saving = c.workers
  /\ \A w \in c.workers : saving[w] \in [form : c.forms, left : SUBSET SettingNames(c)] \cup {NoValue}
  /\ \A g \in past : g.until \in Int

\* What is being read was stored since then; a copy, since a read before it.
Copies(p) ==
  LET c == RateParts[p] IN
  /\ DOMAIN cache = c.workers
  /\ \A w \in c.workers : CopyOK(c, cache[w])
  /\ \A w \in c.workers : cache[w] # NoValue =>
       /\ cache[w].at <= now
       /\ \A s \in SettingNames(c) : StoredSince(cache[w].values, s, cache[w].at - c.most[1])
  /\ \A r \in loads : LoadOK(c, r) /\ \A s \in SettingNames(c) : StoredSince(r.values, s, r.at)

\* Whose requests are counted.
Owners(p) == RateParts[p].ips \cup RateParts[p].sessions \cup RateParts[p].valid

\* Only tokens that authenticate are noted, and only they, sessions and addresses are counted.
Counting(p) ==
  LET c == RateParts[p] IN
  /\ DOMAIN noted = c.workers /\ DOMAIN window = c.workers
  /\ DOMAIN allowed = c.workers /\ DOMAIN told = c.workers
  /\ \A w \in c.workers :
       /\ DOMAIN noted[w] = c.tokens
       /\ \A t \in c.tokens : noted[w][t] # NoValue => t \in c.valid
       /\ DOMAIN window[w] = Rate(p)!WinKeys
       /\ DOMAIN allowed[w] = Rate(p)!WinKeys /\ DOMAIN told[w] = Rate(p)!WinKeys
       /\ \A k \in Rate(p)!WinKeys : window[w][k] # <<>> => k[1] \in Owners(p)

Windows(p) ==
  \A w \in RateParts[p].workers, k \in Rate(p)!WinKeys :
      WindowOK(window[w][k], allowed[w][k], told[w][k], now, RateParts[p].window)

RateInv(p) == Settling(p) /\ Copies(p) /\ Counting(p) /\ Windows(p)

LEMMA PartAssumption ==
  ASSUME NEW p \in DOMAIN RateParts
  PROVE  RateAssumption(RateParts[p])
  BY LimiterAssumption

LEMMA FormsOK ==
  ASSUME NEW p \in DOMAIN RateParts, NEW form \in RateParts[p].forms
  PROVE  DOMAIN form = SettingNames(RateParts[p]) /\ ValuesOK(RateParts[p], form)
  BY PartAssumption DEF RateAssumption, ValuesOK

\* A budget is an integer.
LEMMA LimitIsInt ==
  ASSUME NEW p \in DOMAIN RateParts, NEW copy, CopyOK(RateParts[p], copy), NEW b \in RateParts[p].buckets, NEW path
  PROVE  Rate(p)!Limit(copy, b, path).limit \in Int
  <1> DEFINE c == RateParts[p]
             over == Rate(p)!Resolve(copy, "overrides")
             all == Rate(p)!Resolve(copy, b)
  <1>1. RateAssumption(c) BY PartAssumption
  <1>2. Overriding(c, over)
    BY <1>1 DEF RateAssumption, CopyOK, ValuesOK, Rate!Resolve
  <1>3. all \in Int
    BY <1>1 DEF RateAssumption, CopyOK, ValuesOK, Rate!Resolve
  <1>4. Rate(p)!Limit(copy, b, path) = IF path \in DOMAIN over THEN [limit |-> over[path][b], prefix |-> path]
                                       ELSE [limit |-> all, prefix |-> ""]
    BY DEF Rate!Limit
  <1> HIDE DEF over, all
  <1>5. CASE path \in DOMAIN over
    <2>1. over[path][b] \in Int BY <1>2, <1>5 DEF Overriding
    <2> QED BY <1>4, <1>5, <2>1
  <1>6. CASE path \notin DOMAIN over
    <2>1. Rate(p)!Limit(copy, b, path) = [limit |-> all, prefix |-> ""] BY <1>4, <1>6
    <2>2. [limit |-> all, prefix |-> ""].limit = all OBVIOUS
    <2> QED BY <1>3, <2>1, <2>2
  <1> QED BY <1>5, <1>6

\* A sweep leaves a window as it is, or drops one that has nothing left to count.
LEMMA SweptFacts ==
  ASSUME NEW p \in DOMAIN RateParts, Settling(p), Counting(p), Windows(p), NEW w \in RateParts[p].workers
  PROVE  /\ DOMAIN Rate(p)!Swept(w) = Rate(p)!WinKeys
         /\ \A k \in Rate(p)!WinKeys :
              /\ Rate(p)!Swept(w)[k] \in {window[w][k], <<>>}
              /\ WindowOK(Rate(p)!Swept(w)[k], allowed[w][k], told[w][k], now, RateParts[p].window)
  <1> DEFINE c == RateParts[p]
             wins == Rate(p)!Swept(w)
             evicted == Rate(p)!Evicted(window[w])
  <1>1. wins = window[w] \/ wins = evicted BY DEF Rate!Swept
  <1>2. DOMAIN window[w] = Rate(p)!WinKeys BY DEF Counting
  <1>3. evicted = [k \in Rate(p)!WinKeys |-> IF /\ window[w][k] # <<>>
                                                /\ window[w][k][Len(window[w][k])] < now - c.window
                                             THEN <<>> ELSE window[w][k]]
    BY DEF Rate!Evicted
  <1> HIDE DEF wins, evicted
  <1>4. DOMAIN wins = Rate(p)!WinKeys BY <1>1, <1>2, <1>3
  <1>5. ASSUME NEW k \in Rate(p)!WinKeys
        PROVE  wins[k] \in {window[w][k], <<>>} /\ WindowOK(wins[k], allowed[w][k], told[w][k], now, c.window)
    <2>1. WindowOK(window[w][k], allowed[w][k], told[w][k], now, c.window) BY DEF Windows
    <2>2. now \in Int /\ c.window \in Nat BY PartAssumption DEF Settling, RateAssumption
    <2>3. CASE wins = window[w] BY <2>1, <2>3
    <2>4. CASE wins = evicted /\ window[w][k] # <<>> /\ window[w][k][Len(window[w][k])] < now - c.window
      <3>1. wins[k] = <<>> BY <1>3, <2>4
      <3>2. WindowOK(<<>>, allowed[w][k], told[w][k], now, c.window) BY <2>1, <2>2, <2>4, WindowEvicted
      <3> QED BY <3>1, <3>2
    <2>5. CASE wins = evicted /\ ~(window[w][k] # <<>> /\ window[w][k][Len(window[w][k])] < now - c.window)
      <3>1. wins[k] = window[w][k] BY <1>3, <2>5
      <3> QED BY <2>1, <3>1
    <2> QED BY <1>1, <2>3, <2>4, <2>5
  <1> QED BY <1>4, <1>5 DEF wins

\* Whom a request is counted with.
LEMMA CallerFacts ==
  ASSUME NEW p \in DOMAIN RateParts, Counting(p), NEW w \in RateParts[p].workers,
         NEW ip \in RateParts[p].ips, NEW s \in RateParts[p].sessions \cup {NoValue},
         NEW t \in RateParts[p].tokens \cup {NoValue}
  PROVE  Rate(p)!CallerKey(w, ip, s, t) \in Owners(p)
  BY DEF Counting, Owners, Rate!CallerKey

\* What one decision does to a window: nothing, but that a sweep may drop it, or
\* it is the one of the request, which is refused or let through.
Decides(p, v, k) ==
  LET W == RateParts[p].window
      same == allowed'[v][k] = allowed[v][k] /\ told'[v][k] = told[v][k]
  IN \E hits : /\ WindowOK(hits, allowed[v][k], told[v][k], now, W)
               /\ \/ window'[v][k] = hits /\ same /\ hits \in {window[v][k], <<>>}
                  \/ \E limit \in Int :
                       /\ limit > 0 /\ Len(Cut(hits, now - W)) >= limit
                       /\ window'[v][k] = Cut(hits, now - W) /\ allowed'[v][k] = allowed[v][k]
                       /\ told'[v][k] = [at |-> now + Rate(p)!RetryAfter(Cut(hits, now - W)[1]), limit |-> limit,
                                         full |-> Len(Cut(hits, now - W)) = limit]
                       /\ k[1] \in Owners(p)
                  \/ \E limit \in Int :
                       /\ limit > 0 /\ Len(Cut(hits, now - W)) < limit
                       /\ window'[v][k] = Append(Cut(hits, now - W), now) /\ told'[v][k] = NoValue
                       /\ allowed'[v][k] = Append(CutLog(allowed[v][k], now - W), [at |-> now, limit |-> limit])
                       /\ k[1] \in Owners(p)

Shaped(p) ==
  /\ DOMAIN window = RateParts[p].workers /\ DOMAIN allowed = RateParts[p].workers
  /\ DOMAIN told = RateParts[p].workers
  /\ \A w \in RateParts[p].workers : /\ DOMAIN window[w] = Rate(p)!WinKeys
                                     /\ DOMAIN allowed[w] = Rate(p)!WinKeys
                                     /\ DOMAIN told[w] = Rate(p)!WinKeys

LEMMA DecideFacts ==
  ASSUME NEW p \in DOMAIN RateParts, Settling(p), Counting(p), Windows(p),
         NEW w \in RateParts[p].workers, NEW ip \in RateParts[p].ips, NEW s \in RateParts[p].sessions \cup {NoValue},
         NEW t \in RateParts[p].tokens \cup {NoValue},
         NEW b \in RateParts[p].buckets, NEW path, NEW copy, CopyOK(RateParts[p], copy),
         Rate(p)!Decide(w, ip, s, t, b, path, copy)
  PROVE  /\ Shaped(p)'
         /\ noted' = noted \/ (t \in RateParts[p].valid /\ noted' = [noted EXCEPT ![w][t] = now])
         /\ \A v \in RateParts[p].workers, k \in Rate(p)!WinKeys : Decides(p, v, k)
  <1> DEFINE c == RateParts[p]
             W == c.window
             rule == Rate(p)!Limit(copy, b, path)
             limit == rule.limit
             key == <<Rate(p)!CallerKey(w, ip, s, t), b, rule.prefix>>
             wins == Rate(p)!Swept(w)
             hits == Cut(wins[key], now - W)
             refusal == [at |-> now + Rate(p)!RetryAfter(hits[1]), limit |-> limit, full |-> Len(hits) = limit]
             pass == Append(CutLog(allowed[w][key], now - W), [at |-> now, limit |-> limit])
  <1>1. limit \in Int BY LimitIsInt
  <1>2. /\ DOMAIN wins = Rate(p)!WinKeys
        /\ \A k \in Rate(p)!WinKeys : /\ wins[k] \in {window[w][k], <<>>}
                                      /\ WindowOK(wins[k], allowed[w][k], told[w][k], now, W)
    BY SweptFacts
  <1>3. key[1] \in Owners(p) BY CallerFacts
  <1>4. \A h : Rate(p)!Recent(h) = Cut(h, now - W) BY Zenon DEF Rate!Recent, Cut, Rate!Cardinality, Cardinality
  <1>5. \A log : Rate(p)!Latest(log) = CutLog(log, now - W) BY Zenon DEF Rate!Latest, CutLog, Rate!Cardinality, Cardinality
  <1>6. \/ limit <= 0 /\ noted' = Rate(p)!Noted(w, t) /\ UNCHANGED <<window, allowed, told>>
        \/ /\ limit > 0 /\ Len(hits) >= limit
           /\ window' = [window EXCEPT ![w] = [wins EXCEPT ![key] = hits]]
           /\ told' = [told EXCEPT ![w][key] = refusal]
           /\ UNCHANGED <<noted, allowed>>
        \/ /\ limit > 0 /\ ~(Len(hits) >= limit)
           /\ window' = [window EXCEPT ![w] = [wins EXCEPT ![key] = Append(hits, now)]]
           /\ allowed' = [allowed EXCEPT ![w][key] = pass]
           /\ told' = [told EXCEPT ![w][key] = NoValue]
           /\ noted' = Rate(p)!Noted(w, t)
    <2>1. \/ rule.limit <= 0 /\ noted' = Rate(p)!Noted(w, t) /\ UNCHANGED <<window, allowed, told>>
          \/ /\ ~(rule.limit <= 0) /\ Len(Rate(p)!Recent(wins[key])) >= rule.limit
             /\ window' = [window EXCEPT ![w] = [wins EXCEPT ![key] = Rate(p)!Recent(wins[key])]]
             /\ told' = [told EXCEPT ![w][key] =
                  [at |-> now + Rate(p)!RetryAfter(Rate(p)!Recent(wins[key])[1]), limit |-> rule.limit,
                   full |-> Len(Rate(p)!Recent(wins[key])) = rule.limit]]
             /\ UNCHANGED <<noted, allowed>>
          \/ /\ ~(rule.limit <= 0) /\ ~(Len(Rate(p)!Recent(wins[key])) >= rule.limit)
             /\ window' = [window EXCEPT ![w] = [wins EXCEPT ![key] = Append(Rate(p)!Recent(wins[key]), now)]]
             /\ allowed' = [allowed EXCEPT ![w][key] =
                  Append(Rate(p)!Latest(allowed[w][key]), [at |-> now, limit |-> rule.limit])]
             /\ told' = [told EXCEPT ![w][key] = NoValue]
             /\ noted' = Rate(p)!Noted(w, t)
      BY Zenon DEF Rate!Decide
    <2>2. ~(rule.limit <= 0) => limit > 0 BY <1>1
    <2>3. Rate(p)!Recent(wins[key]) = hits BY <1>4
    <2>4. Rate(p)!Latest(allowed[w][key]) = CutLog(allowed[w][key], now - W) BY <1>5
    <2> HIDE DEF rule, key, wins, hits
    <2> QED BY <2>1, <2>2, <2>3, <2>4 DEF hits
  <1>7. Shaped(p) /\ \A v \in c.workers, k \in Rate(p)!WinKeys :
                       WindowOK(window[v][k], allowed[v][k], told[v][k], now, W)
    BY DEF Counting, Shaped, Windows
  <1>8. key \in Rate(p)!WinKeys => WindowOK(wins[key], allowed[w][key], told[w][key], now, W) BY <1>2
  <1> HIDE DEF rule, limit, key, wins, hits, refusal, pass
  <1>9. CASE limit <= 0 /\ noted' = Rate(p)!Noted(w, t) /\ UNCHANGED <<window, allowed, told>>
    <2>1. Shaped(p)' BY <1>7, <1>9 DEF Shaped, Rate!WinKeys, Rate!Callers
    <2>2. ASSUME NEW v \in c.workers, NEW k \in Rate(p)!WinKeys PROVE Decides(p, v, k)
      BY <1>7, <1>9 DEF Decides
    <2> QED BY <1>9, <2>1, <2>2 DEF Rate!Noted
  <1>10. CASE /\ limit > 0 /\ Len(hits) >= limit
              /\ window' = [window EXCEPT ![w] = [wins EXCEPT ![key] = hits]]
              /\ told' = [told EXCEPT ![w][key] = refusal]
              /\ UNCHANGED <<noted, allowed>>
    <2>1. Shaped(p)'
      BY <1>2, <1>7, <1>10 DEF Shaped, Rate!WinKeys, Rate!Callers
    <2>2. ASSUME NEW v \in c.workers, NEW k \in Rate(p)!WinKeys PROVE Decides(p, v, k)
      <3>1. CASE v = w /\ k = key
        <4>1. window'[v][k] = hits /\ told'[v][k] = refusal /\ allowed'[v][k] = allowed[v][k]
          BY <1>2, <1>7, <1>10, <3>1 DEF Shaped
        <4>2. WindowOK(wins[key], allowed[v][k], told[v][k], now, W) BY <1>8, <3>1
        <4>3. k[1] \in Owners(p) BY <1>3, <3>1
        <4> QED BY <1>1, <1>10, <4>1, <4>2, <4>3 DEF Decides, hits, refusal
      <3>2. CASE ~(v = w /\ k = key)
        <4>1. allowed'[v][k] = allowed[v][k] /\ told'[v][k] = told[v][k]
          BY <1>7, <1>10, <3>2 DEF Shaped
        <4>2. CASE v = w
          <5>1. window'[v][k] = wins[k] BY <1>2, <1>7, <1>10, <3>2, <4>2 DEF Shaped
          <5> QED BY <1>2, <4>1, <4>2, <5>1 DEF Decides
        <4>3. CASE v # w
          <5>1. window'[v][k] = window[v][k] BY <1>7, <1>10, <4>3 DEF Shaped
          <5> QED BY <1>7, <4>1, <5>1 DEF Decides
        <4> QED BY <4>2, <4>3
      <3> QED BY <3>1, <3>2
    <2> QED BY <1>10, <2>1, <2>2
  <1>11. CASE /\ limit > 0 /\ ~(Len(hits) >= limit)
              /\ window' = [window EXCEPT ![w] = [wins EXCEPT ![key] = Append(hits, now)]]
              /\ allowed' = [allowed EXCEPT ![w][key] = pass]
              /\ told' = [told EXCEPT ![w][key] = NoValue]
              /\ noted' = Rate(p)!Noted(w, t)
    <2>1. Shaped(p)'
      BY <1>2, <1>7, <1>11 DEF Shaped, Rate!WinKeys, Rate!Callers
    <2>2. ASSUME NEW v \in c.workers, NEW k \in Rate(p)!WinKeys PROVE Decides(p, v, k)
      <3>1. CASE v = w /\ k = key
        <4>1. window'[v][k] = Append(hits, now) /\ told'[v][k] = NoValue /\ allowed'[v][k] = pass
          BY <1>2, <1>7, <1>11, <3>1 DEF Shaped
        <4>2. WindowOK(wins[key], allowed[v][k], told[v][k], now, W) BY <1>8, <3>1
        <4>3. k[1] \in Owners(p) BY <1>3, <3>1
        <4>4. Len(hits) < limit
          <5>1. now \in Int /\ W \in Nat BY PartAssumption DEF Settling, RateAssumption
          <5>2. HitsOK(wins[key], now) BY <4>2 DEF WindowOK
          <5>3. Len(hits) \in Int BY <5>1, <5>2, CutFacts, Elements DEF hits
          <5> QED BY <1>1, <1>11, <5>3
        <4> QED BY <1>1, <1>11, <3>1, <4>1, <4>2, <4>3, <4>4 DEF Decides, hits, pass
      <3>2. CASE ~(v = w /\ k = key)
        <4>1. allowed'[v][k] = allowed[v][k] /\ told'[v][k] = told[v][k]
          BY <1>7, <1>11, <3>2 DEF Shaped
        <4>2. CASE v = w
          <5>1. window'[v][k] = wins[k] BY <1>2, <1>7, <1>11, <3>2, <4>2 DEF Shaped
          <5> QED BY <1>2, <4>1, <4>2, <5>1 DEF Decides
        <4>3. CASE v # w
          <5>1. window'[v][k] = window[v][k] BY <1>7, <1>11, <4>3 DEF Shaped
          <5> QED BY <1>7, <4>1, <5>1 DEF Decides
        <4> QED BY <4>2, <4>3
      <3> QED BY <3>1, <3>2
    <2> QED BY <1>11, <2>1, <2>2 DEF Rate!Noted
  <1> QED BY <1>6, <1>9, <1>10, <1>11

\* After a decision each window is in order, a window that it opened has its owner,
\* and who is refused again had waited too little, or the budget is lower.
LEMMA DecidedWindow ==
  ASSUME NEW p \in DOMAIN RateParts, Settling(p), NEW v, NEW k, Decides(p, v, k)
  PROVE  /\ WindowOK(window'[v][k], allowed'[v][k], told'[v][k], now, RateParts[p].window)
         /\ window'[v][k] # <<>> => window[v][k] # <<>> \/ k[1] \in Owners(p)
         /\ (/\ told[v][k] # NoValue /\ told'[v][k] # NoValue /\ told[v][k] # told'[v][k]
             /\ told[v][k].full /\ now >= told[v][k].at)
            => told'[v][k].limit < told[v][k].limit
  <1> DEFINE W == RateParts[p].window
             log == allowed[v][k]
             tell == told[v][k]
  <1>1. now \in Int /\ W \in Nat BY PartAssumption DEF Settling, RateAssumption
  <1>2. PICK hits :
          /\ WindowOK(hits, log, tell, now, W)
          /\ \/ window'[v][k] = hits /\ allowed'[v][k] = log /\ told'[v][k] = tell /\ hits \in {window[v][k], <<>>}
             \/ \E limit \in Int :
                  /\ limit > 0 /\ Len(Cut(hits, now - W)) >= limit
                  /\ window'[v][k] = Cut(hits, now - W) /\ allowed'[v][k] = log
                  /\ told'[v][k] = [at |-> now + Rate(p)!RetryAfter(Cut(hits, now - W)[1]), limit |-> limit,
                                    full |-> Len(Cut(hits, now - W)) = limit]
                  /\ k[1] \in Owners(p)
             \/ \E limit \in Int :
                  /\ limit > 0 /\ Len(Cut(hits, now - W)) < limit
                  /\ window'[v][k] = Append(Cut(hits, now - W), now) /\ told'[v][k] = NoValue
                  /\ allowed'[v][k] = Append(CutLog(log, now - W), [at |-> now, limit |-> limit])
                  /\ k[1] \in Owners(p)
    BY DEF Decides
  <1> DEFINE cut == Cut(hits, now - W)
             Goal == /\ WindowOK(window'[v][k], allowed'[v][k], told'[v][k], now, W)
                     /\ window'[v][k] # <<>> => window[v][k] # <<>> \/ k[1] \in Owners(p)
                     /\ (/\ tell # NoValue /\ told'[v][k] # NoValue /\ tell # told'[v][k]
                         /\ tell.full /\ now >= tell.at)
                        => told'[v][k].limit < tell.limit
  <1>3. CASE /\ window'[v][k] = hits /\ allowed'[v][k] = log /\ told'[v][k] = tell
             /\ hits \in {window[v][k], <<>>}
    BY <1>2, <1>3
  <1>4. ASSUME NEW limit \in Int, limit > 0, Len(cut) >= limit,
               window'[v][k] = cut, allowed'[v][k] = log,
               told'[v][k] = [at |-> now + Rate(p)!RetryAfter(cut[1]), limit |-> limit, full |-> Len(cut) = limit],
               k[1] \in Owners(p)
        PROVE  Goal
    <2> DEFINE at == now + Rate(p)!RetryAfter(cut[1])
               full == Len(cut) = limit
    <2>1. HitsOK(cut, now)
      <3>1. now - W \in Int BY <1>1
      <3> QED BY <1>1, <1>2, <3>1, CutAligned DEF WindowOK
    <2>2. cut[1] \in Int
      <3>1. Len(cut) \in Nat /\ \A i \in 1..Len(cut) : cut[i] \in Int BY <2>1, HitsElements
      <3> HIDE DEF cut
      <3>2. 1 \in 1..Len(cut) BY <1>4, <3>1
      <3> QED BY <3>1, <3>2
    <2>3. at \in Int /\ at > cut[1] + W
      <3> HIDE DEF cut
      <3> QED BY <1>1, <2>2 DEF Rate!RetryAfter
    <2>4. WindowOK(cut, log, [at |-> at, limit |-> limit, full |-> full], now, W)
      <3> HIDE DEF at, log, tell
      <3> QED BY <1>1, <1>2, <1>4, <2>3, WindowRefuses
    <2>5. ASSUME tell # NoValue, tell.full, now >= tell.at PROVE limit < tell.limit
      <3> HIDE DEF log, tell
      <3> QED BY <1>1, <1>2, <1>4, <2>5, WaitedEnough
    <2>6. told'[v][k].limit = limit BY <1>4
    <2> HIDE DEF cut, tell
    <2> QED BY <1>4, <2>4, <2>5, <2>6
  <1>5. ASSUME NEW limit \in Int, limit > 0, Len(cut) < limit,
               window'[v][k] = Append(cut, now), told'[v][k] = NoValue,
               allowed'[v][k] = Append(CutLog(log, now - W), [at |-> now, limit |-> limit]),
               k[1] \in Owners(p)
        PROVE  Goal
    <2>1. WindowOK(Append(cut, now), Append(CutLog(log, now - W), [at |-> now, limit |-> limit]), NoValue, now, W)
      BY <1>1, <1>2, <1>5, WindowLets
    <2> QED BY <1>5, <2>1
  <1> HIDE DEF cut, Goal
  <1>6. Goal BY <1>2, <1>3, <1>4, <1>5 DEF cut, Goal
  <1> QED BY <1>6 DEF Goal

LEMMA RateKeysKept == ASSUME NEW p PROVE Rate(p)!WinKeys' = Rate(p)!WinKeys
  BY DEF Rate!WinKeys, Rate!Callers

\* A decision keeps what is counted, and Retry-After.
LEMMA DecidedInv ==
  ASSUME NEW p \in DOMAIN RateParts, Settling(p), Counting(p), Windows(p), now' = now,
         NEW w \in RateParts[p].workers, NEW ip \in RateParts[p].ips, NEW s \in RateParts[p].sessions \cup {NoValue},
         NEW t \in RateParts[p].tokens \cup {NoValue},
         NEW b \in RateParts[p].buckets, NEW path, NEW copy, CopyOK(RateParts[p], copy),
         Rate(p)!Decide(w, ip, s, t, b, path, copy)
  PROVE  Counting(p)' /\ Windows(p)' /\ Rate(p)!RetryKept
  <1> DEFINE c == RateParts[p]
             Keys == Rate(p)!WinKeys
  <1>1. /\ Shaped(p)'
        /\ noted' = noted \/ (t \in c.valid /\ noted' = [noted EXCEPT ![w][t] = now])
        /\ \A v \in c.workers, k \in Keys : Decides(p, v, k)
    BY DecideFacts
  <1>2. \A v \in c.workers, k \in Keys :
          /\ WindowOK(window'[v][k], allowed'[v][k], told'[v][k], now, c.window)
          /\ window'[v][k] # <<>> => window[v][k] # <<>> \/ k[1] \in Owners(p)
          /\ (/\ told[v][k] # NoValue /\ told'[v][k] # NoValue /\ told[v][k] # told'[v][k]
              /\ told[v][k].full /\ now >= told[v][k].at)
             => told'[v][k].limit < told[v][k].limit
    BY <1>1, DecidedWindow
  <1>3. Keys' = Keys BY RateKeysKept
  <1>4. \A v \in c.workers, k \in Keys : window'[v][k] # <<>> => k[1] \in Owners(p)
    BY <1>2 DEF Counting
  <1>5. /\ DOMAIN noted' = c.workers
        /\ \A v \in c.workers : DOMAIN noted'[v] = c.tokens
        /\ \A v \in c.workers, u \in c.tokens : noted'[v][u] # NoValue => u \in c.valid
    <2>1. /\ DOMAIN noted = c.workers
          /\ \A v \in c.workers : DOMAIN noted[v] = c.tokens
          /\ \A v \in c.workers, u \in c.tokens : noted[v][u] # NoValue => u \in c.valid
      BY DEF Counting
    <2>2. CASE noted' = noted BY <2>1, <2>2
    <2>3. CASE t \in c.valid /\ noted' = [noted EXCEPT ![w][t] = now] BY <2>1, <2>3
    <2> QED BY <1>1, <2>2, <2>3
  <1>6. Windows(p)' BY <1>2, <1>3 DEF Windows
  <1>7. Rate(p)!RetryKept BY <1>2 DEF Rate!RetryKept
  <1>8. Counting(p)'
    <2> HIDE DEF Keys
    <2> QED BY <1>1, <1>3, <1>4, <1>5 DEF Shaped, Counting, Owners, Keys
  <1> QED BY <1>6, <1>7, <1>8

LEMMA RateStarts ==
  ASSUME NEW p \in DOMAIN RateParts, Rate(p)!Init
  PROVE  RateInv(p)
  <1> DEFINE c == RateParts[p]
             Keys == Rate(p)!WinKeys
  <1>1. /\ now = 0 /\ store \in c.forms /\ saving = [w \in c.workers |-> NoValue]
        /\ cache = [w \in c.workers |-> NoValue] /\ loads = {} /\ past = {}
        /\ noted = [w \in c.workers |-> [t \in c.tokens |-> NoValue]]
        /\ window = [w \in c.workers |-> [k \in Keys |-> <<>>]]
        /\ allowed = [w \in c.workers |-> [k \in Keys |-> <<>>]]
        /\ told = [w \in c.workers |-> [k \in Keys |-> NoValue]]
    BY DEF Rate!Init
  <1> HIDE DEF Keys
  <1>2. Settling(p) BY <1>1, FormsOK DEF Settling
  <1>3. Copies(p) BY <1>1 DEF Copies, CopyOK
  <1>4. Counting(p) BY <1>1 DEF Counting, Keys
  <1>5. Windows(p)
    <2>1. 0 \in Int /\ c.window \in Nat BY PartAssumption DEF RateAssumption
    <2>2. WindowOK(<<>>, <<>>, NoValue, 0, c.window) BY <2>1, WindowStarts
    <2> QED BY <1>1, <2>2 DEF Windows, Keys
  <1> QED BY <1>2, <1>3, <1>4, <1>5 DEF RateInv

\* One key of a form is stored: a copy of the value it replaces is now of the past.
LEMMA KeySaved ==
  ASSUME NEW p \in DOMAIN RateParts, Settling(p), NEW w \in RateParts[p].workers, Rate(p)!SaveKey(w)
  PROVE  /\ Settling(p)'
         /\ \A v, s, t : s \in SettingNames(RateParts[p]) /\ t \in Int /\ t <= now /\ StoredSince(v, s, t)
                           => StoredSince(v, s, t)'
  <1> DEFINE c == RateParts[p]
             left == saving[w].left
             form == saving[w].form
  <1>1. PICK k : /\ k = CHOOSE x \in left : x # "overrides" \/ left = {"overrides"}
                 /\ left # {} /\ saving[w] # NoValue
                 /\ saving' = [saving EXCEPT ![w].left = @ \ {k}]
                 /\ store' = [store EXCEPT ![k] = form[k]]
                 /\ past' = IF store[k] = form[k] THEN past
                            ELSE past \cup {[key |-> k, value |-> store[k], until |-> now]}
                 /\ now' = now
    BY Zenon DEF Rate!SaveKey
  <1>2. saving[w] \in [form : c.forms, left : SUBSET SettingNames(c)] BY <1>1 DEF Settling
  <1>3. form \in c.forms /\ left \in SUBSET SettingNames(c) BY <1>2
  <1>4. k \in left
    <2>1. \E x \in left : x # "overrides" \/ left = {"overrides"} BY <1>1
    <2> QED BY <1>1, <2>1
  <1> HIDE DEF left, form
  <1>5. k \in SettingNames(c) /\ DOMAIN store = SettingNames(c) /\ ValuesOK(c, store) BY <1>3, <1>4 DEF Settling
  <1>6. DOMAIN form = SettingNames(c) /\ ValuesOK(c, form) BY <1>3, FormsOK
  <1>7. DOMAIN store' = SettingNames(c) /\ store'[k] = form[k] /\ \A s \in SettingNames(c) \ {k} : store'[s] = store[s]
    BY <1>1, <1>5
  <1>8. ValuesOK(c, store')
    <2>1. "overrides" \notin c.buckets BY PartAssumption DEF RateAssumption
    <2>2. \A s \in SettingNames(c) : store'[s] = form[s] \/ store'[s] = store[s] BY <1>7
    <2>3. ASSUME NEW b \in c.buckets PROVE store'[b] \in Int \cup {NoValue}
      BY <1>5, <1>6, <2>2 DEF SettingNames, ValuesOK
    <2>4. store'["overrides"] = NoValue \/ Overriding(c, store'["overrides"])
      <3>1. "overrides" \in SettingNames(c) BY DEF SettingNames
      <3>2. store'["overrides"] = form["overrides"] \/ store'["overrides"] = store["overrides"] BY <2>2, <3>1
      <3> QED BY <1>5, <1>6, <3>2 DEF ValuesOK
    <2> QED BY <2>3, <2>4 DEF ValuesOK
  <1>9. /\ DOMAIN saving' = c.workers
        /\ \A u \in c.workers : saving'[u] \in [form : c.forms, left : SUBSET SettingNames(c)] \cup {NoValue}
    <2>1. saving' = [saving EXCEPT ![w] = [saving[w] EXCEPT !.left = left \ {k}]] BY <1>1 DEF left
    <2>2. [saving[w] EXCEPT !.left = left \ {k}] \in [form : c.forms, left : SUBSET SettingNames(c)] BY <1>2, <1>3
    <2> QED BY <2>1, <2>2 DEF Settling
  <1>10. \A g \in past' : g.until \in Int
    <2>1. now \in Int /\ \A g \in past : g.until \in Int BY DEF Settling
    <2> QED BY <1>1, <2>1
  <1>11. Settling(p)' BY <1>1, <1>7, <1>8, <1>9, <1>10 DEF Settling, ValuesOK, Overriding
  <1>12. ASSUME NEW v, NEW s \in SettingNames(c), NEW t \in Int, t <= now, StoredSince(v, s, t)
         PROVE  v[s] = store'[s] \/ \E g \in past' : g.key = s /\ g.value = v[s] /\ g.until >= t
    <2>1. CASE \E g \in past : g.key = s /\ g.value = v[s] /\ g.until >= t BY <1>1, <2>1
    <2>2. CASE v[s] = store[s] /\ s # k BY <1>7, <2>2
    <2>3. CASE v[s] = store[s] /\ s = k /\ store[k] = form[k] BY <1>7, <2>3
    <2>4. CASE v[s] = store[s] /\ s = k /\ store[k] # form[k]
      <3> DEFINE g == [key |-> k, value |-> store[k], until |-> now]
      <3>1. g \in past' BY <1>1, <2>4
      <3>2. g.key = k /\ g.value = store[k] /\ g.until = now OBVIOUS
      <3>3. now \in Int /\ now >= t BY <1>12 DEF Settling
      <3> HIDE DEF g
      <3> QED BY <2>4, <3>1, <3>2, <3>3
    <2> QED BY <1>12, <2>1, <2>2, <2>3, <2>4 DEF StoredSince
  <1>13. \A v, s, t : s \in SettingNames(c) /\ t \in Int /\ t <= now /\ StoredSince(v, s, t) => StoredSince(v, s, t)'
    BY <1>12 DEF StoredSince
  <1> QED BY <1>11, <1>13

LEMMA SavedCopies ==
  ASSUME NEW p \in DOMAIN RateParts, Settling(p), Copies(p), NEW w \in RateParts[p].workers, Rate(p)!SaveKey(w)
  PROVE  Copies(p)'
  <1> DEFINE c == RateParts[p]
             Names == SettingNames(c)
  <1>1. cache' = cache /\ loads' = loads /\ now' = now BY DEF Rate!SaveKey
  <1>2. \A v, s, t : s \in Names /\ t \in Int /\ t <= now /\ StoredSince(v, s, t) => StoredSince(v, s, t)' BY KeySaved
  <1>3. now \in Int /\ c.most[1] \in Nat BY PartAssumption DEF Settling, RateAssumption
  <1>4. ASSUME NEW u \in c.workers, cache[u] # NoValue, NEW s \in Names
        PROVE  StoredSince(cache[u].values, s, cache[u].at - c.most[1])'
    <2>1. /\ cache[u].at \in Int /\ cache[u].at <= now
          /\ StoredSince(cache[u].values, s, cache[u].at - c.most[1])
      BY <1>4 DEF Copies, CopyOK
    <2>2. cache[u].at - c.most[1] \in Int /\ cache[u].at - c.most[1] <= now BY <1>3, <2>1
    <2>3. \A v, t : t \in Int /\ t <= now /\ StoredSince(v, s, t)
                      => v[s] = store'[s] \/ \E g \in past' : g.key = s /\ g.value = v[s] /\ g.until >= t
      BY <1>2 DEF StoredSince
    <2> QED BY <1>1, <2>1, <2>2, <2>3 DEF StoredSince
  <1>5. ASSUME NEW r \in loads PROVE LoadOK(c, r)' /\ \A s \in Names : StoredSince(r.values, s, r.at)'
    <2>1. LoadOK(c, r) /\ \A s \in Names : StoredSince(r.values, s, r.at) BY DEF Copies
    <2>2. LoadOK(c, r)' BY <1>1, <2>1 DEF LoadOK, ValuesOK, Overriding
    <2>3. r.at \in Int /\ r.at <= now BY <2>1 DEF LoadOK
    <2> QED BY <1>2, <2>1, <2>2, <2>3
  <1>6. \A u \in c.workers : CopyOK(c, cache[u]) /\ (cache[u] # NoValue => cache[u].at <= now) BY DEF Copies
  <1>7. \A u \in c.workers : CopyOK(c, cache[u])' BY <1>1, <1>6 DEF CopyOK, ValuesOK, Overriding
  <1>8. DOMAIN cache' = c.workers BY <1>1 DEF Copies
  <1> QED BY <1>1, <1>4, <1>5, <1>6, <1>7, <1>8 DEF Copies

\* What a step that leaves some of the variables alone keeps.
LEMMA SettlingKept ==
  ASSUME NEW p, Settling(p), now' = now, store' = store, saving' = saving, past' = past
  PROVE  Settling(p)'
  BY DEF Settling, ValuesOK, Overriding

LEMMA CopiesKept ==
  ASSUME NEW p, Copies(p), now' = now, store' = store, past' = past, cache' = cache, loads' \subseteq loads
  PROVE  Copies(p)'
  <1> DEFINE c == RateParts[p]
  <1>1. DOMAIN cache' = c.workers BY DEF Copies
  <1>2. \A w \in c.workers : CopyOK(c, cache[w])' BY DEF Copies, CopyOK, ValuesOK, Overriding
  <1>3. \A w \in c.workers : cache'[w] # NoValue =>
          /\ cache'[w].at <= now'
          /\ \A s \in SettingNames(c) : StoredSince(cache[w].values, s, cache[w].at - c.most[1])'
    BY DEF Copies, StoredSince
  <1>4. ASSUME NEW r \in loads' PROVE LoadOK(c, r)' /\ \A s \in SettingNames(c) : StoredSince(r.values, s, r.at)'
    <2>1. LoadOK(c, r) /\ \A s \in SettingNames(c) : StoredSince(r.values, s, r.at) BY DEF Copies
    <2> QED BY <2>1 DEF LoadOK, ValuesOK, Overriding, StoredSince
  <1> QED BY <1>1, <1>2, <1>3, <1>4 DEF Copies

LEMMA CountsKept ==
  ASSUME NEW p, Counting(p), UNCHANGED <<noted, window, allowed, told>>
  PROVE  Counting(p)' /\ Rate(p)!RetryKept /\ (now' = now /\ Windows(p) => Windows(p)')
  <1> DEFINE Keys == Rate(p)!WinKeys
  <1>1. Keys' = Keys BY RateKeysKept
  <1> HIDE DEF Keys
  <1>2. Counting(p)' BY <1>1 DEF Counting, Owners, Keys
  <1>3. now' = now /\ Windows(p) => Windows(p)' BY <1>1 DEF Windows, Keys
  <1>4. Rate(p)!RetryKept BY DEF Rate!RetryKept
  <1> QED BY <1>2, <1>3, <1>4

LEMMA NoLater == \A n \in Int, d \in Nat : n <= n /\ n <= n + d
  OBVIOUS

LEMMA LoadBegun ==
  ASSUME NEW p \in DOMAIN RateParts, Settling(p), Copies(p), NEW w \in RateParts[p].workers,
         NEW ip \in RateParts[p].ips, NEW sid \in RateParts[p].sessions \cup {NoValue},
         NEW t \in RateParts[p].tokens \cup {NoValue},
         NEW b \in RateParts[p].buckets, NEW path \in RateParts[p].paths \cup {""},
         Rate(p)!BeginLoad(w, ip, sid, t, b, path)
  PROVE  Copies(p)'
  <1> DEFINE c == RateParts[p]
             new == [worker |-> w, ip |-> ip, session |-> sid, token |-> t, bucket |-> b,
                     path |-> path, values |-> store, at |-> now]
  <1>1. loads' = loads \cup {new} /\ UNCHANGED <<now, store, past, cache>> BY DEF Rate!BeginLoad
  <1>2. now \in Int /\ c.most[1] \in Nat /\ ValuesOK(c, store) BY PartAssumption DEF Settling, RateAssumption
  <1>3. /\ new.worker = w /\ new.ip = ip /\ new.session = sid /\ new.token = t
        /\ new.bucket = b /\ new.path = path /\ new.values = store /\ new.at = now
    OBVIOUS
  <1> HIDE DEF new
  <1>4. LoadOK(c, new)
    <2>1. now <= now /\ now <= now + c.most[1]
      <3>1. now \in Int /\ c.most[1] \in Nat BY <1>2
      <3> QED BY <3>1, NoLater
    <2>2. /\ new.worker \in c.workers /\ new.ip \in c.ips /\ new.session \in c.sessions \cup {NoValue}
          /\ new.token \in c.tokens \cup {NoValue} /\ new.bucket \in c.buckets /\ new.path \in c.paths \cup {""}
      BY <1>3
    <2> QED BY <1>2, <1>3, <2>1, <2>2 DEF LoadOK
  <1>5. \A s \in SettingNames(c) : StoredSince(new.values, s, new.at) BY <1>3 DEF StoredSince
  <1>6. \A r \in loads' : LoadOK(c, r) /\ \A s \in SettingNames(c) : StoredSince(r.values, s, r.at)
    BY <1>1, <1>4, <1>5 DEF Copies
  <1>7. ASSUME NEW r \in loads' PROVE LoadOK(c, r)' /\ \A s \in SettingNames(c) : StoredSince(r.values, s, r.at)'
    <2>1. LoadOK(c, r) /\ \A s \in SettingNames(c) : StoredSince(r.values, s, r.at) BY <1>6
    <2> QED BY <1>1, <2>1 DEF LoadOK, ValuesOK, Overriding, StoredSince
  <1>8. /\ DOMAIN cache' = c.workers
        /\ \A u \in c.workers : CopyOK(c, cache[u])'
        /\ \A u \in c.workers : cache'[u] # NoValue =>
             /\ cache'[u].at <= now'
             /\ \A s \in SettingNames(c) : StoredSince(cache[u].values, s, cache[u].at - c.most[1])'
    BY <1>1 DEF Copies, CopyOK, ValuesOK, Overriding, StoredSince
  <1> QED BY <1>7, <1>8 DEF Copies

\* A worker's copy becomes the values that a read of its own brought.
LEMMA LoadEnded ==
  ASSUME NEW p \in DOMAIN RateParts, Settling(p), Copies(p), NEW r \in loads, Rate(p)!EndLoad(r)
  PROVE  Copies(p)' /\ CopyOK(RateParts[p], cache'[r.worker])
  <1> DEFINE c == RateParts[p]
             new == [values |-> r.values, at |-> now]
  <1>1. /\ loads' = loads \ {r} /\ cache' = [cache EXCEPT ![r.worker] = new]
        /\ UNCHANGED <<now, store, past>>
    BY DEF Rate!EndLoad
  <1>2. LoadOK(c, r) /\ \A s \in SettingNames(c) : StoredSince(r.values, s, r.at) BY DEF Copies
  <1>3. now \in Int /\ c.most[1] \in Nat BY PartAssumption DEF Settling, RateAssumption
  <1>4. r.worker \in c.workers /\ r.at \in Int /\ now <= r.at + c.most[1] /\ ValuesOK(c, r.values) BY <1>2 DEF LoadOK
  <1>5. new.values = r.values /\ new.at = now OBVIOUS
  <1> HIDE DEF new
  <1>6. CopyOK(c, new) BY <1>3, <1>4, <1>5 DEF CopyOK
  <1>7. \A s \in SettingNames(c) : StoredSince(new.values, s, new.at - c.most[1])
    <2> SUFFICES ASSUME NEW s \in SettingNames(c) PROVE StoredSince(new.values, s, new.at - c.most[1]) OBVIOUS
    <2>1. StoredSince(r.values, s, r.at) BY <1>2
    <2>2. \A g \in past : g.until \in Int BY DEF Settling
    <2>3. now - c.most[1] <= r.at BY <1>3, <1>4
    <2>4. \A g \in past : g.until >= r.at => g.until >= now - c.most[1] BY <1>3, <1>4, <2>2, <2>3
    <2> QED BY <1>5, <2>1, <2>4 DEF StoredSince
  <1>8. /\ DOMAIN cache' = c.workers /\ cache'[r.worker] = new
        /\ \A u \in c.workers \ {r.worker} : cache'[u] = cache[u]
    BY <1>1, <1>4 DEF Copies
  <1>9. \A u \in c.workers : /\ CopyOK(c, cache'[u])
                             /\ cache'[u] # NoValue =>
                                  /\ cache'[u].at <= now
                                  /\ \A s \in SettingNames(c) : StoredSince(cache'[u].values, s, cache'[u].at - c.most[1])
    <2> SUFFICES ASSUME NEW u \in c.workers
                 PROVE  /\ CopyOK(c, cache'[u])
                        /\ cache'[u] # NoValue =>
                             /\ cache'[u].at <= now
                             /\ \A s \in SettingNames(c) : StoredSince(cache'[u].values, s, cache'[u].at - c.most[1])
      OBVIOUS
    <2>1. CASE u = r.worker BY <1>3, <1>5, <1>6, <1>7, <1>8, <2>1
    <2>2. CASE u # r.worker BY <1>8, <2>2 DEF Copies
    <2> QED BY <2>1, <2>2
  <1>10. \A u \in c.workers : CopyOK(c, cache[u])' BY <1>9 DEF CopyOK, ValuesOK, Overriding
  <1>11. \A u \in c.workers : cache'[u] # NoValue =>
           /\ cache'[u].at <= now'
           /\ \A s \in SettingNames(c) : StoredSince(cache[u].values, s, cache[u].at - c.most[1])'
    BY <1>1, <1>9 DEF StoredSince
  <1>12. ASSUME NEW x \in loads' PROVE LoadOK(c, x)' /\ \A s \in SettingNames(c) : StoredSince(x.values, s, x.at)'
    <2>1. LoadOK(c, x) /\ \A s \in SettingNames(c) : StoredSince(x.values, s, x.at) BY <1>1 DEF Copies
    <2> QED BY <1>1, <2>1 DEF LoadOK, ValuesOK, Overriding, StoredSince
  <1>13. Copies(p)' BY <1>8, <1>10, <1>11, <1>12 DEF Copies
  <1> QED BY <1>6, <1>8, <1>13

LEMMA Ticked ==
  ASSUME NEW p \in DOMAIN RateParts, RateInv(p), Rate(p)!Tick
  PROVE  RateInv(p)'
  <1> DEFINE c == RateParts[p]
  <1>1. /\ now' = now + 1 /\ \A r \in loads : now < r.at + c.most[1]
        /\ UNCHANGED <<store, saving, cache, loads, noted, window, past, allowed, told>>
    BY DEF Rate!Tick
  <1>2. now \in Int /\ c.window \in Nat /\ c.most[1] \in Nat BY PartAssumption DEF RateInv, Settling, RateAssumption
  <1>3. Settling(p)' BY <1>1, <1>2 DEF RateInv, Settling, ValuesOK, Overriding
  <1>4. Counting(p)' BY <1>1, CountsKept DEF RateInv
  <1>5. Windows(p)'
    <2>1. \A w \in c.workers, k \in Rate(p)!WinKeys :
            WindowOK(window[w][k], allowed[w][k], told[w][k], now + 1, c.window)
      BY <1>2, WindowTicks DEF RateInv, Windows
    <2>2. Rate(p)!WinKeys' = Rate(p)!WinKeys BY RateKeysKept
    <2> QED BY <1>1, <2>1, <2>2 DEF Windows
  <1>6. Copies(p)'
    <2>1. ASSUME NEW r \in loads' PROVE LoadOK(c, r)' /\ \A s \in SettingNames(c) : StoredSince(r.values, s, r.at)'
      <3>1. LoadOK(c, r) /\ \A s \in SettingNames(c) : StoredSince(r.values, s, r.at) BY <1>1 DEF RateInv, Copies
      <3>2. r.at \in Int /\ r.at <= now /\ now < r.at + c.most[1] BY <1>1, <3>1 DEF LoadOK
      <3>3. r.at <= now + 1 /\ now + 1 <= r.at + c.most[1] BY <1>2, <3>2
      <3> QED BY <1>1, <3>1, <3>3 DEF LoadOK, ValuesOK, Overriding, StoredSince
    <2>2. ASSUME NEW w \in c.workers, cache[w] # NoValue
          PROVE  /\ cache'[w].at <= now'
                 /\ \A s \in SettingNames(c) : StoredSince(cache[w].values, s, cache[w].at - c.most[1])'
      <3>1. /\ cache[w].at \in Int /\ cache[w].at <= now
            /\ \A s \in SettingNames(c) : StoredSince(cache[w].values, s, cache[w].at - c.most[1])
        BY <2>2 DEF RateInv, Copies, CopyOK
      <3>2. cache[w].at <= now + 1 BY <1>2, <3>1
      <3> QED BY <1>1, <3>1, <3>2 DEF StoredSince
    <2>3. DOMAIN cache' = c.workers /\ \A w \in c.workers : CopyOK(c, cache[w])'
      BY <1>1 DEF RateInv, Copies, CopyOK, ValuesOK, Overriding
    <2> QED BY <1>1, <2>1, <2>2, <2>3 DEF Copies
  <1> QED BY <1>3, <1>4, <1>5, <1>6 DEF RateInv

LEMMA SaveEnded ==
  ASSUME NEW p \in DOMAIN RateParts, RateInv(p), NEW w \in RateParts[p].workers, Rate(p)!EndSave(w)
  PROVE  Settling(p)' /\ Copies(p)'
  <1> DEFINE c == RateParts[p]
  <1>1. /\ saving' = [saving EXCEPT ![w] = NoValue] /\ cache' = [cache EXCEPT ![w] = NoValue]
        /\ UNCHANGED <<now, store, loads, past>>
    BY DEF Rate!EndSave
  <1>2. Settling(p)' BY <1>1 DEF RateInv, Settling, ValuesOK, Overriding
  <1>3. DOMAIN cache' = c.workers /\ \A u \in c.workers : cache'[u] = NoValue \/ cache'[u] = cache[u]
    BY <1>1 DEF RateInv, Copies
  <1>4. \A u \in c.workers : CopyOK(c, cache[u])'
    <2>1. \A u \in c.workers : CopyOK(c, cache'[u]) BY <1>3 DEF RateInv, Copies, CopyOK
    <2> QED BY <2>1 DEF CopyOK, ValuesOK, Overriding
  <1>5. \A u \in c.workers : cache'[u] # NoValue =>
          /\ cache'[u].at <= now'
          /\ \A s \in SettingNames(c) : StoredSince(cache[u].values, s, cache[u].at - c.most[1])'
    BY <1>1, <1>3 DEF RateInv, Copies, StoredSince
  <1>6. ASSUME NEW x \in loads' PROVE LoadOK(c, x)' /\ \A s \in SettingNames(c) : StoredSince(x.values, s, x.at)'
    <2>1. LoadOK(c, x) /\ \A s \in SettingNames(c) : StoredSince(x.values, s, x.at) BY <1>1 DEF RateInv, Copies
    <2> QED BY <1>1, <2>1 DEF LoadOK, ValuesOK, Overriding, StoredSince
  <1> QED BY <1>2, <1>3, <1>4, <1>5, <1>6 DEF Copies

LEMMA NextRateInv ==
  ASSUME NEW p \in DOMAIN RateParts, RateInv(p), [Rate(p)!Next]_RateVars
  PROVE  RateInv(p)' /\ Rate(p)!RetryKept
  <1> DEFINE c == RateParts[p]
             Goal == RateInv(p)' /\ Rate(p)!RetryKept
  <1>1. Settling(p) /\ Copies(p) /\ Counting(p) /\ Windows(p) BY DEF RateInv
  <1>2. ASSUME NEW w \in c.workers, NEW ip \in c.ips, NEW s \in c.sessions \cup {NoValue},
               NEW t \in c.tokens \cup {NoValue}, NEW b \in c.buckets, NEW path \in c.paths \cup {""}, Rate(p)!Request(w, ip, s, t, b, path)
        PROVE  Goal
    <2>1. Rate(p)!Decide(w, ip, s, t, b, path, cache[w]) /\ UNCHANGED <<now, store, saving, cache, loads, past>>
      BY <1>2 DEF Rate!Request
    <2>2. CopyOK(c, cache[w]) BY <1>1 DEF Copies
    <2>3. Counting(p)' /\ Windows(p)' /\ Rate(p)!RetryKept BY <1>1, <2>1, <2>2, DecidedInv
    <2>4. Settling(p)' /\ Copies(p)' BY <1>1, <2>1, SettlingKept, CopiesKept
    <2> QED BY <2>3, <2>4 DEF RateInv
  <1>3. ASSUME NEW w \in c.workers, NEW ip \in c.ips, NEW s \in c.sessions \cup {NoValue},
               NEW t \in c.tokens \cup {NoValue}, NEW b \in c.buckets, NEW path \in c.paths \cup {""}, Rate(p)!BeginLoad(w, ip, s, t, b, path)
        PROVE  Goal
    <2>1. UNCHANGED <<now, store, saving, cache, noted, window, past, allowed, told>> BY <1>3 DEF Rate!BeginLoad
    <2>2. Copies(p)' BY <1>1, <1>3, LoadBegun
    <2>3. Settling(p)' BY <1>1, <2>1, SettlingKept
    <2>4. Counting(p)' /\ Windows(p)' /\ Rate(p)!RetryKept BY <1>1, <2>1, CountsKept
    <2> QED BY <2>2, <2>3, <2>4 DEF RateInv
  <1>4. ASSUME NEW r \in loads, Rate(p)!EndLoad(r) PROVE Goal
    <2>1. /\ Rate(p)!Decide(r.worker, r.ip, r.session, r.token, r.bucket, r.path, cache'[r.worker])
          /\ UNCHANGED <<now, store, saving, past>>
      BY <1>4 DEF Rate!EndLoad
    <2>2. Copies(p)' /\ CopyOK(c, cache'[r.worker]) BY <1>1, <1>4, LoadEnded
    <2>3. /\ r.worker \in c.workers /\ r.ip \in c.ips /\ r.session \in c.sessions \cup {NoValue}
          /\ r.token \in c.tokens \cup {NoValue} /\ r.bucket \in c.buckets
      BY <1>1 DEF Copies, LoadOK
    <2>4. Counting(p)' /\ Windows(p)' /\ Rate(p)!RetryKept BY <1>1, <2>1, <2>2, <2>3, DecidedInv
    <2>5. Settling(p)' BY <1>1, <2>1, SettlingKept
    <2> QED BY <2>2, <2>4, <2>5 DEF RateInv
  <1>5. ASSUME NEW r \in loads, Rate(p)!LoadFails(r) PROVE Goal
    <2>1. /\ Rate(p)!Decide(r.worker, r.ip, r.session, r.token, r.bucket, r.path, cache[r.worker])
          /\ loads' = loads \ {r} /\ UNCHANGED <<now, store, saving, cache, past>>
      BY <1>5 DEF Rate!LoadFails
    <2>2. /\ r.worker \in c.workers /\ r.ip \in c.ips /\ r.session \in c.sessions \cup {NoValue}
          /\ r.token \in c.tokens \cup {NoValue} /\ r.bucket \in c.buckets
      BY <1>1 DEF Copies, LoadOK
    <2>3. CopyOK(c, cache[r.worker]) BY <1>1, <2>2 DEF Copies
    <2>4. Counting(p)' /\ Windows(p)' /\ Rate(p)!RetryKept BY <1>1, <2>1, <2>2, <2>3, DecidedInv
    <2>5. Settling(p)' /\ Copies(p)'
      <3>1. loads' \subseteq loads BY <2>1
      <3> QED BY <1>1, <2>1, <3>1, SettlingKept, CopiesKept
    <2> QED BY <2>4, <2>5 DEF RateInv
  <1>6. ASSUME NEW w \in c.workers, Rate(p)!BeginSave(w) PROVE Goal
    <2>1. PICK form \in c.forms :
            /\ saving' = [saving EXCEPT ![w] = [form |-> form, left |-> SettingNames(c)]]
            /\ UNCHANGED <<now, store, cache, loads, noted, window, past, allowed, told>>
      BY <1>6 DEF Rate!BeginSave, Rate!Settings, SettingNames
    <2>2. [form |-> form, left |-> SettingNames(c)] \in [form : c.forms, left : SUBSET SettingNames(c)] OBVIOUS
    <2>3. Settling(p)' BY <1>1, <2>1, <2>2 DEF Settling, ValuesOK, Overriding
    <2>4. Copies(p)' BY <1>1, <2>1, CopiesKept
    <2>5. Counting(p)' /\ Windows(p)' /\ Rate(p)!RetryKept BY <1>1, <2>1, CountsKept
    <2> QED BY <2>3, <2>4, <2>5 DEF RateInv
  <1>7. ASSUME NEW w \in c.workers, Rate(p)!SaveKey(w) PROVE Goal
    <2>1. now' = now /\ UNCHANGED <<noted, window, allowed, told>> BY <1>7 DEF Rate!SaveKey
    <2>2. Settling(p)' /\ Copies(p)' BY <1>1, <1>7, KeySaved, SavedCopies
    <2>3. Counting(p)' /\ Windows(p)' /\ Rate(p)!RetryKept BY <1>1, <2>1, CountsKept
    <2> QED BY <2>2, <2>3 DEF RateInv
  <1>8. ASSUME NEW w \in c.workers, Rate(p)!EndSave(w) PROVE Goal
    <2>1. now' = now /\ UNCHANGED <<noted, window, allowed, told>> BY <1>8 DEF Rate!EndSave
    <2>2. Settling(p)' /\ Copies(p)' BY <1>8, SaveEnded
    <2>3. Counting(p)' /\ Windows(p)' /\ Rate(p)!RetryKept BY <1>1, <2>1, CountsKept
    <2> QED BY <2>2, <2>3 DEF RateInv
  <1>9. ASSUME Rate(p)!Tick PROVE Goal
    <2>1. UNCHANGED <<noted, window, allowed, told>> BY <1>9 DEF Rate!Tick
    <2> QED BY <1>1, <1>9, <2>1, Ticked, CountsKept
  <1>10. ASSUME UNCHANGED RateVars PROVE Goal
    <2>1. UNCHANGED <<now, store, saving, cache, loads, noted, window, past, allowed, told>> BY <1>10 DEF RateVars
    <2>2. Settling(p)' /\ Copies(p)' BY <1>1, <2>1, SettlingKept, CopiesKept
    <2>3. Counting(p)' /\ Windows(p)' /\ Rate(p)!RetryKept BY <1>1, <2>1, CountsKept
    <2> QED BY <2>2, <2>3 DEF RateInv
  <1> HIDE DEF Goal
  <1>11. Goal BY <1>2, <1>3, <1>4, <1>5, <1>6, <1>7, <1>8, <1>9, <1>10 DEF Rate!Next
  <1> QED BY <1>11 DEF Goal

LEMMA RateCount == ASSUME NEW p, NEW S PROVE Rate(p)!Cardinality(S) = Cardinality(S)
  BY DEF Rate!Cardinality, Cardinality

LEMMA LimitsKept ==
  ASSUME NEW p \in DOMAIN RateParts, RateInv(p)
  PROVE  Rate(p)!LimitsHold
  <1> DEFINE c == RateParts[p]
             Keys == Rate(p)!WinKeys
  <1>1. now \in Int /\ c.window \in Nat /\ c.most[1] \in Nat /\ c.ttl \in Int
    BY PartAssumption DEF RateInv, Settling, RateAssumption
  <1>2. Rate(p)!BudgetKept
    <2>1. ASSUME NEW w \in c.workers, NEW k \in Keys, NEW i \in DOMAIN allowed[w][k]
          PROVE  LET log == allowed[w][k]
                 IN Cardinality({j \in 1..i : log[j].at >= log[i].at - c.window}) <= log[i].limit
      <3> DEFINE log == allowed[w][k]
      <3>1. LogOK(log, now) /\ Room(log, c.window) BY DEF RateInv, Windows, WindowOK
      <3>2. DOMAIN log = 1..Len(log) BY <3>1, LogElements
      <3> QED BY <1>1, <3>1, <3>2, RoomCounts
    <2> QED BY <2>1, RateCount DEF Rate!BudgetKept
  <1>3. Rate(p)!OwnBudget BY DEF RateInv, Counting, Owners, Rate!OwnBudget
  <1>4. Rate(p)!SettingsReach
    <2> SUFFICES ASSUME NEW w \in c.workers, cache[w] # NoValue, now - cache[w].at < c.ttl, NEW s \in SettingNames(c)
                 PROVE  \/ cache[w].values[s] = store[s]
                        \/ \E g \in past : /\ g.key = s /\ g.value = cache[w].values[s]
                                           /\ now - g.until < c.ttl + c.most[1]
      BY DEF Rate!SettingsReach, Rate!Fresh, Rate!Settings, SettingNames
    <2>1. cache[w].at \in Int /\ StoredSince(cache[w].values, s, cache[w].at - c.most[1])
      BY DEF RateInv, Copies, CopyOK
    <2>2. \A g \in past : g.until \in Int BY DEF RateInv, Settling
    <2>3. ASSUME NEW g \in past, g.until >= cache[w].at - c.most[1] PROVE now - g.until < c.ttl + c.most[1]
      <3>1. g.until \in Int BY <2>2
      <3>2. cache[w].at \in Int BY <2>1
      <3> QED BY <1>1, <2>3, <3>1, <3>2
    <2> QED BY <2>1, <2>3 DEF StoredSince
  <1> QED BY <1>2, <1>3, <1>4 DEF Rate!LimitsHold

LEMMA GateStarts ==
  ASSUME GateInit
  PROVE  \A p \in DOMAIN RateParts : gate = p => Rate(p)!Init
  BY DEF GateInit

LEMMA GateGoes ==
  ASSUME [GateNext]_<<gate, RateVars>>
  PROVE  gate' = gate /\ \A p \in DOMAIN RateParts : gate = p => [Rate(p)!Next]_RateVars
  BY DEF GateNext

\* For any workers, callers, budgets, paths and timings: in no minute is a caller
\* let through more often than the budget in force at the last request, strings
\* that never authenticated share the budget of their address, settings reach every
\* worker within the TTL and the time of a read, and who waits as long as he was
\* told to is refused only if the budget was lowered (rate_limit.py).
THEOREM RequestsAlwaysHold == GateSpec => RequestsHold
  <1> DEFINE Inv == \A p \in DOMAIN RateParts : gate = p => RateInv(p)
             Limited == \A p \in DOMAIN RateParts : gate = p => Rate(p)!LimitsHold
             Told == \A p \in DOMAIN RateParts : gate = p => Rate(p)!RetryKept
  <1>1. GateInit => Inv BY GateStarts, RateStarts
  <1>2. Inv /\ [GateNext]_<<gate, RateVars>> => Inv'
    <2> SUFFICES ASSUME Inv, [GateNext]_<<gate, RateVars>>, NEW p \in DOMAIN RateParts, gate' = p
                 PROVE  RateInv(p)'
      OBVIOUS
    <2>1. gate = p /\ [Rate(p)!Next]_RateVars BY GateGoes
    <2>2. RateInv(p) BY <2>1
    <2> QED BY <2>1, <2>2, NextRateInv
  <1>3. Inv => Limited BY LimitsKept
  <1>4. Inv /\ [GateNext]_<<gate, RateVars>> => [Told]_<<gate, RateVars>>
    <2> SUFFICES ASSUME Inv, [GateNext]_<<gate, RateVars>>, NEW p \in DOMAIN RateParts, gate = p
                 PROVE  Rate(p)!RetryKept
      OBVIOUS
    <2>1. [Rate(p)!Next]_RateVars /\ RateInv(p) BY GateGoes
    <2> QED BY <2>1, NextRateInv
  <1> QED BY <1>1, <1>2, <1>3, <1>4, PTL DEF GateSpec, RequestsHold
=============================================================================
