----------------------------- MODULE AccessProofs -----------------------------
(***************************************************************************)
(* Who is let in, for every value of the constants of Accounts: the tenant  *)
(* boundary that every statement keeps (Tenancy), the end of what was issued *)
(* to a client that is closed (ApiTokens), the accounts that invitations and *)
(* providers make (Provisioning), and what a directory's word comes to        *)
(* (Scim).  A behaviour of Accounts in one of the parts is a behaviour of    *)
(* the part's module; each section finds its inductive invariant.            *)
(***************************************************************************)
EXTENDS Accounts, FiniteSetTheorems, TLAPS

\* What a worker has behind it in its boot: its tables are there, then granted,
\* then protected (or, without RLS, plain), and stay so while others boot.
Prepared(e) ==
    \A w \in Workers :
        /\ boot[w] \in {"role", "policies", "check", "up"} => TablesOf[w] \subseteq Tenants(e)!There
        /\ e /\ boot[w] \in {"policies", "check", "up"} => TablesOf[w] \subseteq grants
        /\ e /\ boot[w] \in {"check", "up"} =>
             \A tb \in TablesOf[w] : table[tb] = "protected"
        /\ boot[w] \in {"role", "check"} => e
        /\ ~e /\ boot[w] = "up" => \A tb \in TablesOf[w] : table[tb] = "plain"

\* Only a worker that is up has tasks.
Serving == \A t \in Handlers : task[t].live => task[t].worker \in Workers /\ boot[task[t].worker] = "up"

\* A task holds connections of its worker's pool, each stamped with its context,
\* and no other task holds one of them.
Stamped(e) ==
    \A t \in Handlers : \A c \in task[t].holds :
        /\ task[t].live /\ WorkerOf[c] = task[t].worker
        /\ conn[c] = Tenants(e)!Stamp(c, t)
        /\ \A u \in Handlers : c \in task[u].holds => u = t

Bounded(e) == Tenants(e)!TypeOK /\ Prepared(e) /\ Serving /\ Stamped(e)

-----------------------------------------------------------------------------
(* The tenant boundary: types *)

LEMMA ContextTyped ==
    ASSUME NEW e, Tenants(e)!TypeOK, NEW t \in Handlers, NEW c \in Conns
   
        PROVE  Tenants(e)!Stamp(c, t) \in [org : Orgs \cup {NoOrg}, bypass : BOOLEAN, role : {"owner", "app"}]
  BY DEF Tenants!TypeOK, Tenants!TaskType, Tenants!Stamp

LEMMA IdleTyped ==
    ASSUME NEW e PROVE Tenants(e)!Idle \in Tenants(e)!TaskType
  <1>1. <<>> \in Seq(Tenants(e)!Contexts)
    OBVIOUS
  <1> QED BY <1>1 DEF Tenants!Idle, Tenants!TaskType

\* The fields of a task, and a task with other fields.
LEMMA Fields ==
    ASSUME NEW e, NEW k \in Tenants(e)!TaskType
    PROVE  /\ k.org \in Orgs \cup {NoOrg} /\ k.bypass \in BOOLEAN
           /\ k.saved \in Seq(Tenants(e)!Contexts) /\ k.holds \subseteq Conns
           /\ \A o \in Orgs \cup {NoOrg}, b \in BOOLEAN, s \in Seq(Tenants(e)!Contexts) :
                [[[k EXCEPT !.org = o] EXCEPT !.bypass = b] EXCEPT !.saved = s] \in Tenants(e)!TaskType
           /\ \A h \in SUBSET Conns, s \in Seq(Tenants(e)!Contexts) :
                [[k EXCEPT !.saved = s] EXCEPT !.holds = h] \in Tenants(e)!TaskType
           /\ \A h \in SUBSET Conns : [k EXCEPT !.holds = h] \in Tenants(e)!TaskType
  BY DEF Tenants!TaskType

LEMMA Retyped ==
    ASSUME NEW e, Tenants(e)!TypeOK, NEW t \in Handlers, NEW new \in Tenants(e)!TaskType, task' = [task EXCEPT ![t] = new],
           UNCHANGED <<table, grants, defaults, boot>>,
           conn' \in [Conns -> [org : Orgs \cup {NoOrg}, bypass : BOOLEAN, role : {"owner", "app"}]]
    PROVE  Tenants(e)!TypeOK'
  BY DEF Tenants!TypeOK

LEMMA BootTypes ==
    ASSUME NEW e, Tenants(e)!TypeOK, NEW w \in Workers, Tenants(e)!Boot(w)
    PROVE  Tenants(e)!TypeOK'
  <1>1. /\ Tenants(e)!Fresh \in [org : Orgs \cup {NoOrg}, bypass : BOOLEAN, role : {"owner", "app"}]
        /\ Tenants(e)!There \subseteq Tenants(e)!Tables /\ TablesOf[w] \subseteq Tenants(e)!Tables
    BY DEF Tenants!Fresh, Tenants!There, Tenants!Tables
  <1>2. CASE Tenants(e)!TakeLock(w)
    BY <1>2 DEF Tenants!TakeLock, Tenants!Phase, Tenants!TypeOK
  <1>3. CASE Tenants(e)!Migrate(w)
    BY <1>1, <1>3 DEF Tenants!Migrate, Tenants!Phase, Tenants!TypeOK
  <1>4. CASE Tenants(e)!EnsureRole(w)
    BY <1>1, <1>4 DEF Tenants!EnsureRole, Tenants!Phase, Tenants!TypeOK
  <1>5. CASE Tenants(e)!ApplyPolicies(w)
    BY <1>5 DEF Tenants!ApplyPolicies, Tenants!Phase, Tenants!TypeOK
  <1>6. CASE Tenants(e)!DropPolicies(w)
    BY <1>6 DEF Tenants!DropPolicies, Tenants!Phase, Tenants!TypeOK
  <1>7. CASE Tenants(e)!AssertEnforcing(w)
    BY <1>7 DEF Tenants!AssertEnforcing, Tenants!Phase, Tenants!TypeOK
  <1>8. CASE Tenants(e)!Crash(w)
    BY <1>1, <1>8, IdleTyped DEF Tenants!Crash, Tenants!TypeOK
  <1> QED BY <1>2, <1>3, <1>4, <1>5, <1>6, <1>7, <1>8 DEF Tenants!Boot

LEMMA TaskTypes ==
    ASSUME NEW e, Tenants(e)!TypeOK, NEW t \in Handlers,
           \/ \E w \in Workers : Tenants(e)!Arrive(t, w) \/ Tenants(e)!RunJob(t, w)
           \/ Tenants(e)!SetTenant(t) \/ Tenants(e)!EnterContext(t) \/ Tenants(e)!LeaveContext(t) \/ Tenants(e)!End(t)
           \/ \E u \in Handlers : Tenants(e)!Spawn(t, u)
           \/ \E c \in Conns : Tenants(e)!Acquire(t, c) \/ Tenants(e)!Release(t, c)
    PROVE  Tenants(e)!TypeOK'
  <1>0. /\ task[t] \in Tenants(e)!TaskType /\ task[t].holds \subseteq Conns
        /\ conn \in [Conns -> [org : Orgs \cup {NoOrg}, bypass : BOOLEAN, role : {"owner", "app"}]]
    BY Fields DEF Tenants!TypeOK
  <1>1. CASE \E w \in Workers : Tenants(e)!Arrive(t, w) \/ Tenants(e)!RunJob(t, w)
    <2>1. PICK w \in Workers : Tenants(e)!Arrive(t, w) \/ Tenants(e)!RunJob(t, w)
      BY <1>1
    <2>2. \A b \in BOOLEAN : [Tenants(e)!Idle EXCEPT !.live = TRUE, !.worker = w, !.bypass = b] \in Tenants(e)!TaskType
      BY IdleTyped DEF Tenants!TaskType
    <2>3. [Tenants(e)!Idle EXCEPT !.live = TRUE, !.worker = w] \in Tenants(e)!TaskType
      BY IdleTyped DEF Tenants!TaskType
    <2> QED BY <1>0, <2>1, <2>2, <2>3, Retyped DEF Tenants!Arrive, Tenants!RunJob, Tenants!Outside
  <1>2. CASE Tenants(e)!SetTenant(t)
    <2>1. PICK o \in Orgs : task' = [task EXCEPT ![t].org = o, ![t].bypass = FALSE]
      BY <1>2 DEF Tenants!SetTenant
    <2> DEFINE new == [task[t] EXCEPT !.org = o, !.bypass = FALSE]
    <2>2. new \in Tenants(e)!TaskType
      BY <1>0 DEF Tenants!TaskType
    <2>3. task' = [task EXCEPT ![t] = new]
      BY <2>1 DEF Tenants!TypeOK
    <2> HIDE DEF new
    <2> QED BY <1>0, <1>2, <2>2, <2>3, Retyped DEF Tenants!SetTenant, Tenants!Outside
  <1>3. CASE Tenants(e)!EnterContext(t)
    <2>1. PICK ctx \in Tenants(e)!Contexts :
            task' = [task EXCEPT ![t].org = ctx.org, ![t].bypass = ctx.bypass,
                       ![t].saved = Append(@, [org |-> task[t].org, bypass |-> task[t].bypass])]
      BY <1>3 DEF Tenants!EnterContext
    <2> DEFINE deeper == Append(task[t].saved, [org |-> task[t].org, bypass |-> task[t].bypass])
               new == [task[t] EXCEPT !.org = ctx.org, !.bypass = ctx.bypass, !.saved = deeper]
    <2>2. deeper \in Seq(Tenants(e)!Contexts)
      <3>1. [org |-> task[t].org, bypass |-> task[t].bypass] \in Tenants(e)!Contexts /\ task[t].saved \in Seq(Tenants(e)!Contexts)
        BY <1>0, Fields DEF Tenants!Contexts
      <3> QED BY <3>1
    <2>3. ctx.org \in Orgs \cup {NoOrg} /\ ctx.bypass \in BOOLEAN
      BY DEF Tenants!Contexts
    <2>4. task' = [task EXCEPT ![t] = new]
      BY <2>1 DEF Tenants!TypeOK
    <2> HIDE DEF deeper
    <2>5. new \in Tenants(e)!TaskType
      BY <1>0, <2>2, <2>3 DEF Tenants!TaskType
    <2> HIDE DEF new
    <2> QED BY <1>0, <1>3, <2>4, <2>5, Retyped DEF Tenants!EnterContext, Tenants!Outside
  <1>4. CASE Tenants(e)!LeaveContext(t)
    <2> DEFINE last == task[t].saved[Len(task[t].saved)]
               rest == SubSeq(task[t].saved, 1, Len(task[t].saved) - 1)
               new == [task[t] EXCEPT !.org = last.org, !.bypass = last.bypass, !.saved = rest]
    <2>1. task[t].saved \in Seq(Tenants(e)!Contexts) /\ task[t].saved # <<>>
      BY <1>0, <1>4, Fields DEF Tenants!LeaveContext
    <2>2. last \in Tenants(e)!Contexts /\ rest \in Seq(Tenants(e)!Contexts)
      BY <2>1
    <2>3. last.org \in Orgs \cup {NoOrg} /\ last.bypass \in BOOLEAN
      BY <2>2 DEF Tenants!Contexts
    <2>4. task' = [task EXCEPT ![t] = new]
      BY <1>4 DEF Tenants!LeaveContext, Tenants!TypeOK
    <2> HIDE DEF last, rest
    <2>5. new \in Tenants(e)!TaskType
      BY <1>0, <2>2, <2>3 DEF Tenants!TaskType
    <2> HIDE DEF new
    <2> QED BY <1>0, <1>4, <2>4, <2>5, Retyped DEF Tenants!LeaveContext, Tenants!Outside
  <1>5. CASE Tenants(e)!End(t)
    BY <1>0, <1>5, IdleTyped, Retyped DEF Tenants!End, Tenants!Outside
  <1>6. CASE \E u \in Handlers : Tenants(e)!Spawn(t, u)
    <2>1. PICK u \in Handlers : Tenants(e)!Spawn(t, u)
      BY <1>6
    <2> DEFINE new == [task[t] EXCEPT !.saved = <<>>, !.holds = {}]
    <2>2. <<>> \in Seq(Tenants(e)!Contexts)
      OBVIOUS
    <2>3. new \in Tenants(e)!TaskType
      BY <1>0, <2>2 DEF Tenants!TaskType
    <2>4. task' = [task EXCEPT ![u] = new]
      BY <2>1 DEF Tenants!Spawn
    <2> HIDE DEF new
    <2> QED BY <1>0, <2>1, <2>3, <2>4, Retyped DEF Tenants!Spawn, Tenants!Outside
  <1>7. CASE \E c \in Conns : Tenants(e)!Acquire(t, c) \/ Tenants(e)!Release(t, c)
    <2>1. PICK c \in Conns : Tenants(e)!Acquire(t, c) \/ Tenants(e)!Release(t, c)
      BY <1>7
    <2>2. PICK h \in SUBSET Conns : task' = [task EXCEPT ![t].holds = h]
      BY <1>0, <2>1 DEF Tenants!Acquire, Tenants!Release
    <2> DEFINE new == [task[t] EXCEPT !.holds = h]
    <2>3. new \in Tenants(e)!TaskType
      BY <1>0 DEF Tenants!TaskType
    <2>4. task' = [task EXCEPT ![t] = new]
      BY <2>2 DEF Tenants!TypeOK
    <2>5. conn' \in [Conns -> [org : Orgs \cup {NoOrg}, bypass : BOOLEAN, role : {"owner", "app"}]]
      BY <1>0, <2>1, ContextTyped DEF Tenants!Acquire, Tenants!Release
    <2>6. UNCHANGED <<table, grants, defaults, boot>>
      BY <2>1 DEF Tenants!Acquire, Tenants!Release
    <2> HIDE DEF new
    <2> QED BY <2>3, <2>4, <2>5, <2>6, Retyped
  <1> QED BY <1>1, <1>2, <1>3, <1>4, <1>5, <1>6, <1>7

-----------------------------------------------------------------------------
(* A boot takes nothing from the workers that serve. *)

LEMMA BootKeepsPrepared ==
    ASSUME NEW e, Bounded(e), NEW w \in Workers, Tenants(e)!Boot(w)
    PROVE  Prepared(e)'
  <1> USE DEF Bounded
  <1>1. \A v \in Workers : TablesOf[v] \subseteq Tenants(e)!Tables
    BY DEF Tenants!Tables
  <1>2. CASE Tenants(e)!TakeLock(w)
    BY <1>2 DEF Tenants!TakeLock, Tenants!Phase, Tenants!TypeOK, Prepared, Tenants!There
  <1>3. CASE Tenants(e)!Migrate(w)
    <2>1. Tenants(e)!There' = Tenants(e)!There \cup TablesOf[w]
      BY <1>1, <1>3 DEF Tenants!Migrate, Tenants!There, Tenants!TypeOK
    <2>2. \A tb \in Tenants(e)!There : table'[tb] = table[tb]
      BY <1>3 DEF Tenants!Migrate, Tenants!There
    <2>3. grants \subseteq grants'
      BY <1>3 DEF Tenants!Migrate
    <2> QED BY <1>3, <2>1, <2>2, <2>3 DEF Tenants!Migrate, Tenants!Phase, Tenants!TypeOK, Prepared
  <1>4. CASE Tenants(e)!EnsureRole(w)
    <2>1. Tenants(e)!There' = Tenants(e)!There
      BY <1>4 DEF Tenants!EnsureRole, Tenants!There
    <2> QED BY <1>4, <2>1 DEF Tenants!EnsureRole, Tenants!Phase, Tenants!TypeOK, Prepared
  <1>5. CASE Tenants(e)!ApplyPolicies(w)
    <2>1. Tenants(e)!There' = Tenants(e)!There /\ \A tb \in Tenants(e)!There : table'[tb] = "protected"
      BY <1>5 DEF Tenants!ApplyPolicies, Tenants!There
    <2> QED BY <1>5, <2>1 DEF Tenants!ApplyPolicies, Tenants!Phase, Tenants!TypeOK, Prepared
  <1>6. CASE Tenants(e)!DropPolicies(w)
    <2>1. Tenants(e)!There' = Tenants(e)!There /\ \A tb \in Tenants(e)!There : table'[tb] = "plain"
      BY <1>6 DEF Tenants!DropPolicies, Tenants!There
    <2> QED BY <1>6, <2>1 DEF Tenants!DropPolicies, Tenants!Phase, Tenants!TypeOK, Prepared
  <1>7. CASE Tenants(e)!AssertEnforcing(w)
    <2>1. Tenants(e)!There' = Tenants(e)!There
      BY <1>7 DEF Tenants!AssertEnforcing, Tenants!There
    <2>2. boot[w] = "check" /\ boot' \in {[boot EXCEPT ![w] = "up"], [boot EXCEPT ![w] = "down"]}
      BY <1>7 DEF Tenants!AssertEnforcing, Tenants!Phase
    <2> QED BY <1>7, <2>1, <2>2 DEF Tenants!AssertEnforcing, Tenants!TypeOK, Prepared
  <1>8. CASE Tenants(e)!Crash(w)
    BY <1>8 DEF Tenants!Crash, Tenants!TypeOK, Prepared, Tenants!There
  <1> QED BY <1>2, <1>3, <1>4, <1>5, <1>6, <1>7, <1>8 DEF Tenants!Boot

LEMMA BootKeepsServing ==
    ASSUME NEW e, Bounded(e), NEW w \in Workers, Tenants(e)!Boot(w)
    PROVE  Serving' /\ Stamped(e)'
  <1> USE DEF Bounded
  <1>1. CASE Tenants(e)!Crash(w)
    <2>1. \A t \in Handlers : task'[t] = IF task[t].worker = w THEN Tenants(e)!Idle ELSE task[t]
      BY <1>1 DEF Tenants!Crash
    <2>2. \A c \in Conns : conn'[c] = IF WorkerOf[c] = w THEN Tenants(e)!Fresh ELSE conn[c]
      BY <1>1 DEF Tenants!Crash
    <2>3. Serving'
      BY <1>1, <2>1 DEF Tenants!Crash, Serving, Tenants!TypeOK, Tenants!Idle
    <2>4. ASSUME NEW t \in Handlers, NEW c \in task'[t].holds
          PROVE  /\ task'[t].live /\ WorkerOf[c] = task'[t].worker
                 /\ conn'[c] = Tenants(e)!Stamp(c, t)'
                 /\ \A u \in Handlers : c \in task'[u].holds => u = t
      <3>1. task[t].worker # w /\ task'[t] = task[t] /\ c \in task[t].holds /\ c \in Conns
        <4>1. task[t].worker # w
          BY <2>1, <2>4 DEF Tenants!Idle
        <4>2. task[t] \in Tenants(e)!TaskType /\ task'[t] = task[t]
          BY <2>1, <4>1 DEF Tenants!TypeOK
        <4> QED BY <2>4, <4>1, <4>2, Fields
      <3>2. task[t].live /\ WorkerOf[c] = task[t].worker /\ conn[c] = Tenants(e)!Stamp(c, t)
        BY <3>1 DEF Stamped
      <3>3. conn'[c] = Tenants(e)!Stamp(c, t)'
        BY <2>2, <3>1, <3>2 DEF Tenants!Stamp
      <3>4. \A u \in Handlers : c \in task'[u].holds => u = t
        BY <2>1, <3>1 DEF Tenants!Idle, Stamped
      <3> QED BY <3>1, <3>2, <3>3, <3>4
    <2> QED BY <2>3, <2>4 DEF Stamped
  <1>2. CASE ~Tenants(e)!Crash(w)
    <2>1. UNCHANGED <<conn, task>>
      BY <1>2
         DEF Tenants!Boot, Tenants!TakeLock, Tenants!Migrate, Tenants!EnsureRole,
             Tenants!ApplyPolicies, Tenants!DropPolicies, Tenants!AssertEnforcing
    <2>2. \A v \in Workers : boot[v] = "up" => boot'[v] = "up"
      BY <1>2
         DEF Tenants!Boot, Tenants!TakeLock, Tenants!Migrate, Tenants!EnsureRole,
             Tenants!ApplyPolicies, Tenants!DropPolicies, Tenants!AssertEnforcing,
                  Tenants!Phase, Tenants!TypeOK
    <2>3. Serving'
      BY <2>1, <2>2 DEF Serving
    <2>4. Stamped(e)'
      BY <2>1 DEF Stamped, Tenants!Stamp
    <2> QED BY <2>3, <2>4
  <1> QED BY <1>1, <1>2

-----------------------------------------------------------------------------
(* What tasks do *)

LEMMA TasksKeepPrepared ==
    ASSUME NEW e, Bounded(e), UNCHANGED <<table, grants, defaults, boot>>
    PROVE  Prepared(e)'
  BY DEF Bounded, Prepared, Tenants!There

\* A task that holds nothing may change its context; nobody else is concerned.
LEMMA ContextChange ==
    ASSUME NEW e, Bounded(e), NEW t \in Handlers, task[t].holds = {}, Tenants(e)!Outside,
           NEW new, new.holds = {}, task' = [task EXCEPT ![t] = new],
           new.live => new.worker \in Workers /\ boot[new.worker] = "up"
    PROVE  Serving' /\ Stamped(e)'
  <1> USE DEF Bounded
  <1>1. \A u \in Handlers : task'[u] = IF u = t THEN new ELSE task[u]
    BY DEF Tenants!TypeOK
  <1>2. Serving'
    BY <1>1 DEF Tenants!Outside, Serving
  <1>3. ASSUME NEW u \in Handlers, NEW c \in task'[u].holds
        PROVE  /\ task'[u].live /\ WorkerOf[c] = task'[u].worker
               /\ conn'[c] = Tenants(e)!Stamp(c, u)'
               /\ \A v \in Handlers : c \in task'[v].holds => v = u
    <2>1. u # t /\ task'[u] = task[u] /\ c \in task[u].holds
      BY <1>1, <1>3
    <2>2. \A v \in Handlers : c \in task'[v].holds => c \in task[v].holds
      BY <1>1
    <2> QED BY <2>1, <2>2 DEF Tenants!Outside, Stamped, Tenants!Stamp
  <1> QED BY <1>2, <1>3 DEF Stamped

LEMMA TasksKeepServing ==
    ASSUME NEW e, Bounded(e), NEW t \in Handlers,
           \/ \E w \in Workers : Tenants(e)!Arrive(t, w) \/ Tenants(e)!RunJob(t, w)
           \/ Tenants(e)!SetTenant(t) \/ Tenants(e)!EnterContext(t) \/ Tenants(e)!LeaveContext(t) \/ Tenants(e)!End(t)
           \/ \E u \in Handlers : Tenants(e)!Spawn(t, u)
    PROVE  Serving' /\ Stamped(e)'
  <1> USE DEF Bounded
  <1>0. \A u \in Handlers : ~task[u].live => task[u].holds = {}
    BY DEF Stamped
  <1>1. CASE \E w \in Workers : Tenants(e)!Arrive(t, w)
    <2>1. PICK w \in Workers : Tenants(e)!Arrive(t, w)
      BY <1>1
    <2> DEFINE new == [Tenants(e)!Idle EXCEPT !.live = TRUE, !.worker = w]
    <2>2. new.holds = {} /\ new.worker = w
      BY DEF Tenants!Idle
    <2>3. task' = [task EXCEPT ![t] = new] /\ task[t].holds = {} /\ boot[w] = "up" /\ Tenants(e)!Outside
      BY <1>0, <2>1 DEF Tenants!Arrive
    <2> HIDE DEF new
    <2> QED BY <2>2, <2>3, ContextChange
  <1>2. CASE \E w \in Workers : Tenants(e)!RunJob(t, w)
    <2>1. PICK w \in Workers : Tenants(e)!RunJob(t, w)
      BY <1>2
    <2> DEFINE new == [Tenants(e)!Idle EXCEPT !.live = TRUE, !.worker = w, !.bypass = TRUE]
    <2>2. new.holds = {} /\ new.worker = w
      BY DEF Tenants!Idle
    <2>3. task' = [task EXCEPT ![t] = new] /\ task[t].holds = {} /\ boot[w] = "up" /\ Tenants(e)!Outside
      BY <1>0, <2>1 DEF Tenants!RunJob
    <2> HIDE DEF new
    <2> QED BY <2>2, <2>3, ContextChange
  <1>3. CASE Tenants(e)!SetTenant(t) \/ Tenants(e)!EnterContext(t) \/ Tenants(e)!LeaveContext(t)
    <2>1. /\ \E o, b, s : task' = [task EXCEPT ![t].org = o, ![t].bypass = b, ![t].saved = s]
          /\ task[t].holds = {} /\ Tenants(e)!Outside
      <3>1. CASE Tenants(e)!SetTenant(t)
        <4>1. PICK o \in Orgs : task' = [task EXCEPT ![t].org = o, ![t].bypass = FALSE]
          BY <3>1 DEF Tenants!SetTenant
        <4>2. task' = [task EXCEPT ![t].org = o, ![t].bypass = FALSE, ![t].saved = task[t].saved]
          BY <4>1 DEF Tenants!TypeOK, Tenants!TaskType
        <4> QED BY <3>1, <4>2 DEF Tenants!SetTenant
      <3>2. CASE Tenants(e)!EnterContext(t)
        <4>1. PICK ctx \in Tenants(e)!Contexts :
                task' = [task EXCEPT ![t].org = ctx.org, ![t].bypass = ctx.bypass,
                           ![t].saved = Append(@, [org |-> task[t].org, bypass |-> task[t].bypass])]
          BY <3>2 DEF Tenants!EnterContext
        <4>2. task' = [task EXCEPT ![t].org = ctx.org, ![t].bypass = ctx.bypass,
                  ![t].saved = Append(task[t].saved, [org |-> task[t].org, bypass |-> task[t].bypass])]
          BY <4>1 DEF Tenants!TypeOK, Tenants!TaskType
        <4> QED BY <3>2, <4>2 DEF Tenants!EnterContext
      <3>3. CASE Tenants(e)!LeaveContext(t)
        <4> DEFINE last == task[t].saved[Len(task[t].saved)]
                   rest == SubSeq(task[t].saved, 1, Len(task[t].saved) - 1)
        <4>1. task' = [task EXCEPT ![t].org = last.org, ![t].bypass = last.bypass, ![t].saved = rest]
          BY <3>3 DEF Tenants!LeaveContext, Tenants!TypeOK, Tenants!TaskType
        <4>2. task[t].holds = {} /\ Tenants(e)!Outside
          BY <3>3 DEF Tenants!LeaveContext
        <4> HIDE DEF last, rest
        <4>3. \E o, b, s : task' = [task EXCEPT ![t].org = o, ![t].bypass = b, ![t].saved = s]
          BY <4>1
        <4> QED BY <4>2, <4>3
      <3> QED BY <1>3, <3>1, <3>2, <3>3
    <2>2. /\ task'[t].holds = {} /\ task'[t].live = task[t].live /\ task'[t].worker = task[t].worker
          /\ task[t].holds = {} /\ Tenants(e)!Outside
      BY <2>1 DEF Tenants!TypeOK, Tenants!TaskType
    <2>3. task' = [task EXCEPT ![t] = task'[t]]
      BY <2>1 DEF Tenants!TypeOK, Tenants!TaskType
    <2>4. task[t].live => task[t].worker \in Workers /\ boot[task[t].worker] = "up"
      BY DEF Serving
    <2> DEFINE new == task'[t]
    <2>5. /\ new.holds = {} /\ task' = [task EXCEPT ![t] = new]
          /\ new.live => new.worker \in Workers /\ boot[new.worker] = "up"
      BY <2>2, <2>3, <2>4
    <2> HIDE DEF new
    <2> QED BY <2>2, <2>5, ContextChange
  <1>4. CASE Tenants(e)!End(t)
    <2>1. Tenants(e)!Idle.holds = {} /\ ~Tenants(e)!Idle.live
      BY DEF Tenants!Idle
    <2> QED BY <1>4, <2>1, ContextChange DEF Tenants!End
  <1>5. CASE \E u \in Handlers : Tenants(e)!Spawn(t, u)
    <2>1. PICK u \in Handlers : Tenants(e)!Spawn(t, u)
      BY <1>5
    <2> DEFINE new == [task[t] EXCEPT !.saved = <<>>, !.holds = {}]
    <2>2. new.holds = {} /\ new.worker = task[t].worker
      BY DEF Tenants!TypeOK, Tenants!TaskType
    <2>3. task' = [task EXCEPT ![u] = new] /\ task[u].holds = {} /\ Tenants(e)!Outside
      BY <1>0, <2>1 DEF Tenants!Spawn
    <2>4. task[t].worker \in Workers /\ boot[task[t].worker] = "up"
      BY <2>1 DEF Tenants!Spawn, Serving
    <2> HIDE DEF new
    <2> QED BY <2>2, <2>3, <2>4, ContextChange
  <1> QED BY <1>1, <1>2, <1>3, <1>4, <1>5

\* An acquire stamps a connection that nobody holds; a release leaves the others.
LEMMA ConnectionsKeepServing ==
    ASSUME NEW e, Bounded(e), NEW t \in Handlers, NEW c \in Conns, Tenants(e)!Acquire(t, c) \/ Tenants(e)!Release(t, c)
    PROVE  Serving' /\ Stamped(e)'
  <1> USE DEF Bounded
  <1>1. /\ \A u \in Handlers : u # t => task'[u] = task[u]
        /\ task'[t].live = task[t].live /\ task'[t].worker = task[t].worker
        /\ task'[t].org = task[t].org /\ task'[t].bypass = task[t].bypass
        /\ \A d \in Conns : d # c => conn'[d] = conn[d]
        /\ boot' = boot
    BY DEF Tenants!Acquire, Tenants!Release, Tenants!TypeOK, Tenants!TaskType
  <1>2. Serving'
    BY <1>1 DEF Serving
  <1>3. \A u \in Handlers, d \in Conns : Tenants(e)!Stamp(d, u)' = Tenants(e)!Stamp(d, u)
    BY <1>1 DEF Tenants!Stamp
  <1>4. \A u \in Handlers : task[u].holds \subseteq Conns
    BY Fields DEF Tenants!TypeOK
  <1>5. CASE Tenants(e)!Acquire(t, c)
    <2>1. /\ task'[t].holds = task[t].holds \cup {c} /\ conn'[c] = Tenants(e)!Stamp(c, t)
          /\ task[t].live /\ WorkerOf[c] = task[t].worker
          /\ \A u \in Handlers : c \notin task[u].holds
      BY <1>5 DEF Tenants!Acquire, Tenants!TypeOK, Tenants!TaskType
    <2>2. ASSUME NEW u \in Handlers, NEW d \in task'[u].holds
          PROVE  /\ task'[u].live /\ WorkerOf[d] = task'[u].worker
                 /\ conn'[d] = Tenants(e)!Stamp(d, u)'
                 /\ \A v \in Handlers : d \in task'[v].holds => v = u
      <3>1. CASE d = c
        <4>1. u = t
          BY <1>1, <2>1, <2>2, <3>1
        <4>2. conn'[c] = Tenants(e)!Stamp(c, t)'
          BY <1>3, <2>1
        <4>3. \A v \in Handlers : c \in task'[v].holds => v = t
          BY <1>1, <2>1
        <4> QED BY <1>1, <2>1, <3>1, <4>1, <4>2, <4>3
      <3>2. CASE d # c
        <4>1. d \in task[u].holds /\ d \in Conns
          BY <1>1, <1>4, <2>1, <2>2, <3>2
        <4>2. \A v \in Handlers : d \in task'[v].holds => d \in task[v].holds
          BY <1>1, <2>1, <3>2
        <4>3. /\ task[u].live /\ WorkerOf[d] = task[u].worker /\ conn[d] = Tenants(e)!Stamp(d, u)
              /\ \A v \in Handlers : d \in task[v].holds => v = u
          BY <4>1 DEF Stamped
        <4> QED BY <1>1, <1>3, <3>2, <4>1, <4>2, <4>3
      <3> QED BY <3>1, <3>2
    <2> QED BY <1>2, <2>2 DEF Stamped
  <1>6. CASE Tenants(e)!Release(t, c)
    <2>1. task'[t].holds = task[t].holds \ {c} /\ c \in task[t].holds
      BY <1>6 DEF Tenants!Release, Tenants!TypeOK, Tenants!TaskType
    <2>2. \A u \in Handlers : c \notin task'[u].holds
      BY <1>1, <2>1 DEF Stamped
    <2>3. ASSUME NEW u \in Handlers, NEW d \in task'[u].holds
          PROVE  /\ task'[u].live /\ WorkerOf[d] = task'[u].worker
                 /\ conn'[d] = Tenants(e)!Stamp(d, u)'
                 /\ \A v \in Handlers : d \in task'[v].holds => v = u
      <3>1. d # c /\ d \in task[u].holds /\ d \in Conns
        BY <1>1, <1>4, <2>1, <2>2, <2>3
      <3>2. \A v \in Handlers : d \in task'[v].holds => d \in task[v].holds
        BY <1>1, <2>1
      <3>3. /\ task[u].live /\ WorkerOf[d] = task[u].worker /\ conn[d] = Tenants(e)!Stamp(d, u)
            /\ \A v \in Handlers : d \in task[v].holds => v = u
        BY <3>1 DEF Stamped
      <3> QED BY <1>1, <1>3, <3>1, <3>2, <3>3
    <2> QED BY <1>2, <2>3 DEF Stamped
  <1> QED BY <1>2, <1>5, <1>6

-----------------------------------------------------------------------------
(* The invariant, and what it gives *)

LEMMA InitBounded == ASSUME NEW e, Tenants(e)!Init PROVE Bounded(e)
  <1>1. Tenants(e)!TypeOK
    <2>1. \A w \in Workers : TablesOf[w] \subseteq Tenants(e)!Tables
      BY DEF Tenants!Tables
    <2>2. Tenants(e)!Fresh \in [org : Orgs \cup {NoOrg}, bypass : BOOLEAN, role : {"owner", "app"}]
      BY DEF Tenants!Fresh
    <2>3. /\ table \in [Tenants(e)!Tables -> {"absent", "plain", "protected", "closed"}]
          /\ grants \subseteq Tenants(e)!Tables /\ defaults \in BOOLEAN
      BY <2>1 DEF Tenants!Init
    <2>4. /\ boot \in [Workers -> {"down", "schema", "role", "policies", "check", "up"}]
          /\ conn \in [Conns -> [org : Orgs \cup {NoOrg}, bypass : BOOLEAN, role : {"owner", "app"}]]
          /\ task \in [Handlers -> Tenants(e)!TaskType]
      BY <2>2, IdleTyped DEF Tenants!Init
    <2> QED BY <2>3, <2>4 DEF Tenants!TypeOK
  <1>2. Prepared(e) /\ Serving /\ Stamped(e)
    BY DEF Tenants!Init, Prepared, Serving, Stamped, Tenants!Idle
  <1> QED BY <1>1, <1>2 DEF Bounded

LEMMA StepBounded == ASSUME NEW e, Bounded(e), [Tenants(e)!Next]_(Tenants(e)!vars) PROVE Bounded(e)'
  <1>1. CASE \E w \in Workers : Tenants(e)!Boot(w)
    BY <1>1, BootTypes, BootKeepsPrepared, BootKeepsServing DEF Bounded
  <1>2. CASE \E t \in Handlers : \E c \in Conns : Tenants(e)!Acquire(t, c) \/ Tenants(e)!Release(t, c)
    <2>1. PICK t \in Handlers, c \in Conns : Tenants(e)!Acquire(t, c) \/ Tenants(e)!Release(t, c)
      BY <1>2
    <2>2. UNCHANGED <<table, grants, defaults, boot>>
      BY <2>1 DEF Tenants!Acquire, Tenants!Release
    <2>3. Tenants(e)!TypeOK'
      BY <2>1, TaskTypes DEF Bounded
    <2>4. Prepared(e)' /\ Serving' /\ Stamped(e)'
      BY <2>1, <2>2, TasksKeepPrepared, ConnectionsKeepServing
    <2> QED BY <2>3, <2>4 DEF Bounded
  <1>3. CASE \E t \in Handlers :
               \/ \E w \in Workers : Tenants(e)!Arrive(t, w) \/ Tenants(e)!RunJob(t, w)
               \/ Tenants(e)!SetTenant(t) \/ Tenants(e)!EnterContext(t) \/ Tenants(e)!LeaveContext(t) \/ Tenants(e)!End(t)
               \/ \E u \in Handlers : Tenants(e)!Spawn(t, u)
    <2>1. PICK t \in Handlers :
               \/ \E w \in Workers : Tenants(e)!Arrive(t, w) \/ Tenants(e)!RunJob(t, w)
               \/ Tenants(e)!SetTenant(t) \/ Tenants(e)!EnterContext(t) \/ Tenants(e)!LeaveContext(t) \/ Tenants(e)!End(t)
               \/ \E u \in Handlers : Tenants(e)!Spawn(t, u)
      BY <1>3
    <2>2. UNCHANGED <<table, grants, defaults, boot>>
      BY <2>1
         DEF Tenants!Arrive, Tenants!RunJob, Tenants!SetTenant, Tenants!EnterContext,
             Tenants!LeaveContext, Tenants!End, Tenants!Spawn, Tenants!Outside
    <2>3. Tenants(e)!TypeOK'
      BY <2>1, TaskTypes DEF Bounded
    <2>4. Prepared(e)' /\ Serving' /\ Stamped(e)'
      BY <2>1, <2>2, TasksKeepPrepared, TasksKeepServing
    <2> QED BY <2>3, <2>4 DEF Bounded
  <1>4. CASE UNCHANGED Tenants(e)!vars
    BY <1>4
       DEF Tenants!vars, Bounded, Tenants!TypeOK, Prepared, Tenants!There, Serving, Stamped,
           Tenants!Stamp
  <1> QED BY <1>1, <1>2, <1>3, <1>4 DEF Tenants!Next

\* What an enforced or a privileged statement of a stamped connection sees.
LEMMA BoundedGives ==
    ASSUME NEW e, Bounded(e)
    PROVE  Tenants(e)!TypeOK /\ Tenants(e)!Isolated /\ Tenants(e)!SeesItsOwn
  <1> USE DEF Bounded
  <1>1. ASSUME NEW t \in Handlers, NEW c \in task[t].holds, NEW tb \in TablesOf[task[t].worker]
        PROVE  /\ e /\ ~task[t].bypass => Tenants(e)!Visible(c, tb) \subseteq {task[t].org}
               /\ (IF task[t].bypass \/ ~e THEN Orgs ELSE Orgs \cap {task[t].org})
                     \subseteq Tenants(e)!Visible(c, tb)
    <2>2. /\ task[t].live /\ conn[c] = Tenants(e)!Stamp(c, t)
          /\ task[t].worker \in Workers /\ boot[task[t].worker] = "up"
      BY <1>1 DEF Stamped, Serving
    <2>3. /\ conn[c].org = task[t].org /\ conn[c].bypass = task[t].bypass
          /\ conn[c].role = IF task[t].bypass \/ ~e THEN "owner" ELSE "app"
      BY <2>2 DEF Tenants!Stamp
    <2>4. IF e THEN table[tb] = "protected" /\ tb \in grants ELSE table[tb] = "plain"
      BY <1>1, <2>2 DEF Prepared
    <2> QED BY <2>3, <2>4 DEF Tenants!Visible
  <1> QED BY <1>1 DEF Tenants!Isolated, Tenants!SeesItsOwn

\* The tenant boundary, for every set of workers, builds, connections, tasks and
\* organizations: isolation, and every row a statement should see (tenancy.py).
THEOREM TenantBoundary ==
    ASSUME NEW e \in BOOLEAN
    PROVE  Tenants(e)!Spec => []Tenants(e)!TenantsHold
  <1>1. Tenants(e)!Init => Bounded(e)
    BY InitBounded
  <1>2. Bounded(e) /\ [Tenants(e)!Next]_(Tenants(e)!vars) => Bounded(e)'
    BY StepBounded
  <1>3. Bounded(e) => Tenants(e)!TenantsHold
    BY BoundedGives DEF Tenants!TenantsHold
  <1> QED BY <1>1, <1>2, <1>3, PTL DEF Tenants!Spec

-----------------------------------------------------------------------------
(* What a client's secret was exchanged for dies soon after the client does,  *)
(* whatever the numbers of requests, tokens, clients and administrators, and   *)
(* although a grant reads the client several statements before it inserts.     *)
(* The bound comes from the request: one that saw the client enabled began     *)
(* before the client was closed, and asks for its expiry within ReqTime.       *)

\* The time counts; what stands for nothing is no number and no client.
ClientsOK ==
    /\ ReqTime \in Nat /\ MaxTime \in Nat
    /\ Ttl \in [Clients -> Nat]
    /\ None \notin Int /\ None \notin Clients /\ Never \notin Int

ClientRecord == [enabled : BOOLEAN, by : Owners \cup {None}]
Pcs == {"idle", "owner", "cap", "mint", "enable", "disable"}

\* The client a token or a request is for; the rest of a token needs no type here.
Typed ==
    /\ time \in Nat
    /\ client \in [Clients -> ClientRecord \cup {None}]
    /\ closed \in [Clients -> Nat \cup {None}]
    /\ \A h \in Handlers :
         /\ call[h].pc \in Pcs
         /\ call[h].client \in Clients \cup {None}
         /\ call[h].pc = "cap" => call[h].client = None
         /\ call[h].pc \in {"owner", "enable", "disable"} => call[h].client \in Clients
    /\ DOMAIN call = Handlers /\ DOMAIN token = Pair

\* A request that runs has not outlasted its time.
InTime ==
    \A h \in Handlers : call[h].pc # "idle" =>
        call[h].at \in Nat /\ call[h].at <= time /\ time <= call[h].at + ReqTime

\* A client that is enabled is not on record as closed.
Recorded == \A c \in Clients : client[c] # None /\ client[c].enabled => closed[c] = None

\* A grant under way began before its client was closed.
Begun ==
    \A h \in Handlers, c \in Clients :
        call[h].pc \in {"owner", "mint"} /\ call[h].client = c /\ closed[c] # None =>
            call[h].at <= closed[c]

\* A grant that is about to insert asks for no more than its time and the client's.
Asked ==
    \A h \in Handlers, c \in Clients :
        call[h].pc = "mint" /\ call[h].client = c =>
            call[h].expires \in Int /\ call[h].expires <= call[h].at + ReqTime + Ttl[c]

\* A token of a client ends in time, counted from now and from its closing.
Ends ==
    \A t \in Pair, c \in Clients :
        token[t] # None /\ token[t].client = c =>
            /\ token[t].expires \in Int
            /\ token[t].expires <= time + ReqTime + Ttl[c]
            /\ closed[c] # None => token[t].expires <= closed[c] + ReqTime + Ttl[c]

ClientInv == Typed /\ InTime /\ Recorded /\ Begun /\ Asked /\ Ends

-----------------------------------------------------------------------------
LEMMA ClientInit == ClientsOK /\ Bearers!Init => ClientInv
  <1> SUFFICES ASSUME ClientsOK, Bearers!Init PROVE ClientInv
    OBVIOUS
  <1>1. \A c \in Clients : client[c] \in ClientRecord /\ closed[c] = None
    BY DEF Bearers!Init, ClientRecord
  <1>2. client \in [Clients -> ClientRecord \cup {None}]
    BY <1>1 DEF Bearers!Init
  <1>3. Typed
    BY <1>2 DEF ClientsOK, Bearers!Init, Typed, Bearers!Idle, Pcs
  <1>4. Recorded /\ Ends
    BY <1>1 DEF Bearers!Init, Recorded, Ends
  <1>5. InTime /\ Begun /\ Asked
    BY DEF Bearers!Init, InTime, Begun, Asked, Bearers!Idle
  <1> QED BY <1>3, <1>4, <1>5 DEF ClientInv

\* The grant.
LEMMA GrantKeepsClientInv ==
    ASSUME ClientsOK, ClientInv, NEW h \in Handlers,
           Bearers!IssueRead(h) \/ Bearers!IssueOwner(h) \/ Bearers!Mint(h)
    PROVE  ClientInv'
  <1> USE DEF ClientsOK, ClientInv
  <1>1. CASE Bearers!IssueRead(h)
    <2>1. PICK c \in Clients :
            /\ client[c] # None /\ client[c].enabled
            /\ call' = [call EXCEPT ![h] = [pc |-> "owner", user |-> client[c].by, client |-> c,
                                          expires |-> 0, at |-> time]]
      BY <1>1 DEF Bearers!IssueRead
    <2>2. closed[c] = None
      BY <2>1 DEF Recorded
    <2>3. UNCHANGED <<owner, client, token, maxExpiry, time, changes, closed>>
      BY <1>1 DEF Bearers!IssueRead
    <2>4. Typed' /\ InTime' /\ Begun' /\ Asked'
      BY <2>1, <2>2, <2>3 DEF Typed, InTime, Begun, Asked, Pcs
    <2> QED BY <2>3, <2>4 DEF Recorded, Ends
  <1>2. CASE Bearers!IssueOwner(h)
    <2>1. UNCHANGED <<owner, client, token, maxExpiry, time, changes, closed>>
      BY <1>2 DEF Bearers!IssueOwner
    <2>2. CASE Bearers!Usable(call[h].user)
      <3> DEFINE c == call[h].client
                 e == time + Ttl[c]
      <3>1. call' = [call EXCEPT ![h].pc = "mint", ![h].expires = e]
        BY <1>2, <2>2 DEF Bearers!IssueOwner
      <3>2. c \in Clients /\ e \in Int /\ e <= call[h].at + ReqTime + Ttl[c]
        BY <1>2 DEF Bearers!IssueOwner, Bearers!At, Typed, InTime
      <3> HIDE DEF e
      <3>3. Typed' /\ InTime' /\ Begun'
        BY <1>2, <2>1, <3>1 DEF Typed, InTime, Begun, Pcs, Bearers!IssueOwner, Bearers!At
      <3>4. Asked'
        BY <1>2, <2>1, <3>1, <3>2 DEF Asked, Typed, Bearers!IssueOwner, Bearers!At
      <3> QED BY <2>1, <3>3, <3>4 DEF Recorded, Ends
    <2>3. CASE ~Bearers!Usable(call[h].user)
      BY <1>2, <2>1, <2>3 DEF Bearers!IssueOwner, Bearers!End, Bearers!Idle, Typed, InTime,
         Recorded, Begun, Asked, Ends, Pcs
    <2> QED BY <2>2, <2>3
  <1>3. CASE Bearers!Mint(h)
    <2>1. UNCHANGED <<owner, client, maxExpiry, time, changes, closed>>
      BY <1>3 DEF Bearers!Mint
    <2>2. call' = [call EXCEPT ![h] = Bearers!Idle]
      BY <1>3 DEF Bearers!Mint, Bearers!End
    <2>3. Typed' /\ InTime' /\ Recorded' /\ Begun' /\ Asked'
      <3>1. DOMAIN token' = Pair
        BY <1>3 DEF Bearers!Mint, Typed
      <3> QED BY <2>1, <2>2, <3>1 DEF Typed, InTime, Recorded, Begun, Asked, Bearers!Idle, Pcs
    <2>4. Ends'
      <3>1. CASE token' = token
        BY <2>1, <3>1 DEF Ends
      <3>2. CASE token' # token
        <4>1. PICK t \in Pair : token' = [token EXCEPT ![t] =
                 [user |-> call[h].user, expires |-> call[h].expires,
                  revoked |-> FALSE, client |-> call[h].client]]
          BY <1>3, <3>2 DEF Bearers!Mint
        <4>2. call[h].pc = "mint"
          BY <1>3 DEF Bearers!Mint, Bearers!At
        <4>3. SUFFICES ASSUME NEW c \in Clients, call[h].client = c
                       PROVE  /\ call[h].expires \in Int
                              /\ call[h].expires <= time + ReqTime + Ttl[c]
                              /\ closed[c] # None => call[h].expires <= closed[c] + ReqTime + Ttl[c]
          BY <2>1, <4>1 DEF Ends, Typed
        <4>4. /\ call[h].expires \in Int /\ call[h].expires <= call[h].at + ReqTime + Ttl[c]
              /\ call[h].at \in Nat /\ call[h].at <= time
              /\ closed[c] # None => call[h].at <= closed[c]
          BY <4>2, <4>3 DEF Asked, InTime, Begun
        <4>5. time \in Nat /\ closed[c] \in Nat \cup {None} /\ Ttl[c] \in Nat
          BY DEF Typed
        <4> QED BY <4>4, <4>5
      <3> QED BY <3>1, <3>2
    <2> QED BY <2>3, <2>4
  <1> QED BY <1>1, <1>2, <1>3

\* A step of a request that is for no client, and of a page about one.
LEMMA PagesKeepClientInv ==
    ASSUME ClientsOK, ClientInv, NEW h \in Handlers,
           Bearers!CreateToken(h) \/ Bearers!CreateOnPage(h) \/ Bearers!ReadCap(h)
           \/ Bearers!ToggleRead(h) \/ Bearers!ToggleWrite(h)
    PROVE  ClientInv'
  <1> USE DEF ClientsOK, ClientInv
  <1>1. CASE Bearers!CreateToken(h) \/ Bearers!CreateOnPage(h)
    <2>1. PICK u : call' = [call EXCEPT ![h] = [pc |-> "cap", user |-> u, client |-> None,
                                              expires |-> 0, at |-> time]]
      BY <1>1 DEF Bearers!CreateToken, Bearers!CreateOnPage, Bearers!CreateAs
    <2>2. UNCHANGED <<owner, client, token, maxExpiry, time, changes, closed>>
      BY <1>1 DEF Bearers!CreateToken, Bearers!CreateOnPage, Bearers!CreateAs
    <2>3. Typed' /\ InTime' /\ Begun' /\ Asked'
      BY <2>1, <2>2 DEF Typed, InTime, Begun, Asked, Pcs
    <2> QED BY <2>2, <2>3 DEF Recorded, Ends
  <1>2. CASE Bearers!ReadCap(h)
    <2>1. PICK e : call' = [call EXCEPT ![h].pc = "mint", ![h].expires = e]
      BY <1>2 DEF Bearers!ReadCap
    <2>2. UNCHANGED <<owner, client, token, maxExpiry, time, changes, closed>>
      BY <1>2 DEF Bearers!ReadCap
    <2>3. call[h].client = None /\ call[h].pc = "cap"
      BY <1>2 DEF Bearers!ReadCap, Bearers!At, Typed
    <2>4. Typed' /\ InTime' /\ Begun' /\ Asked'
      BY <2>1, <2>2, <2>3 DEF Typed, InTime, Begun, Asked, Pcs
    <2> QED BY <2>2, <2>4 DEF Recorded, Ends
  <1>3. CASE Bearers!ToggleRead(h)
    <2>1. PICK c \in Clients :
            call' = [call EXCEPT ![h] = [pc |-> IF client[c].enabled THEN "disable" ELSE "enable",
                      user |-> None, client |-> c, expires |-> 0, at |-> time]]
      BY <1>3 DEF Bearers!ToggleRead
    <2>2. UNCHANGED <<owner, client, token, maxExpiry, time, closed>>
      BY <1>3 DEF Bearers!ToggleRead
    <2>3. Typed' /\ InTime' /\ Begun' /\ Asked'
      BY <2>1, <2>2 DEF Typed, InTime, Begun, Asked, Pcs
    <2> QED BY <2>2, <2>3 DEF Recorded, Ends
  <1>4. CASE Bearers!ToggleWrite(h)
    <2> DEFINE c == call[h].client
               on == Bearers!At(h, "enable")
    <2>1. call' = [call EXCEPT ![h] = Bearers!Idle] /\ UNCHANGED <<owner, token, maxExpiry, time, changes>>
      BY <1>4 DEF Bearers!ToggleWrite, Bearers!End
    <2>2. c \in Clients
      BY <1>4 DEF Bearers!ToggleWrite, Typed
    <2>3. CASE client[c] = None
      BY <1>4, <2>1, <2>3
         DEF Bearers!ToggleWrite, Typed, InTime, Recorded, Begun, Asked, Ends, Bearers!Idle, Pcs
    <2>4. CASE client[c] # None
      <3>1. /\ client' = [client EXCEPT ![c].enabled = on]
            /\ closed' = [closed EXCEPT ![c] = IF on THEN None
                                               ELSE IF @ = None THEN time ELSE @]
        BY <1>4, <2>4 DEF Bearers!ToggleWrite
      <3>2. client[c] \in ClientRecord /\ on \in BOOLEAN
        BY <2>2, <2>4 DEF Typed, Bearers!At
      <3> HIDE DEF c, on
      <3>3. /\ client' \in [Clients -> ClientRecord \cup {None}]
            /\ client'[c] # None /\ client'[c].enabled => on
            /\ \A d \in Clients \ {c} : client'[d] = client[d]
        BY <2>2, <3>1, <3>2 DEF Typed, ClientRecord
      <3>4. Typed' /\ InTime' /\ Asked'
        BY <2>1, <2>2, <3>1, <3>3 DEF Typed, InTime, Asked, Bearers!Idle, Pcs
      <3>5. Recorded'
        BY <2>2, <3>1, <3>3 DEF Recorded, Typed
      <3>6. Begun'
        BY <2>1, <2>2, <3>1 DEF Begun, InTime, Typed, Bearers!Idle, Pcs
      <3>7. Ends'
        BY <2>1, <2>2, <3>1 DEF Ends, Typed
      <3> QED BY <3>4, <3>5, <3>6, <3>7
    <2> QED BY <2>3, <2>4
  <1> QED BY <1>1, <1>2, <1>3, <1>4

\* Administrators, and the time.
LEMMA OthersKeepClientInv ==
    ASSUME ClientsOK, ClientInv,
           Bearers!RevokeMine \/ Bearers!AdminRevoke \/ Bearers!SetMaxExpiry
           \/ Bearers!DeleteClient \/ Bearers!SetActive \/ Bearers!DeleteUser \/ Bearers!Tick
    PROVE  ClientInv'
  <1> USE DEF ClientsOK, ClientInv
  <1>1. CASE Bearers!RevokeMine \/ Bearers!AdminRevoke
    <2>1. PICK t \in Pair : Bearers!RevokeToken(t)
      BY <1>1 DEF Bearers!RevokeMine, Bearers!AdminRevoke
    <2>2. /\ token' = [token EXCEPT ![t].revoked = TRUE] /\ token[t] # None
          /\ UNCHANGED <<owner, client, maxExpiry, call, time, changes, closed>>
      BY <2>1 DEF Bearers!RevokeToken
    <2>3. Ends'
      BY <2>2 DEF Ends, Typed
    <2> QED BY <2>2, <2>3 DEF Typed, InTime, Recorded, Begun, Asked
  <1>2. CASE Bearers!SetMaxExpiry \/ Bearers!SetActive
    BY <1>2 DEF Bearers!SetMaxExpiry, Bearers!SetActive, Typed, InTime, Recorded, Begun, Asked, Ends
  <1>3. CASE Bearers!DeleteClient
    <2>1. PICK c \in Clients :
            /\ client' = [client EXCEPT ![c] = None]
            /\ closed' = [closed EXCEPT ![c] = IF @ = None THEN time ELSE @]
            /\ UNCHANGED <<owner, token, maxExpiry, call, time>>
      BY <1>3 DEF Bearers!DeleteClient
    <2>2. Typed' /\ InTime' /\ Asked'
      BY <2>1 DEF Typed, InTime, Asked
    <2>3. Recorded'
      BY <2>1 DEF Recorded, Typed
    <2>4. Begun'
      BY <2>1 DEF Begun, InTime, Typed
    <2>5. Ends'
      BY <2>1 DEF Ends, Typed
    <2> QED BY <2>2, <2>3, <2>4, <2>5
  <1>4. CASE Bearers!DeleteUser
    <2>1. PICK u \in Owners :
            /\ token' = [t \in Pair |-> IF token[t] # None /\ token[t].user = u
                                          THEN None ELSE token[t]]
            /\ client' = [c \in Clients |-> IF client[c] # None /\ client[c].by = u
                                            THEN [client[c] EXCEPT !.by = None] ELSE client[c]]
            /\ UNCHANGED <<maxExpiry, call, time, closed>>
      BY <1>4 DEF Bearers!DeleteUser
    <2>2. \A c \in Clients :
            /\ client'[c] \in ClientRecord \cup {None}
            /\ client'[c] # None /\ client'[c].enabled => client[c] # None /\ client[c].enabled
      BY <2>1 DEF Typed, ClientRecord
    <2>3. Typed' /\ Recorded'
      BY <2>1, <2>2 DEF Typed, Recorded
    <2> QED BY <2>1, <2>3 DEF InTime, Begun, Asked, Ends
  <1>5. CASE Bearers!Tick
    <2>1. Typed'
      BY <1>5 DEF Bearers!Tick, Typed
    <2>2. InTime'
      BY <1>5 DEF Bearers!Tick, InTime, Bearers!At, Typed
    <2>3. Ends'
      <3> SUFFICES ASSUME NEW t \in Pair, NEW c \in Clients,
                          token[t] # None, token[t].client = c
                   PROVE  /\ token[t].expires \in Int
                          /\ token[t].expires <= time' + ReqTime + Ttl[c]
                          /\ closed[c] # None => token[t].expires <= closed[c] + ReqTime + Ttl[c]
        BY <1>5 DEF Bearers!Tick, Ends
      <3>1. time' = time + 1 /\ time \in Nat /\ Ttl[c] \in Nat
        BY <1>5 DEF Bearers!Tick, Typed
      <3> QED BY <3>1 DEF Ends
    <2> QED BY <1>5, <2>1, <2>2, <2>3 DEF Bearers!Tick, Recorded, Begun, Asked
  <1> QED BY <1>1, <1>2, <1>3, <1>4, <1>5

LEMMA ClientNext == ClientsOK /\ ClientInv /\ [Bearers!Next]_Bearers!vars => ClientInv'
  <1> SUFFICES ASSUME ClientsOK, ClientInv, [Bearers!Next]_Bearers!vars PROVE ClientInv'
    OBVIOUS
  <1>1. CASE UNCHANGED Bearers!vars
    BY <1>1 DEF Bearers!vars, ClientInv, Typed, InTime, Recorded, Begun, Asked, Ends
  <1> QED BY <1>1, GrantKeepsClientInv, PagesKeepClientInv, OthersKeepClientInv
     DEF Bearers!Next, Bearers!Step

\* A request that is about an account, and a token, have an owner; a token's is there.
Issued ==
    /\ owner \in [Owners -> [live : BOOLEAN, active : BOOLEAN]]
    /\ \A h \in Handlers : call[h].pc \in {"owner", "cap", "mint"} => call[h].user \in Owners
    /\ \A t \in Pair : token[t] # None => token[t].user \in Owners /\ owner[token[t].user].live

LEMMA InitIssued == Bearers!Init => Issued
  BY DEF Bearers!Init, Bearers!Idle, Issued

LEMMA StepIssued ==
    ASSUME Typed, Issued, [Bearers!Next]_Bearers!vars
    PROVE  Issued'
  <1> USE DEF Issued, Typed
  <1>1. CASE UNCHANGED Bearers!vars
    BY <1>1 DEF Bearers!vars
  <1>2. ASSUME NEW h \in Handlers, Bearers!Step(h) PROVE Issued'
    <2>1. CASE Bearers!IssueRead(h)
      <3>1. PICK c \in Clients : /\ client[c] # None /\ client[c].by # None
                                 /\ call' = [call EXCEPT ![h] = [pc |-> "owner", user |-> client[c].by,
                                       client |-> c, expires |-> 0, at |-> time]]
        BY <2>1 DEF Bearers!IssueRead
      <3>2. client[c].by \in Owners
        BY <3>1 DEF ClientRecord
      <3> QED BY <2>1, <3>1, <3>2 DEF Bearers!IssueRead
    <2>2. CASE Bearers!IssueOwner(h)
      <3>1. call[h].user \in Owners /\ UNCHANGED <<owner, token>>
        BY <2>2 DEF Bearers!IssueOwner, Bearers!At
      <3>2. CASE call' = [call EXCEPT ![h] = Bearers!Idle]
        BY <3>1, <3>2 DEF Bearers!Idle
      <3>3. CASE call' = [call EXCEPT ![h].pc = "mint", ![h].expires = time + Ttl[call[h].client]]
        <4>1. \A k \in Handlers \ {h} : call'[k] = call[k]
          BY <3>3
        <4>2. call'[h] = [call[h] EXCEPT !.pc = "mint", !.expires = time + Ttl[call[h].client]]
          BY <3>3
        <4>3. call'[h].user = call[h].user
          BY <4>2
        <4> QED BY <3>1, <4>1, <4>3
      <3> QED BY <2>2, <3>2, <3>3 DEF Bearers!IssueOwner, Bearers!End
    <2>3. CASE Bearers!Mint(h)
      <3>1. call' = [call EXCEPT ![h] = Bearers!Idle] /\ UNCHANGED owner /\ call[h].user \in Owners
        BY <2>3 DEF Bearers!Mint, Bearers!At, Bearers!End
      <3>2. \A t \in Pair : \/ token'[t] = token[t]
                            \/ token'[t].user = call[h].user /\ owner[call[h].user].live
        BY <2>3 DEF Bearers!Mint
      <3> QED BY <3>1, <3>2 DEF Bearers!Idle
    <2>4. CASE Bearers!CreateToken(h) \/ Bearers!CreateOnPage(h)
      <3>1. PICK u \in Owners, t \in Pair \cup {None} : Bearers!CreateAs(h, u, t)
        BY <2>4 DEF Bearers!CreateToken, Bearers!CreateOnPage, Bearers!Bearer, Bearers!Usable
      <3> QED BY <3>1 DEF Bearers!CreateAs
    <2>5. CASE Bearers!ReadCap(h)
      BY <2>5 DEF Bearers!ReadCap, Bearers!At
    <2>6. CASE Bearers!ToggleRead(h)
      BY <2>6 DEF Bearers!ToggleRead
    <2>7. CASE Bearers!ToggleWrite(h)
      BY <2>7 DEF Bearers!ToggleWrite, Bearers!End, Bearers!Idle
    <2> QED BY <1>2, <2>1, <2>2, <2>3, <2>4, <2>5, <2>6, <2>7 DEF Bearers!Step
  <1>3. CASE Bearers!RevokeMine \/ Bearers!AdminRevoke
    <2>1. PICK t \in Pair : Bearers!RevokeToken(t)
      BY <1>3 DEF Bearers!RevokeMine, Bearers!AdminRevoke
    <2> QED BY <2>1 DEF Bearers!RevokeToken
  <1>4. CASE Bearers!SetMaxExpiry \/ Bearers!DeleteClient \/ Bearers!Tick
    BY <1>4 DEF Bearers!SetMaxExpiry, Bearers!DeleteClient, Bearers!Tick
  <1>5. CASE Bearers!SetActive
    <2>1. PICK u \in Owners : owner' = [owner EXCEPT ![u].active = ~@] /\ UNCHANGED <<token, call>>
      BY <1>5 DEF Bearers!SetActive
    <2>2. \A x \in Owners : owner'[x].live = owner[x].live
      BY <2>1
    <2>3. owner' \in [Owners -> [live : BOOLEAN, active : BOOLEAN]]
      BY <2>1
    <2> QED BY <2>1, <2>2, <2>3
  <1>6. CASE Bearers!DeleteUser
    <2>1. PICK u \in Owners :
            /\ owner' = [owner EXCEPT ![u].live = FALSE] /\ UNCHANGED call
            /\ token' = [t \in Pair |-> IF token[t] # None /\ token[t].user = u THEN None ELSE token[t]]
      BY <1>6 DEF Bearers!DeleteUser
    <2>2. \A x \in Owners \ {u} : owner'[x].live = owner[x].live
      BY <2>1
    <2>3. owner' \in [Owners -> [live : BOOLEAN, active : BOOLEAN]]
      BY <2>1
    <2> QED BY <2>1, <2>2, <2>3
  <1> QED BY <1>1, <1>2, <1>3, <1>4, <1>5, <1>6 DEF Bearers!Next

LEMMA IssuedTyped == Typed /\ Issued => Bearers!TypeOK
  BY DEF Typed, Issued, Pcs, Bearers!TypeOK

\* A token issued to a client, and any token made by bearing it, expires within a
\* token's life and a request's length of the client being disabled or deleted:
\* the grant computes the expiry after it has read the client, nothing revokes the
\* token, and requests in flight at the closing still insert theirs.
THEOREM ClosedClientsDie == ASSUME ClientsOK PROVE Bearers!Spec => []Bearers!ClientTokensDie
  <1>1. ClientInv => Bearers!ClientTokensDie
    BY DEF ClientsOK, ClientInv, Ends, Bearers!ClientTokensDie
  <1>2. Bearers!Init => ClientInv
    BY ClientInit
  <1>3. ClientInv /\ [Bearers!Next]_Bearers!vars => ClientInv'
    BY ClientNext
  <1> QED BY <1>1, <1>2, <1>3, PTL DEF Bearers!Spec

-----------------------------------------------------------------------------
(* An invitation makes one account and accounts are made whole, whatever the   *)
(* numbers of requests, names, invitations, subjects and stopped workers,      *)
(* although no two statements of a request are in one transaction.  Each       *)
(* account is accounted for: by its rows, by a request that is still at it,    *)
(* or by the crash that cut its request short.                                 *)

Addresses == {EmailOf[s] : s \in Subjects} \cup {None}
AccountRecord == [name : Names, invite : Invites \cup {None}, sub : Subjects \cup {None},
                  email : Addresses, person : BOOLEAN]
InviteRecord == [expires : Nat, accepted : BOOLEAN, by : Nat, revoked : BOOLEAN]

\* What stands for nothing is no row, no invitation and no subject.
NewcomersOK ==
    /\ MaxAccounts \in Nat /\ NameOf \in [Subjects -> Names]
    /\ None \notin Invites \cup Subjects /\ None \notin AccountRecord /\ None \notin InviteRecord

Invited == {"name", "insert", "member", "consume", "undo"}
Vouched == {"email", "link", "reload", "create", "sync", "asset", "person"}

\* What a request is about, by the statement it is about to make.
NewcomerOK(r) ==
    /\ DOMAIN r = {"pc", "what", "name", "id"} /\ r.pc \in Newcomers!Stages /\ r.id \in Newcomers!Ids \cup {0}
    /\ r.pc \in Invited => r.name \in Names /\ r.what \in Invites \cup {None}
    /\ r.pc \in Invited /\ r.what # None => invite[r.what] # None
    /\ r.pc \in {"name", "consume", "undo"} => r.what # None
    /\ r.pc \in Vouched => r.what \in Subjects
    /\ r.pc \in {"member", "consume", "undo", "link", "reload", "sync", "asset", "person"} => r.id \in Newcomers!Ids

Rows ==
    /\ holder \in [Newcomers!Ids -> AccountRecord \cup {None}] /\ member \subseteq Newcomers!Ids
    /\ invite \in [Invites -> InviteRecord \cup {None}]
    /\ \A i \in Invites : invite[i] # None => invite[i].by \in Newcomers!Ids \cup {0}
    /\ ids \in Nat /\ time \in Nat
    /\ DOMAIN call = Handlers /\ \A h \in Handlers : NewcomerOK(call[h])

\* Names and subjects have one account, and a membership has an account.
Unique ==
    /\ \A a, b \in Newcomers!Ids : holder[a] # None /\ holder[b] # None /\ a # b =>
         /\ holder[a].name # holder[b].name
         /\ holder[a].sub = None \/ holder[a].sub # holder[b].sub
    /\ \A a \in member : holder[a] # None

\* A request is still at the use of invitation i by account a.
Uses(r, i, a) == r.id = a /\ r.what = i /\ r.pc \in {"member", "consume", "undo"}
Using(i, a) == \E h \in Handlers : Uses(call[h], i, a)

Used(i, a) == invite[i] # None /\ invite[i].accepted /\ ~invite[i].revoked /\ invite[i].by = a

UsedOnce ==
    \A i \in Invites, a \in Newcomers!Ids :
        holder[a] # None /\ holder[a].invite = i /\ a \notin orphans => Using(i, a) \/ Used(i, a)

\* A request is still at what makes account a whole.
Completes(r, a) == r.id = a /\ r.pc \in {"member", "asset", "person"}
Completing(a) == \E h \in Handlers : Completes(call[h], a)

MadeWhole ==
    \A a \in Newcomers!Ids : holder[a] # None /\ a \notin orphans =>
        holder[a].person \/ a \in member \/ Completing(a)

NewcomerInv == Rows /\ Unique /\ UsedOnce /\ MadeWhole

-----------------------------------------------------------------------------
LEMMA InitNewcomers == NewcomersOK /\ Newcomers!Init => NewcomerInv
  <1> SUFFICES ASSUME NewcomersOK, Newcomers!Init PROVE NewcomerInv
    OBVIOUS
  <1>1. Rows
    BY DEF NewcomersOK, Newcomers!Init, Rows, NewcomerOK, Newcomers!Idle, Newcomers!Stages,
       Invited, Vouched
  <1>2. Unique /\ UsedOnce /\ MadeWhole
    BY DEF Newcomers!Init, Unique, UsedOnce, MadeWhole
  <1> QED BY <1>1, <1>2 DEF NewcomerInv

\* One handler moves on: the others are where they were.
LEMMA HandlerMoves ==
    ASSUME Rows, NEW h \in Handlers, NEW r, call' = [call EXCEPT ![h] = r]
    PROVE  /\ DOMAIN call' = Handlers /\ call'[h] = r
           /\ \A g \in Handlers : g # h => call'[g] = call[g]
           /\ \A i, a : Using(i, a) => Using(i, a)' \/ Uses(call[h], i, a)
           /\ \A a : Completing(a) => Completing(a)' \/ Completes(call[h], a)
           /\ \A i, a : Uses(r, i, a) => Using(i, a)'
           /\ \A a : Completes(r, a) => Completing(a)'
  <1>1. /\ DOMAIN call' = Handlers /\ call'[h] = r
        /\ \A g \in Handlers : g # h => call'[g] = call[g]
    BY DEF Rows
  <1>2. ASSUME NEW i, NEW a, Using(i, a) PROVE Using(i, a)' \/ Uses(call[h], i, a)
    <2>1. PICK g \in Handlers : Uses(call[g], i, a)
      BY <1>2 DEF Using
    <2>2. CASE g # h
      <3>1. Uses(call'[g], i, a)
        BY <1>1, <2>1, <2>2
      <3> QED BY <3>1 DEF Using, Uses
    <2> QED BY <2>1, <2>2
  <1>3. ASSUME NEW a, Completing(a) PROVE Completing(a)' \/ Completes(call[h], a)
    <2>1. PICK g \in Handlers : Completes(call[g], a)
      BY <1>3 DEF Completing
    <2>2. CASE g # h
      <3>1. Completes(call'[g], a)
        BY <1>1, <2>1, <2>2
      <3> QED BY <3>1 DEF Completing, Completes
    <2> QED BY <2>1, <2>2
  <1>4. \A i, a : Uses(r, i, a) => Using(i, a)'
    BY <1>1 DEF Using, Uses
  <1>5. \A a : Completes(r, a) => Completing(a)'
    BY <1>1 DEF Completing, Completes
  <1> QED BY <1>1, <1>2, <1>3, <1>4, <1>5

LEMMA OthersOK ==
    ASSUME Rows, NEW h \in Handlers, NEW r, call' = [call EXCEPT ![h] = r], NewcomerOK(r)',
           \A i \in Invites : invite[i] # None => invite'[i] # None
    PROVE  DOMAIN call' = Handlers /\ \A g \in Handlers : NewcomerOK(call[g])'
  <1>1. ASSUME NEW g \in Handlers, g # h PROVE NewcomerOK(call[g])'
    <2>1. NewcomerOK(call[g]) /\ call'[g] = call[g]
      BY <1>1 DEF Rows
    <2> QED BY <2>1 DEF NewcomerOK
  <1>2. call'[h] = r
    BY DEF Rows
  <1>3. NewcomerOK(call[h])'
    BY <1>2 DEF NewcomerOK
  <1> QED BY <1>1, <1>3 DEF Rows

\* A step of a request that only reads.
LEMMA ReadKeeps ==
    ASSUME NewcomerInv, NEW h \in Handlers, NEW r, call' = [call EXCEPT ![h] = r], NewcomerOK(r),
           UNCHANGED <<holder, member, invite, time, ids, orphans>>,
           call[h].pc \notin {"member", "consume", "undo"},
           call[h].pc \in {"asset", "person"} => r.id = call[h].id /\ r.pc = "person"
    PROVE  NewcomerInv'
  <1> USE DEF NewcomerInv
  <1>1. NewcomerOK(r)'
    BY DEF NewcomerOK
  <1>2. Rows'
    BY <1>1, OthersOK DEF Rows
  <1>3. Unique'
    BY DEF Unique
  <1>4. UsedOnce'
    <2>1. \A i, a : Using(i, a) => Using(i, a)'
      BY HandlerMoves DEF Uses
    <2> QED BY <2>1 DEF UsedOnce, Used
  <1>5. \A a : Completing(a) => Completing(a)'
    BY HandlerMoves DEF Completes
  <1>6. MadeWhole'
    BY <1>5 DEF MadeWhole
  <1> QED BY <1>2, <1>3, <1>4, <1>6

LEMMA ReadsKeep ==
    ASSUME NewcomersOK, NewcomerInv, NEW h \in Handlers,
           \/ Newcomers!AcceptRead(h) \/ Newcomers!AcceptName(h) \/ Newcomers!AdminCreate(h)
           \/ Newcomers!SsoFind(h) \/ Newcomers!SsoEmail(h) \/ Newcomers!SsoReload(h)
           \/ Newcomers!CreatePerson(h)
    PROVE  NewcomerInv'
  <1>0. NewcomerOK(call[h]) /\ DOMAIN call = Handlers
    BY DEF NewcomerInv, Rows
  <1>1. UNCHANGED <<holder, member, invite, time, ids, orphans>>
    BY DEF Newcomers!AcceptRead, Newcomers!AcceptName, Newcomers!AdminCreate, Newcomers!SsoFind,
       Newcomers!SsoEmail, Newcomers!SsoReload, Newcomers!CreatePerson, Newcomers!rows
  <1>2. CASE Newcomers!AcceptRead(h)
    <2>1. PICK i \in Invites, n \in Names :
            Newcomers!Valid(i) /\ call' = [call EXCEPT ![h] = [pc |-> "name", what |-> i, name |-> n, id |-> 0]]
      BY <1>2 DEF Newcomers!AcceptRead
    <2>2. NewcomerOK([pc |-> "name", what |-> i, name |-> n, id |-> 0])
      BY <2>1 DEF NewcomersOK, NewcomerOK, Newcomers!Valid, Newcomers!Stages, Invited, Vouched
    <2> QED BY <1>1, <1>2, <2>1, <2>2, ReadKeeps DEF Newcomers!AcceptRead, Newcomers!At
  <1>3. CASE Newcomers!AcceptName(h)
    <2>1. call[h].pc = "name" /\ (Newcomers!End(h) \/ Newcomers!Goto(h, "insert"))
      BY <1>3 DEF Newcomers!AcceptName, Newcomers!At
    <2>2. CASE Newcomers!End(h)
      <3>1. NewcomerOK(Newcomers!Idle)
        BY DEF NewcomerOK, Newcomers!Idle, Newcomers!Stages, Invited, Vouched
      <3> QED BY <1>1, <2>1, <2>2, <3>1, ReadKeeps DEF Newcomers!End
    <2>3. CASE Newcomers!Goto(h, "insert")
      <3> DEFINE r == [call[h] EXCEPT !.pc = "insert"]
      <3>1. call' = [call EXCEPT ![h] = r]
        BY <2>3 DEF Newcomers!Goto
      <3>2. NewcomerOK(r)
        BY <1>0, <2>1 DEF NewcomerOK, Newcomers!Stages, Invited, Vouched
      <3> HIDE DEF r
      <3> QED BY <1>1, <2>1, <3>1, <3>2, ReadKeeps
    <2> QED BY <2>1, <2>2, <2>3
  <1>4. CASE Newcomers!AdminCreate(h)
    <2>1. PICK n \in Names :
            call' = [call EXCEPT ![h] = [pc |-> "insert", what |-> None, name |-> n, id |-> 0]]
      BY <1>4 DEF Newcomers!AdminCreate
    <2>2. NewcomerOK([pc |-> "insert", what |-> None, name |-> n, id |-> 0])
      BY <2>1 DEF NewcomerOK, Newcomers!Stages, Invited, Vouched
    <2> QED BY <1>1, <1>4, <2>1, <2>2, ReadKeeps DEF Newcomers!AdminCreate, Newcomers!At
  <1>5. CASE Newcomers!SsoFind(h)
    <2>1. PICK s \in Subjects :
            call' = [call EXCEPT ![h] =
              IF Newcomers!BySub(s) = {} THEN [pc |-> "email", what |-> s, name |-> NameOf[s], id |-> 0]
              ELSE [pc |-> "sync", what |-> s, name |-> NameOf[s],
                    id |-> CHOOSE a \in Newcomers!BySub(s) : TRUE]]
      BY <1>5 DEF Newcomers!SsoFind
    <2>2. CASE Newcomers!BySub(s) = {}
      <3>1. NewcomerOK([pc |-> "email", what |-> s, name |-> NameOf[s], id |-> 0])
        BY DEF NewcomerOK, Newcomers!Stages, Invited, Vouched
      <3> QED BY <1>1, <1>5, <2>1, <2>2, <3>1, ReadKeeps DEF Newcomers!SsoFind, Newcomers!At
    <2>3. CASE Newcomers!BySub(s) # {}
      <3> DEFINE b == CHOOSE a \in Newcomers!BySub(s) : TRUE
      <3>1. b \in Newcomers!Ids
        BY <2>3 DEF Newcomers!BySub
      <3> HIDE DEF b
      <3>2. NewcomerOK([pc |-> "sync", what |-> s, name |-> NameOf[s], id |-> b])
        BY <3>1 DEF NewcomerOK, Newcomers!Stages, Invited, Vouched
      <3>3. call' = [call EXCEPT ![h] = [pc |-> "sync", what |-> s, name |-> NameOf[s], id |-> b]]
        BY <2>1, <2>3 DEF b
      <3> QED BY <1>1, <1>5, <3>2, <3>3, ReadKeeps DEF Newcomers!SsoFind, Newcomers!At
    <2> QED BY <2>2, <2>3
  <1>6. CASE Newcomers!SsoEmail(h)
    <2>1. /\ call[h].pc = "email"
          /\ Newcomers!Goto(h, "create") \/ \E a \in Newcomers!Ids : call' = [call EXCEPT ![h].pc = "link", ![h].id = a]
      BY <1>6 DEF Newcomers!SsoEmail, Newcomers!At, Newcomers!ByEmail
    <2>2. \E r : call' = [call EXCEPT ![h] = r] /\ NewcomerOK(r)
      <3>1. CASE Newcomers!Goto(h, "create")
        <4>1. NewcomerOK([call[h] EXCEPT !.pc = "create"])
          BY <1>0, <2>1 DEF NewcomerOK, Newcomers!Stages, Invited, Vouched
        <4> QED BY <3>1, <4>1 DEF Newcomers!Goto
      <3>2. ASSUME NEW a \in Newcomers!Ids, call' = [call EXCEPT ![h].pc = "link", ![h].id = a]
            PROVE  \E r : call' = [call EXCEPT ![h] = r] /\ NewcomerOK(r)
        <4>1. NewcomerOK([call[h] EXCEPT !.pc = "link", !.id = a])
          BY <1>0, <2>1 DEF NewcomerOK, Newcomers!Stages, Invited, Vouched
        <4>2. call' = [call EXCEPT ![h] = [call[h] EXCEPT !.pc = "link", !.id = a]]
          BY <3>2
        <4> QED BY <4>1, <4>2
      <3> QED BY <2>1, <3>1, <3>2
    <2>3. PICK r : call' = [call EXCEPT ![h] = r] /\ NewcomerOK(r)
      BY <2>2
    <2> QED BY <1>1, <2>1, <2>3, ReadKeeps
  <1>7. CASE Newcomers!CreatePerson(h)
    <2> DEFINE r == [call[h] EXCEPT !.pc = "person"]
    <2>1. call[h].pc = "asset" /\ call' = [call EXCEPT ![h] = r]
      BY <1>7 DEF Newcomers!CreatePerson, Newcomers!At, Newcomers!Goto
    <2>2. NewcomerOK(r) /\ r.id = call[h].id /\ r.pc = "person"
      BY <1>0, <2>1 DEF NewcomerOK, Newcomers!Stages, Invited, Vouched
    <2> HIDE DEF r
    <2> QED BY <1>1, <2>1, <2>2, ReadKeeps
  <1>8. CASE Newcomers!SsoReload(h)
    <2>1. /\ call[h].pc = "reload"
          /\ \E next \in {"sync", "create"} : call' = [call EXCEPT ![h] = [call[h] EXCEPT !.pc = next]]
      BY <1>8 DEF Newcomers!SsoReload, Newcomers!At, Newcomers!Goto
    <2>2. PICK next \in {"sync", "create"} : call' = [call EXCEPT ![h] = [call[h] EXCEPT !.pc = next]]
      BY <2>1
    <2> DEFINE r == [call[h] EXCEPT !.pc = next]
    <2>3. NewcomerOK(r)
      BY <1>0, <2>1 DEF NewcomerOK, Newcomers!Stages, Invited, Vouched
    <2>4. call' = [call EXCEPT ![h] = r]
      BY <2>2
    <2> HIDE DEF r
    <2> QED BY <1>1, <2>1, <2>3, <2>4, ReadKeeps
  <1> QED BY <1>2, <1>3, <1>4, <1>5, <1>6, <1>7, <1>8

LEMMA IdleNewcomer == NewcomerOK(Newcomers!Idle) /\ NewcomerOK(Newcomers!Idle)'
  BY DEF NewcomerOK, Newcomers!Idle, Newcomers!Stages, Invited, Vouched

\* A new account has a request that will see to it.
LEMMA InsertKeeps ==
    ASSUME NewcomersOK, NewcomerInv, NEW h \in Handlers,
           NEW n \in Names, NEW i \in Invites \cup {None}, NEW s \in Subjects \cup {None},
           NEW e \in Addresses, NEW next,
           Newcomers!Insert(h, n, i, s, e, next), UNCHANGED <<member, invite, time, orphans>>,
           call[h].pc \notin {"member", "consume", "undo", "asset", "person"},
           ids < MaxAccounts => NewcomerOK([call[h] EXCEPT !.pc = next, !.id = ids + 1]),
           next \in {"member", "asset"}, i # None => next = "member" /\ call[h].what = i
    PROVE  NewcomerInv'
  <1> USE DEF NewcomerInv
  <1> DEFINE new == Newcomers!NewAccount(n, i, s, e)
  <1>b. PICK b : b = ids + 1
    OBVIOUS
  <1>r. PICK r : r = [call[h] EXCEPT !.pc = next, !.id = b]
    OBVIOUS
  <1>1. CASE Newcomers!End(h) /\ UNCHANGED <<holder, ids>>
    BY <1>1, ReadKeeps, IdleNewcomer DEF Newcomers!End
  <1>2. CASE ~(Newcomers!End(h) /\ UNCHANGED <<holder, ids>>)
    <2>1. /\ Newcomers!ByName(n) = {} /\ (s # None => Newcomers!BySub(s) = {})
          /\ ids < MaxAccounts /\ ids' = ids + 1 /\ holder' = [holder EXCEPT ![b] = new]
          /\ call' = [call EXCEPT ![h].pc = next, ![h].id = ids + 1]
      BY <1>2, <1>b DEF Newcomers!Insert
    <2>2. b \in Newcomers!Ids /\ ids \in Nat
      BY <1>b, <2>1 DEF Rows, NewcomersOK, Newcomers!Ids
    <2>3. new \in AccountRecord /\ new # None /\ new.name = n /\ new.sub = s /\ new.invite = i
      <3>1. new = [name |-> n, invite |-> i, sub |-> s, email |-> e, person |-> FALSE]
        BY DEF Newcomers!NewAccount
      <3>2. new \in AccountRecord
        BY <3>1 DEF AccountRecord
      <3>3. new # None
        BY <3>2 DEF NewcomersOK
      <3>4. new.name = n /\ new.sub = s /\ new.invite = i
        BY <3>1
      <3> QED BY <3>2, <3>3, <3>4
    <2>4. call' = [call EXCEPT ![h] = r]
      BY <1>b, <1>r, <2>1
    <2>5. NewcomerOK(r) /\ r.pc = next /\ r.id = b /\ r.what = call[h].what
      <3>1. NewcomerOK(call[h]) /\ DOMAIN call[h] = {"pc", "what", "name", "id"}
        BY DEF Rows, NewcomerOK
      <3> QED BY <1>b, <1>r, <2>1, <3>1
    <2> HIDE DEF new
    <2>6. holder'[b] = new /\ \A a \in Newcomers!Ids : a # b => holder'[a] = holder[a]
      BY <2>1, <2>2 DEF Rows
    <2>7. Rows'
      <3>1. holder' \in [Newcomers!Ids -> AccountRecord \cup {None}]
        BY <2>1, <2>2, <2>3 DEF Rows
      <3>2. ids' \in Nat
        BY <2>1, <2>2
      <3>3. NewcomerOK(r)'
        BY <2>5 DEF NewcomerOK
      <3>4. DOMAIN call' = Handlers /\ \A g \in Handlers : NewcomerOK(call[g])'
        BY <2>4, <3>3, OthersOK
      <3> QED BY <3>1, <3>2, <3>4 DEF Rows
    <2>8. Unique'
      <3>1. \A a \in Newcomers!Ids : holder[a] # None => holder[a].name # n /\ (s # None => holder[a].sub # s)
        BY <2>1 DEF Newcomers!ByName, Newcomers!BySub
      <3>2. \A a \in member' : holder'[a] # None
        BY <2>3, <2>6 DEF Unique, Rows
      <3>3. ASSUME NEW a \in Newcomers!Ids, NEW c \in Newcomers!Ids, holder'[a] # None, holder'[c] # None, a # c
            PROVE  /\ holder'[a].name # holder'[c].name
                   /\ holder'[a].sub = None \/ holder'[a].sub # holder'[c].sub
        <4>1. CASE a = b
          BY <2>3, <2>6, <3>1, <3>3, <4>1
        <4>2. CASE c = b
          BY <2>3, <2>6, <3>1, <3>3, <4>2
        <4>3. CASE a # b /\ c # b
          BY <2>6, <3>3, <4>3 DEF Unique
        <4> QED BY <4>1, <4>2, <4>3
      <3> QED BY <3>2, <3>3 DEF Unique
    <2>9. /\ \A j, a : Using(j, a) => Using(j, a)'
          /\ i # None => Using(i, b)'
      BY <2>4, <2>5, HandlerMoves DEF Uses
    <2>10. UsedOnce'
      <3> SUFFICES ASSUME NEW j \in Invites, NEW a \in Newcomers!Ids,
                          holder'[a] # None, holder'[a].invite = j, a \notin orphans
                   PROVE  Using(j, a)' \/ Used(j, a)'
        BY DEF UsedOnce
      <3>1. CASE a = b
        BY <2>3, <2>6, <2>9, <3>1 DEF NewcomersOK
      <3>2. CASE a # b
        BY <2>6, <2>9, <3>2 DEF UsedOnce, Used
      <3> QED BY <3>1, <3>2
    <2>11. /\ \A a : Completing(a) => Completing(a)'
           /\ Completing(b)'
      BY <2>4, <2>5, HandlerMoves DEF Completes
    <2>12. MadeWhole'
      BY <2>6, <2>11 DEF MadeWhole
    <2> QED BY <2>7, <2>8, <2>10, <2>12
  <1> QED BY <1>1, <1>2

LEMMA CreatesKeep ==
    ASSUME NewcomersOK, NewcomerInv, NEW h \in Handlers, Newcomers!CreateUser(h) \/ Newcomers!SsoCreate(h)
    PROVE  NewcomerInv'
  <1>0. NewcomerOK(call[h]) /\ ids \in Nat
    BY DEF NewcomerInv, Rows
  <1>1. ids < MaxAccounts => ids + 1 \in Newcomers!Ids
    BY <1>0 DEF NewcomersOK, Newcomers!Ids
  <1>2. CASE Newcomers!CreateUser(h)
    <2>1. /\ call[h].pc = "insert" /\ Newcomers!Insert(h, call[h].name, call[h].what, None, None, "member")
          /\ UNCHANGED <<member, invite, time, orphans>>
      BY <1>2 DEF Newcomers!CreateUser, Newcomers!At
    <2>2. call[h].name \in Names /\ call[h].what \in Invites \cup {None}
      BY <1>0, <2>1 DEF NewcomerOK, Invited
    <2>3. ids < MaxAccounts => NewcomerOK([call[h] EXCEPT !.pc = "member", !.id = ids + 1])
      BY <1>0, <1>1, <2>1 DEF NewcomerOK, Newcomers!Stages, Invited, Vouched
    <2>4. None \in Addresses
      BY DEF Addresses
    <2> QED BY <2>1, <2>2, <2>3, <2>4, InsertKeeps
  <1>3. CASE Newcomers!SsoCreate(h)
    <2>0. None \in Addresses /\ \A t \in Subjects : EmailOf[t] \in Addresses
      BY DEF Addresses
    <2>1. /\ call[h].pc = "create" /\ UNCHANGED <<member, invite, time, orphans>>
          /\ Newcomers!Insert(h, NameOf[call[h].what], None, call[h].what, EmailOf[call[h].what], "asset")
      BY <1>3 DEF Newcomers!SsoCreate, Newcomers!At
    <2>2. call[h].what \in Subjects /\ NameOf[call[h].what] \in Names
      BY <1>0, <2>1 DEF NewcomerOK, Vouched, NewcomersOK
    <2>3. ids < MaxAccounts => NewcomerOK([call[h] EXCEPT !.pc = "asset", !.id = ids + 1])
      BY <1>0, <1>1, <2>1 DEF NewcomerOK, Newcomers!Stages, Invited, Vouched
    <2> QED BY <2>0, <2>1, <2>2, <2>3, InsertKeeps
  <1> QED BY <1>2, <1>3

\* The membership, after which an invitee's request goes on to the invitation.
LEMMA MembershipKeeps ==
    ASSUME NewcomersOK, NewcomerInv, NEW h \in Handlers, Newcomers!AddMembership(h)
    PROVE  NewcomerInv'
  <1> USE DEF NewcomerInv
  <1>0. /\ NewcomerOK(call[h]) /\ call[h].pc = "member" /\ call[h].id \in Newcomers!Ids
        /\ UNCHANGED <<holder, invite, time, ids, orphans>>
    BY DEF Rows, NewcomerOK, Newcomers!AddMembership, Newcomers!At
  <1> DEFINE b == call[h].id
  <1>1. PICK r : /\ call' = [call EXCEPT ![h] = r] /\ NewcomerOK(r)
                 /\ holder[b] # None /\ call[h].what # None =>
                      r.pc = "consume" /\ r.id = b /\ r.what = call[h].what
    <2>1. CASE Newcomers!End(h) /\ (holder[b] = None \/ call[h].what = None)
      BY <2>1, IdleNewcomer DEF Newcomers!End
    <2>2. CASE Newcomers!Goto(h, "consume") /\ call[h].what # None
      <3> DEFINE r == [call[h] EXCEPT !.pc = "consume"]
      <3>1. NewcomerOK(r) /\ r.pc = "consume" /\ r.id = b /\ r.what = call[h].what
        BY <1>0, <2>2 DEF NewcomerOK, Newcomers!Stages, Invited, Vouched
      <3>2. call' = [call EXCEPT ![h] = r]
        BY <2>2 DEF Newcomers!Goto
      <3> QED BY <3>1, <3>2
    <2>3. b # 0
      BY <1>0 DEF Newcomers!Ids
    <2> QED BY <2>1, <2>2, <2>3 DEF Newcomers!AddMembership, Newcomers!Live
  <1>2. /\ member' = IF holder[b] # None THEN member \cup {b} ELSE member
    BY <1>0 DEF Newcomers!AddMembership, Newcomers!Live, Newcomers!Ids
  <1>3. Rows'
    <2>1. NewcomerOK(r)'
      BY <1>0, <1>1 DEF NewcomerOK
    <2>2. DOMAIN call' = Handlers /\ \A g \in Handlers : NewcomerOK(call[g])'
      BY <1>0, <1>1, <2>1, OthersOK
    <2> QED BY <1>0, <1>2, <2>2 DEF Rows
  <1>4. Unique'
    BY <1>0, <1>2 DEF Unique
  <1>5. ASSUME NEW i \in Invites, NEW a \in Newcomers!Ids, Using(i, a), holder[a] # None
        PROVE  Using(i, a)'
    <2>1. CASE Uses(call[h], i, a)
      <3>1. Uses(r, i, a)
        BY <1>1, <1>5, <2>1 DEF Uses, NewcomersOK
      <3> QED BY <1>1, <3>1, HandlerMoves
    <2> QED BY <1>1, <1>5, <2>1, HandlerMoves
  <1>6. UsedOnce'
    BY <1>0, <1>5 DEF UsedOnce, Used
  <1>7. ASSUME NEW a \in Newcomers!Ids, holder[a] # None, Completing(a)
        PROVE  a \in member' \/ Completing(a)'
    <2>1. CASE Completes(call[h], a)
      BY <1>2, <1>7, <2>1 DEF Completes
    <2> QED BY <1>1, <1>7, <2>1, HandlerMoves
  <1>8. MadeWhole'
    BY <1>0, <1>2, <1>7 DEF MadeWhole
  <1> QED BY <1>3, <1>4, <1>6, <1>8

\* The use of the invitation: the row decides who is first.
LEMMA ConsumeKeeps ==
    ASSUME NewcomersOK, NewcomerInv, NEW h \in Handlers, Newcomers!Consume(h)
    PROVE  NewcomerInv'
  <1> USE DEF NewcomerInv
  <1> DEFINE b == call[h].id
             i == call[h].what
  <1>0. /\ NewcomerOK(call[h]) /\ call[h].pc = "consume" /\ b \in Newcomers!Ids /\ i \in Invites
        /\ invite[i] # None /\ invite[i] \in InviteRecord
        /\ UNCHANGED <<holder, member, time, ids, orphans>>
    BY DEF Rows, NewcomerOK, Newcomers!Consume, Newcomers!At, Invited
  <1>1. CASE ~(~invite[i].accepted /\ ~invite[i].revoked) /\ Newcomers!Goto(h, "undo") /\ invite' = invite
    <2>1. PICK r : r = [call[h] EXCEPT !.pc = "undo"]
      OBVIOUS
    <2>2. call' = [call EXCEPT ![h] = r]
      BY <1>1, <2>1 DEF Newcomers!Goto
    <2>3. NewcomerOK(r) /\ r.pc = "undo" /\ r.id = b /\ r.what = i
      BY <1>0, <2>1 DEF NewcomerOK, Newcomers!Stages, Invited, Vouched
    <2>4. NewcomerOK(r)'
      BY <1>1, <2>3 DEF NewcomerOK
    <2>5. Rows'
      BY <1>0, <1>1, <2>2, <2>4, OthersOK DEF Rows
    <2>6. \A j, a : Using(j, a) => Using(j, a)'
      BY <2>2, <2>3, HandlerMoves DEF Uses
    <2>7. \A a : Completing(a) => Completing(a)'
      BY <1>0, <2>2, HandlerMoves DEF Completes
    <2>8. Unique' /\ UsedOnce' /\ MadeWhole'
      BY <1>0, <1>1, <2>6, <2>7 DEF Unique, UsedOnce, Used, MadeWhole
    <2> QED BY <2>5, <2>8
  <1>2. CASE holder[b] = None /\ Newcomers!End(h) /\ invite' = invite
    <2>1. call' = [call EXCEPT ![h] = Newcomers!Idle]
      BY <1>2 DEF Newcomers!End
    <2>2. Rows'
      BY <1>0, <1>2, <2>1, IdleNewcomer, OthersOK DEF Rows
    <2>3. ASSUME NEW j, NEW a, holder[a] # None, Using(j, a) PROVE Using(j, a)'
      <3>1. ~Uses(call[h], j, a)
        BY <1>2, <2>3 DEF Uses
      <3> QED BY <2>1, <2>3, <3>1, HandlerMoves
    <2>4. \A a : Completing(a) => Completing(a)'
      BY <1>0, <2>1, HandlerMoves DEF Completes
    <2>5. Unique' /\ UsedOnce' /\ MadeWhole'
      BY <1>0, <1>2, <2>3, <2>4 DEF Unique, UsedOnce, Used, MadeWhole
    <2> QED BY <2>2, <2>5
  <1>3. CASE /\ ~invite[i].accepted /\ ~invite[i].revoked /\ Newcomers!End(h)
             /\ invite' = [invite EXCEPT ![i].accepted = TRUE, ![i].by = call[h].id]
    <2>1. call' = [call EXCEPT ![h] = Newcomers!Idle]
      BY <1>3 DEF Newcomers!End
    <2>2. /\ invite'[i] \in InviteRecord /\ invite'[i] # None
          /\ invite'[i].accepted /\ ~invite'[i].revoked /\ invite'[i].by = b
      <3>1. invite'[i] = [invite[i] EXCEPT !.accepted = TRUE, !.by = b]
        BY <1>0, <1>3 DEF Rows
      <3>2. b \in Nat
        BY <1>0 DEF Newcomers!Ids
      <3> HIDE DEF b, i
      <3>3. invite'[i] \in InviteRecord
        BY <1>0, <3>1, <3>2 DEF InviteRecord
      <3>4. ~invite[i].revoked
        BY <1>3 DEF i
      <3>5. invite'[i].accepted /\ ~invite'[i].revoked /\ invite'[i].by = b
        BY <1>0, <3>1, <3>4 DEF InviteRecord
      <3>6. invite'[i] # None
        BY <3>3 DEF NewcomersOK
      <3> QED BY <3>3, <3>5, <3>6
    <2>3. DOMAIN invite' = Invites /\ \A j \in Invites : j # i => invite'[j] = invite[j]
      BY <1>0, <1>3 DEF Rows
    <2> HIDE DEF b, i
    <2>4. Rows'
      <3>1. invite' \in [Invites -> InviteRecord \cup {None}]
        <4>1. \A j \in Invites : invite'[j] \in InviteRecord \cup {None}
          BY <2>2, <2>3 DEF Rows
        <4>2. invite' = [j \in Invites |-> invite'[j]]
          BY <1>3, <2>3 DEF Rows
        <4> QED BY <4>1, <4>2
      <3>2. \A j \in Invites : invite'[j] # None => invite'[j].by \in Newcomers!Ids \cup {0}
        BY <1>0, <2>2, <2>3 DEF Rows
      <3>3. \A j \in Invites : invite[j] # None => invite'[j] # None
        BY <2>2, <2>3
      <3>4. DOMAIN call' = Handlers /\ \A g \in Handlers : NewcomerOK(call[g])'
        BY <2>1, <3>3, IdleNewcomer, OthersOK
      <3> QED BY <1>0, <3>1, <3>2, <3>4 DEF Rows
    <2>5. ASSUME NEW j, NEW a, Using(j, a) PROVE Using(j, a)' \/ (j = i /\ a = b)
      <3>1. Uses(call[h], j, a) => j = i /\ a = b
        BY DEF Uses, b, i
      <3> QED BY <2>1, <2>5, <3>1, HandlerMoves
    <2>6. \A a : Completing(a) => Completing(a)'
      BY <1>0, <2>1, HandlerMoves DEF Completes
    <2>7. UsedOnce'
      <3> SUFFICES ASSUME NEW j \in Invites, NEW a \in Newcomers!Ids,
                          holder[a] # None, holder[a].invite = j, a \notin orphans
                   PROVE  Using(j, a)' \/ Used(j, a)'
        BY <1>0 DEF UsedOnce
      <3>1. CASE j = i
        <4>1. ~Used(j, a)
          BY <1>3, <3>1 DEF Used, i
        <4>2. a = b \/ Using(j, a)'
          BY <2>5, <4>1 DEF UsedOnce
        <4> QED BY <2>2, <3>1, <4>2 DEF Used
      <3>2. CASE j # i
        BY <2>3, <2>5, <3>2 DEF UsedOnce, Used
      <3> QED BY <3>1, <3>2
    <2>8. Unique' /\ MadeWhole'
      BY <1>0, <2>6 DEF Unique, MadeWhole
    <2> QED BY <2>4, <2>7, <2>8
  <1> QED BY <1>0, <1>1, <1>2, <1>3 DEF Newcomers!Consume, Newcomers!Live, Newcomers!Ids

\* An account that goes takes nothing of another's with it.
LEMMA DropKeeps ==
    ASSUME NewcomersOK, NewcomerInv, NEW b \in Newcomers!Ids, Newcomers!Drop(b),
           UNCHANGED <<time, ids, orphans>>,
           (\A i \in Invites : invite[i] # None => invite'[i] # None) =>
               DOMAIN call' = Handlers /\ \A g \in Handlers : NewcomerOK(call[g])',
           \A i \in Invites, a \in Newcomers!Ids : a # b /\ Using(i, a) => Using(i, a)',
           \A a \in Newcomers!Ids : a # b /\ Completing(a) => Completing(a)'
    PROVE  NewcomerInv'
  <1> USE DEF NewcomerInv
  <1>1. /\ holder' \in [Newcomers!Ids -> AccountRecord \cup {None}] /\ holder'[b] = None
        /\ \A a \in Newcomers!Ids : a # b => holder'[a] = holder[a]
    BY DEF Newcomers!Drop, Rows
  <1>2. /\ invite' \in [Invites -> InviteRecord \cup {None}]
        /\ \A i \in Invites : invite[i] # None =>
             /\ invite'[i] # None /\ invite'[i].by \in Newcomers!Ids \cup {0}
             /\ invite[i].by # b => invite'[i] = invite[i]
        /\ \A i \in Invites : invite[i] = None => invite'[i] = None
    <2>1. ASSUME NEW i \in Invites, invite[i] # None, invite[i].by = b
          PROVE  invite'[i] \in InviteRecord /\ invite'[i].by = 0
      <3>1. invite'[i] = [invite[i] EXCEPT !.by = 0] /\ invite[i] \in InviteRecord
        BY <2>1 DEF Newcomers!Drop, Rows
      <3> QED BY <3>1 DEF InviteRecord
    <2>2. ASSUME NEW i \in Invites, ~(invite[i] # None /\ invite[i].by = b)
          PROVE  invite'[i] = invite[i]
      BY <2>2 DEF Newcomers!Drop
    <2>3. invite' = [i \in Invites |-> invite'[i]]
      BY DEF Newcomers!Drop
    <2>4. \A i \in Invites : invite'[i] \in InviteRecord \cup {None}
      BY <2>1, <2>2 DEF Rows
    <2>5. invite' \in [Invites -> InviteRecord \cup {None}]
      BY <2>3, <2>4
    <2> QED BY <2>1, <2>2, <2>5 DEF Rows, NewcomersOK
  <1>3. member' = member \ {b}
    BY DEF Newcomers!Drop
  <1>4. Rows'
    BY <1>1, <1>2, <1>3 DEF Rows
  <1>5. Unique'
    BY <1>1, <1>3 DEF Unique, Rows
  <1>6. UsedOnce'
    BY <1>1, <1>2 DEF UsedOnce, Used
  <1>7. MadeWhole'
    BY <1>1, <1>3 DEF MadeWhole
  <1> QED BY <1>4, <1>5, <1>6, <1>7

LEMMA DropsKeep ==
    ASSUME NewcomersOK, NewcomerInv, Newcomers!AdminDelete \/ \E h \in Handlers : Newcomers!Undo(h)
    PROVE  NewcomerInv'
  <1>1. CASE Newcomers!AdminDelete
    <2>1. PICK b \in Newcomers!Ids : Newcomers!Drop(b) /\ UNCHANGED <<call, time, ids, orphans>>
      BY <1>1 DEF Newcomers!AdminDelete
    <2>2. /\ \A i, a : Using(i, a) => Using(i, a)'
          /\ \A a : Completing(a) => Completing(a)'
      BY <2>1 DEF Using, Completing
    <2>3. (\A i \in Invites : invite[i] # None => invite'[i] # None) =>
               DOMAIN call' = Handlers /\ \A g \in Handlers : NewcomerOK(call[g])'
      <3> SUFFICES ASSUME \A i \in Invites : invite[i] # None => invite'[i] # None, NEW g \in Handlers
                   PROVE  NewcomerOK(call[g])'
        BY <2>1 DEF NewcomerInv, Rows
      <3> QED BY <2>1 DEF NewcomerInv, Rows, NewcomerOK
    <2> QED BY <2>1, <2>2, <2>3, DropKeeps
  <1>2. ASSUME NEW h \in Handlers, Newcomers!Undo(h) PROVE NewcomerInv'
    <2>1. /\ call[h].pc = "undo" /\ call[h].id \in Newcomers!Ids /\ Newcomers!Drop(call[h].id)
          /\ call' = [call EXCEPT ![h] = Newcomers!Idle] /\ UNCHANGED <<time, ids, orphans>>
      BY <1>2 DEF Newcomers!Undo, Newcomers!At, Newcomers!End, NewcomerInv, Rows, NewcomerOK
    <2>2. \A i, a : a # call[h].id => ~Uses(call[h], i, a)
      BY DEF Uses
    <2>4. \A a : ~Completes(call[h], a)
      BY <2>1 DEF Completes
    <2>5. /\ \A i, a : a # call[h].id /\ Using(i, a) => Using(i, a)'
          /\ \A a : Completing(a) => Completing(a)'
      BY <2>1, <2>2, <2>4, HandlerMoves DEF NewcomerInv
    <2>3. (\A i \in Invites : invite[i] # None => invite'[i] # None) =>
               DOMAIN call' = Handlers /\ \A g \in Handlers : NewcomerOK(call[g])'
      BY <2>1, IdleNewcomer, OthersOK DEF NewcomerInv
    <2> QED BY <2>1, <2>3, <2>5, DropKeeps
  <1> QED BY <1>1, <1>2

\* An account is linked, given an address, or given its Person.
LEMMA EditKeeps ==
    ASSUME NewcomersOK, NewcomerInv, NEW h \in Handlers, NEW b \in Newcomers!Ids, holder[b] # None,
           NEW new \in AccountRecord, holder' = [holder EXCEPT ![b] = new],
           new.name = holder[b].name, new.invite = holder[b].invite,
           holder[b].person => new.person,
           new.sub = holder[b].sub \/ Newcomers!BySub(new.sub) \subseteq {b},
           NEW r, call' = [call EXCEPT ![h] = r], NewcomerOK(r),
           call[h].pc \in {"link", "sync", "person"},
           call[h].pc = "person" => call[h].id = b /\ new.person,
           UNCHANGED <<member, invite, time, ids, orphans>>
    PROVE  NewcomerInv'
  <1> USE DEF NewcomerInv
  <1>1. /\ holder' \in [Newcomers!Ids -> AccountRecord \cup {None}] /\ holder'[b] = new /\ new # None
        /\ \A a \in Newcomers!Ids : a # b => holder'[a] = holder[a]
    BY DEF Rows, NewcomersOK
  <1>2. Rows'
    <2>1. NewcomerOK(r)'
      BY DEF NewcomerOK
    <2>2. DOMAIN call' = Handlers /\ \A g \in Handlers : NewcomerOK(call[g])'
      BY <2>1, OthersOK
    <2> QED BY <1>1, <2>2 DEF Rows
  <1>3. Unique'
    <2>1. ASSUME NEW a \in Newcomers!Ids, a # b, holder[a] # None
          PROVE  /\ holder[a].name # new.name
                 /\ new.sub = None \/ holder[a].sub # new.sub
      BY <2>1 DEF Unique, Newcomers!BySub
    <2>2. \A a \in member' : holder'[a] # None
      BY <1>1 DEF Unique, Rows
    <2>3. ASSUME NEW a \in Newcomers!Ids, NEW c \in Newcomers!Ids, holder'[a] # None, holder'[c] # None, a # c
          PROVE  /\ holder'[a].name # holder'[c].name
                 /\ holder'[a].sub = None \/ holder'[a].sub # holder'[c].sub
      <3>1. CASE a = b
        BY <1>1, <2>1, <2>3, <3>1
      <3>2. CASE c = b
        BY <1>1, <2>1, <2>3, <3>2
      <3>3. CASE a # b /\ c # b
        BY <1>1, <2>3, <3>3 DEF Unique
      <3> QED BY <3>1, <3>2, <3>3
    <2> QED BY <2>2, <2>3 DEF Unique
  <1>4. \A i, a : Using(i, a) => Using(i, a)'
    BY HandlerMoves DEF Uses
  <1>5. UsedOnce'
    BY <1>1, <1>4 DEF UsedOnce, Used
  <1>6. ASSUME NEW a, Completing(a) PROVE Completing(a)' \/ (a = b /\ new.person)
    <2>1. Completes(call[h], a) => a = b /\ new.person
      BY DEF Completes
    <2> QED BY <1>6, <2>1, HandlerMoves
  <1>7. MadeWhole'
    BY <1>1, <1>6 DEF MadeWhole
  <1> QED BY <1>2, <1>3, <1>5, <1>7

LEMMA EditsKeep ==
    ASSUME NewcomersOK, NewcomerInv, NEW h \in Handlers, Newcomers!SsoLink(h) \/ Newcomers!SsoSync(h)
    PROVE  NewcomerInv'
  <1> DEFINE b == call[h].id
             s == call[h].what
  <1>0. /\ NewcomerOK(call[h]) /\ call[h].pc \in {"link", "sync"} /\ b \in Newcomers!Ids /\ s \in Subjects
        /\ UNCHANGED <<member, invite, time, ids, orphans>> /\ b # 0
    BY DEF NewcomerInv, Rows, NewcomerOK, Newcomers!SsoLink, Newcomers!SsoSync, Newcomers!At,
       Vouched, Newcomers!Ids
  <1>1. /\ holder[b] # None => holder[b] \in AccountRecord
        /\ EmailOf[s] \in Addresses
    BY <1>0 DEF NewcomerInv, Rows, Addresses
  <1>2. CASE Newcomers!SsoLink(h) /\ holder[b] # None /\ Newcomers!BySub(s) \subseteq {b}
    <2>1. PICK new : new = [holder[b] EXCEPT !.sub = s, !.email = EmailOf[s]]
      OBVIOUS
    <2>2. PICK r : r = [call[h] EXCEPT !.pc = "reload"]
      OBVIOUS
    <2>3. /\ new \in AccountRecord /\ new.name = holder[b].name /\ new.sub = s
          /\ new.invite = holder[b].invite /\ new.person = holder[b].person
      BY <1>0, <1>1, <1>2, <2>1 DEF AccountRecord
    <2>4. holder' = [holder EXCEPT ![b] = new] /\ call' = [call EXCEPT ![h] = r] /\ call[h].pc = "link"
      BY <1>0, <1>2, <2>1, <2>2 DEF Newcomers!SsoLink, Newcomers!Live, Newcomers!Goto, Newcomers!At
    <2>5. NewcomerOK(r)
      BY <1>0, <2>2 DEF NewcomerOK, Newcomers!Stages, Invited, Vouched
    <2> HIDE DEF b, s
    <2> QED BY <1>0, <1>2, <2>3, <2>4, <2>5, EditKeeps
  <1>3. CASE Newcomers!SsoLink(h) /\ ~(holder[b] # None /\ Newcomers!BySub(s) \subseteq {b})
    <2>1. Newcomers!End(h) \/ Newcomers!Goto(h, "reload")
      BY <1>0, <1>3 DEF Newcomers!SsoLink, Newcomers!Live, Newcomers!At
    <2>2. PICK r : r = [call[h] EXCEPT !.pc = "reload"]
      OBVIOUS
    <2>3. NewcomerOK(r)
      BY <1>0, <2>2 DEF NewcomerOK, Newcomers!Stages, Invited, Vouched
    <2>4. call' = [call EXCEPT ![h] = Newcomers!Idle] \/ call' = [call EXCEPT ![h] = r]
      BY <2>1, <2>2 DEF Newcomers!End, Newcomers!Goto
    <2>5. call[h].pc = "link" /\ holder' = holder
      BY <1>0, <1>3 DEF Newcomers!SsoLink, Newcomers!Live, Newcomers!At
    <2> QED BY <1>0, <2>3, <2>4, <2>5, IdleNewcomer, ReadKeeps
  <1>4. CASE Newcomers!SsoSync(h) /\ holder[b] # None
    <2>1. PICK new : new = [holder[b] EXCEPT !.email = EmailOf[s]]
      OBVIOUS
    <2>2. /\ new \in AccountRecord /\ new.name = holder[b].name /\ new.sub = holder[b].sub
          /\ new.invite = holder[b].invite /\ new.person = holder[b].person
      BY <1>0, <1>1, <1>4, <2>1 DEF AccountRecord
    <2>3. holder' = [holder EXCEPT ![b] = new] /\ call' = [call EXCEPT ![h] = Newcomers!Idle] /\ call[h].pc = "sync"
      BY <1>0, <1>4, <2>1 DEF Newcomers!SsoSync, Newcomers!Live, Newcomers!End, Newcomers!At
    <2> HIDE DEF b, s
    <2> QED BY <1>0, <1>4, <2>2, <2>3, IdleNewcomer, EditKeeps
  <1>5. CASE Newcomers!SsoSync(h) /\ holder[b] = None
    <2>1. holder' = holder /\ call' = [call EXCEPT ![h] = Newcomers!Idle] /\ call[h].pc = "sync"
      BY <1>5 DEF Newcomers!SsoSync, Newcomers!Live, Newcomers!End, Newcomers!At
    <2> QED BY <1>0, <2>1, IdleNewcomer, ReadKeeps
  <1> QED BY <1>2, <1>3, <1>4, <1>5

\* An account that is gone has nobody left to make it whole.
LEMMA PersonKeeps ==
    ASSUME NewcomersOK, NewcomerInv, NEW h \in Handlers, Newcomers!LinkPerson(h)
    PROVE  NewcomerInv'
  <1> DEFINE b == call[h].id
  <1>0. /\ call[h].pc = "person" /\ b \in Newcomers!Ids /\ b # 0 /\ call' = [call EXCEPT ![h] = Newcomers!Idle]
        /\ UNCHANGED <<member, invite, time, ids, orphans>>
    BY DEF NewcomerInv, Rows, NewcomerOK, Newcomers!LinkPerson, Newcomers!At, Newcomers!End,
       Newcomers!Ids
  <1>1. CASE holder[b] # None
    <2>1. PICK new : new = [holder[b] EXCEPT !.person = TRUE]
      OBVIOUS
    <2>2. holder[b] \in AccountRecord
      BY <1>0, <1>1 DEF NewcomerInv, Rows
    <2>3. /\ new \in AccountRecord /\ new.name = holder[b].name /\ new.sub = holder[b].sub
          /\ new.invite = holder[b].invite /\ new.person
      BY <2>1, <2>2 DEF AccountRecord
    <2>4. holder' = [holder EXCEPT ![b] = new]
      BY <1>0, <1>1, <2>1 DEF Newcomers!LinkPerson, Newcomers!Live
    <2> HIDE DEF b
    <2> QED BY <1>0, <1>1, <2>3, <2>4, IdleNewcomer, EditKeeps DEF b
  <1>2. CASE holder[b] = None
    <2> USE DEF NewcomerInv
    <2>1. holder' = holder
      BY <1>2 DEF Newcomers!LinkPerson, Newcomers!Live
    <2>2. Rows'
      BY <1>0, <2>1, IdleNewcomer, OthersOK DEF Rows
    <2>3. \A i, a : ~Uses(call[h], i, a)
      BY <1>0 DEF Uses
    <2>4. \A a : Completes(call[h], a) => holder[a] = None
      BY <1>2 DEF Completes
    <2>5. /\ \A i, a : Using(i, a) => Using(i, a)'
          /\ \A a : holder[a] # None /\ Completing(a) => Completing(a)'
      BY <1>0, <2>3, <2>4, HandlerMoves
    <2>6. Unique' /\ UsedOnce' /\ MadeWhole'
      BY <1>0, <2>1, <2>5 DEF Unique, UsedOnce, Used, MadeWhole
    <2> QED BY <2>2, <2>6
  <1> QED BY <1>1, <1>2

\* An invitation is made, or taken back before anybody used it.
LEMMA InvitationsKeep ==
    ASSUME NewcomersOK, NewcomerInv, Newcomers!CreateInvitation \/ Newcomers!RevokeInvitation
    PROVE  NewcomerInv'
  <1> USE DEF NewcomerInv
  <1>1. PICK i \in Invites, new \in InviteRecord :
          /\ invite' = [invite EXCEPT ![i] = new] /\ new.by \in Newcomers!Ids \cup {0}
          /\ ~(invite[i] # None /\ invite[i].accepted)
          /\ UNCHANGED <<holder, member, call, time, ids, orphans>>
    <2>1. CASE Newcomers!CreateInvitation
      <3>1. PICK i \in Invites :
              /\ invite[i] = None
              /\ invite' = [invite EXCEPT ![i] =
                   [expires |-> time + 1, accepted |-> FALSE, by |-> 0, revoked |-> FALSE]]
              /\ UNCHANGED <<holder, member, call, time, ids, orphans>>
        BY <2>1 DEF Newcomers!CreateInvitation
      <3>2. [expires |-> time + 1, accepted |-> FALSE, by |-> 0, revoked |-> FALSE] \in InviteRecord
        BY DEF Rows, InviteRecord
      <3> QED BY <3>1, <3>2
    <2>2. CASE Newcomers!RevokeInvitation
      <3>1. PICK i \in Invites :
              /\ invite[i] # None /\ ~invite[i].accepted
              /\ invite' = [invite EXCEPT ![i] = [invite[i] EXCEPT !.revoked = TRUE]]
              /\ UNCHANGED <<holder, member, call, time, ids, orphans>>
        BY <2>2 DEF Newcomers!RevokeInvitation
      <3>2. /\ [invite[i] EXCEPT !.revoked = TRUE] \in InviteRecord
            /\ [invite[i] EXCEPT !.revoked = TRUE].by \in Newcomers!Ids \cup {0}
        <4>1. invite[i] \in InviteRecord /\ invite[i].by \in Newcomers!Ids \cup {0}
          BY <3>1 DEF Rows
        <4> QED BY <4>1 DEF InviteRecord
      <3> QED BY <3>1, <3>2
    <2> QED BY <2>1, <2>2
  <1>2. /\ invite' \in [Invites -> InviteRecord \cup {None}] /\ invite'[i] = new /\ new # None
        /\ \A j \in Invites : j # i => invite'[j] = invite[j]
    BY <1>1 DEF Rows, NewcomersOK
  <1>3. \A h \in Handlers : NewcomerOK(call[h])'
    BY <1>1, <1>2 DEF Rows, NewcomerOK
  <1>4. Rows'
    BY <1>1, <1>2, <1>3 DEF Rows
  <1>5. \A j, a : Using(j, a)' = Using(j, a)
    BY <1>1 DEF Using
  <1>6. \A a : Completing(a)' = Completing(a)
    BY <1>1 DEF Completing
  <1>7. UsedOnce'
    BY <1>1, <1>2, <1>5 DEF UsedOnce, Used
  <1>8. Unique' /\ MadeWhole'
    BY <1>1, <1>6 DEF Unique, MadeWhole
  <1> QED BY <1>4, <1>7, <1>8

\* What a stopped worker held in hand is not settled.
LEMMA CrashKeeps ==
    ASSUME NewcomersOK, NewcomerInv, Newcomers!Crash
    PROVE  NewcomerInv'
  <1> USE DEF NewcomerInv
  <1>1. /\ call' = [h \in Handlers |-> Newcomers!Idle]
        /\ orphans' = orphans \cup {call[h].id : h \in {k \in Handlers : call[k].id # 0}}
        /\ UNCHANGED <<holder, member, invite, time, ids>>
    BY DEF Newcomers!Crash, Newcomers!rows
  <1>2. Rows'
    BY <1>1, IdleNewcomer DEF Rows, NewcomerOK
  <1>3. ASSUME NEW a \in Newcomers!Ids, a \notin orphans'
        PROVE  a \notin orphans /\ \A h \in Handlers : call[h].id # a
    BY <1>1, <1>3 DEF Newcomers!Ids
  <1>4. \A a \in Newcomers!Ids : a \notin orphans' => ~Completing(a) /\ \A i : ~Using(i, a)
    BY <1>3 DEF Completing, Completes, Using, Uses
  <1>5. Unique' /\ UsedOnce' /\ MadeWhole'
    BY <1>1, <1>3, <1>4 DEF Unique, UsedOnce, Used, MadeWhole
  <1> QED BY <1>2, <1>5

LEMMA NewcomersStep ==
    ASSUME NewcomersOK, NewcomerInv, [Newcomers!Next]_Newcomers!vars
    PROVE  NewcomerInv'
  <1>1. CASE UNCHANGED Newcomers!vars
    <2>1. UNCHANGED <<holder, member, invite, call, time, ids, orphans>>
      BY <1>1 DEF Newcomers!vars, Newcomers!rows
    <2> QED BY <2>1 DEF NewcomerInv, Rows, NewcomerOK, Unique, UsedOnce, Used, Using, Uses,
                        MadeWhole, Completing, Completes
  <1>2. CASE Newcomers!Tick
    <2>1. UNCHANGED <<holder, member, invite, call, ids, orphans>> /\ time' = time + 1
      BY <1>2 DEF Newcomers!Tick, Newcomers!rows
    <2> QED BY <2>1 DEF NewcomerInv, Rows, NewcomerOK, Unique, UsedOnce, Used, Using, Uses,
                        MadeWhole, Completing, Completes
  <1>3. ASSUME NEW h \in Handlers, Newcomers!Step(h) PROVE NewcomerInv' \/ Newcomers!Undo(h)
    BY <1>3, ReadsKeep, CreatesKeep, MembershipKeeps, ConsumeKeeps, EditsKeep, PersonKeeps
       DEF Newcomers!Step
  <1> QED BY <1>1, <1>2, <1>3, DropsKeep, InvitationsKeep, CrashKeeps DEF Newcomers!Next

\* What the invariant says of an account nobody is still working on.
LEMMA SettledNewcomers ==
    NewcomersOK /\ NewcomerInv => Newcomers!TypeOK /\ Newcomers!InvitedOnce /\ Newcomers!AccountsWhole
  <1> SUFFICES ASSUME NewcomersOK, NewcomerInv
               PROVE  Newcomers!TypeOK /\ Newcomers!InvitedOnce /\ Newcomers!AccountsWhole
    OBVIOUS
  <1> USE DEF NewcomerInv
  <1>1. \A a \in Newcomers!Ids : Newcomers!Settled(a) => ~Completing(a) /\ \A i : ~Using(i, a)
    BY DEF Newcomers!Settled, Completing, Completes, Using, Uses
  <1>2. Newcomers!TypeOK
    BY DEF Newcomers!TypeOK, Rows, Unique, NewcomerOK
  <1>3. Newcomers!InvitedOnce /\ Newcomers!AccountsWhole
    BY <1>1 DEF Newcomers!InvitedOnce, Newcomers!AccountsWhole, UsedOnce, Used, MadeWhole,
       Newcomers!Settled, Newcomers!Live
  <1> QED BY <1>2, <1>3

\* An invitation leaves one account, the one it names, and accounts are made whole
\* but for a crash in between (AccountsSettle of the run).
THEOREM NewcomersSettle ==
    ASSUME NewcomersOK
   
        PROVE  Newcomers!Spec => [](Newcomers!TypeOK /\ Newcomers!InvitedOnce /\ Newcomers!AccountsWhole)
  <1>1. Newcomers!Init => NewcomerInv
    BY InitNewcomers
  <1>2. NewcomerInv /\ [Newcomers!Next]_Newcomers!vars => NewcomerInv'
    BY NewcomersStep
  <1>3. NewcomerInv => Newcomers!TypeOK /\ Newcomers!InvitedOnce /\ Newcomers!AccountsWhole
    BY SettledNewcomers
  <1> QED BY <1>1, <1>2, <1>3, PTL DEF Newcomers!Spec

-----------------------------------------------------------------------------
(* Directory *)

\* What stands for nothing is no name of a group.
GroupNamesOK == None \notin GroupNames

LoginStages == {"insert", "setActive", "person", "link", "status"}
GroupStages == {"members", "recompute", "roles", "write", "drop"}
LoginRows == [state : {"none", "live", "gone"}, active : BOOLEAN, role : Directory!RoleNames, person : BOOLEAN]
RoleMaps == [GroupNames -> Directory!RoleNames \cup {None}]
PushKinds == {"none", "create", "replace", "patch", "delete", "add", "remove", "drop"}
Pushes == [pc : Directory!Stages, kind : PushKinds, user : Names \cup {None}, group : Pair \cup {None},
             on : BOOLEAN, todo : SUBSET Names, map : RoleMaps, role : Directory!RoleNames \cup {None},
             alone : BOOLEAN, linked : {"no", "yes", "gone"}]

\* What a request has at its stage.
PushOK(r) ==
  /\ r \in Pushes
  /\ r.pc \in LoginStages => r.user \in Names
  /\ r.pc \in {"members", "drop"} => r.group \in Pair
  /\ r.pc \in {"roles", "write"} => r.user \in r.todo
  /\ r.pc = "write" => r.role \in Directory!RoleNames

TablesOK ==
  /\ user \in [Names -> LoginRows]
  /\ person \in [Names -> {"none", "active", "archived"}]
  /\ group \in [Pair -> GroupNames \cup {None}]
  /\ members \in [Pair -> SUBSET Names]
  /\ roleMap \in RoleMaps
  /\ drift \subseteq Names /\ clash \subseteq Names

PushesOK == call \in [Handlers -> Pushes] /\ \A h \in Handlers : PushOK(call[h])

\* A request has the Person it is about to link.
Linking(h) == call[h].pc = "link" /\ call[h].linked # "gone"

DirInv == /\ Directory!TypeOK /\ TablesOK /\ PushesOK
          /\ \A h \in Handlers : Linking(h) => person[call[h].user] # "none"

\* A group request.
Grouping(h) == call[h].pc \in GroupStages
\* The role is the one of the groups.
Right(u) == user[u].role = Directory!RoleFor(u, roleMap)
\* A request that nothing has made uncertain is still to write it.
Pending(u) == \E h \in Handlers :
  call[h].alone /\ call[h].pc \in {"recompute", "roles", "write"} /\ u \in call[h].todo
\* Such a request is the only one about groups, and what it holds is what the
\* tables have.
Sure(r) ==
  /\ r.pc = "drop" => members[r.group] \subseteq r.todo
  /\ r.pc = "roles" => r.map = roleMap
  /\ (r.pc = "write" /\ user[r.user].state # "gone") => r.role = Directory!RoleFor(r.user, roleMap)
Certain(h) == (Grouping(h) /\ call[h].alone) => Sure(call[h]) /\ \A k \in Handlers \ {h} : ~Grouping(k)
Doubtful(h) == (Grouping(h) /\ ~call[h].alone) => drift = Names

Membership(h) == call[h].pc = "members" => call[h].kind \in {"create", "replace", "patch", "add", "remove"}

RoleInv ==
  /\ \A h \in Handlers : Certain(h) /\ Doubtful(h) /\ Membership(h)
  /\ \A u \in Directory!Live \ drift : Right(u) \/ Pending(u)

\* The request is at work on the login of u.
Login(h, u) == call[h].user = u /\ call[h].pc \in LoginStages
\* It holds what it has read, and has written what its stage says.
LoginOK(r, u) ==
  /\ r.pc = "insert" => user[u].state = "none" /\ ~user[u].person
  /\ r.pc # "insert" => user[u].state = "live"
  /\ r.pc \in {"insert", "setActive", "status"} => r.linked = IF user[u].person THEN "yes" ELSE "no"
  /\ (r.pc = "setActive" /\ r.kind = "create") => r.linked = "no"
  /\ r.pc \in {"status", "person", "link"} => user[u].active = r.on
  /\ r.pc \in {"person", "link"} => ~user[u].person
  /\ r.pc = "link" => person[u] = Directory!Status(r.on)
Settled(u) == (u \in Directory!Live /\ user[u].person) => person[u] = Directory!Status(user[u].active)
Alone(u) == \A h, k \in Handlers : (Login(h, u) /\ Login(k, u)) => h = k

LoginAt(u) ==
  /\ Alone(u)
  /\ \A h \in Handlers : Login(h, u) => LoginOK(call[h], u)
  /\ (\A h \in Handlers : ~Login(h, u)) => Settled(u)

LoginInv == /\ \A u \in Names : user[u].person => user[u].state = "live"
            /\ \A u \in Names \ clash : LoginAt(u)

\* A request of one handler changes.
LEMMA ReqPut ==
    ASSUME PushesOK, NEW h \in Handlers, NEW r, PushOK(r), call' = [call EXCEPT ![h] = r]
    PROVE  PushesOK'
  <1>1. r \in Pushes BY DEF PushOK
  <1> QED BY <1>1 DEF PushesOK, PushOK

LEMMA IdleOK == PushOK(Directory!Idle)
  <1>1. [n \in GroupNames |-> None] \in RoleMaps BY DEF RoleMaps
  <1>2. Directory!Idle \in Pushes
    <2> DEFINE blank == [n \in GroupNames |-> None]
    <2>1. Directory!Idle = [pc |-> "idle", kind |-> "none", user |-> None, group |-> None, on |-> FALSE, todo |-> {},
                  map |-> blank, role |-> None, alone |-> TRUE, linked |-> "no"]
      BY DEF Directory!Idle
    <2>2. blank \in RoleMaps BY <1>1
    <2> HIDE DEF blank
    <2> QED BY <2>1, <2>2 DEF Pushes, Directory!Stages, PushKinds
  <1>3. Directory!Idle.pc = "idle" BY DEF Directory!Idle
  <1> QED BY <1>2, <1>3 DEF PushOK, LoginStages

LEMMA EndOK == ASSUME PushesOK, NEW h \in Handlers, Directory!End(h) PROVE PushesOK'
  BY ReqPut, IdleOK DEF Directory!End

\* The stage of a request changes to one that asks no more than the last.
LEMMA GotoOK ==
    ASSUME PushesOK, NEW h \in Handlers, NEW pc \in Directory!Stages, Directory!Goto(h, pc),
           \/ call[h].pc \in LoginStages /\ pc \in LoginStages
           \/ pc \in {"recompute"}
    PROVE  PushesOK'
  <1> DEFINE r == [call[h] EXCEPT !.pc = pc]
  <1>1. call[h] \in Pushes /\ PushOK(call[h]) BY DEF PushesOK
  <1>2. r \in Pushes /\ r.pc = pc /\ r.user = call[h].user
    BY <1>1 DEF Pushes
  <1>3. PushOK(r)
    BY <1>1, <1>2 DEF PushOK, LoginStages
  <1>4. call' = [call EXCEPT ![h] = r] BY <1>1 DEF Directory!Goto, PushesOK
  <1> HIDE DEF r
  <1> QED BY <1>3, <1>4, ReqPut

LEMMA InitDir == ASSUME GroupNamesOK, Directory!Init PROVE DirInv /\ RoleInv /\ LoginInv
  <1>1. PICK here \in SUBSET Names :
          user = [u \in Names |-> [state |-> IF u \in here THEN "live" ELSE "none",
                                   active |-> TRUE, role |-> ViewerRole, person |-> FALSE]]
    BY DEF Directory!Init
  <1>2. Directory!TypeOK
    BY <1>1
       DEF Directory!Init, Directory!TypeOK, Directory!RoleNames, Directory!Stages, Directory!Idle
  <1>3. TablesOK BY <1>1 DEF Directory!Init, TablesOK, LoginRows, Directory!RoleNames, RoleMaps
  <1>4. PushesOK /\ \A h \in Handlers : call[h].pc = "idle"
    BY IdleOK DEF Directory!Init, PushesOK, PushOK, Directory!Idle
  <1>5. RoleInv
    <2>1. \A u \in Names : Directory!RoleFor(u, roleMap) = ViewerRole
      BY DEF Directory!Init, Directory!RoleFor
    <2>2. \A h \in Handlers : call[h].pc = "idle" BY DEF Directory!Init, Directory!Idle
    <2>3. \A u \in Names : Right(u) BY <1>1, <2>1 DEF Right
    <2> QED BY <2>2, <2>3
       DEF RoleInv, Certain, Doubtful, Membership, Grouping, GroupStages, Directory!Live
  <1>6. LoginInv
    <2>1. \A h \in Handlers : call[h].pc = "idle" BY DEF Directory!Init, Directory!Idle
    <2>2. \A u \in Names : ~user[u].person BY <1>1
    <2> QED BY <2>1, <2>2 DEF LoginInv, LoginAt, Alone, Login, LoginStages, Settled
  <1> QED BY <1>2, <1>3, <1>4, <1>5, <1>6 DEF DirInv, Linking

-----------------------------------------------------------------------------
(* Types *)

\* The rows of a user with a field written.
LEMMA RowPut ==
    ASSUME TablesOK, NEW u \in Names,
           NEW st \in {"none", "live", "gone"}, NEW on \in BOOLEAN, NEW ro \in Directory!RoleNames, NEW pe \in BOOLEAN
   
        PROVE  /\ [user EXCEPT ![u].state = st, ![u].active = on, ![u].role = ro] \in [Names -> LoginRows]
           /\ [user EXCEPT ![u].active = on] \in [Names -> LoginRows]
           /\ [user EXCEPT ![u].role = ro] \in [Names -> LoginRows]
           /\ [user EXCEPT ![u].person = pe] \in [Names -> LoginRows]
           /\ [user EXCEPT ![u].state = st, ![u].person = pe] \in [Names -> LoginRows]
  <1>1. user \in [Names -> LoginRows] /\ user[u] \in LoginRows BY DEF TablesOK
  <1>2. /\ [user[u] EXCEPT !.state = st, !.active = on, !.role = ro] \in LoginRows
        /\ [user[u] EXCEPT !.active = on] \in LoginRows /\ [user[u] EXCEPT !.role = ro] \in LoginRows
        /\ [user[u] EXCEPT !.person = pe] \in LoginRows
        /\ [user[u] EXCEPT !.state = st, !.person = pe] \in LoginRows
    BY <1>1 DEF LoginRows
  <1> QED BY <1>1, <1>2

\* A login is created only once, and no request changes what it is called by.
LEMMA BeginOK ==
    ASSUME DirInv, NEW h \in Handlers, NEW kind \in PushKinds, NEW u \in Names, NEW on \in BOOLEAN,
           NEW pc \in {"insert", "setActive"}, Directory!Begin(h, kind, u, on, pc), UNCHANGED <<Directory!rows, roleMap, drift>>
    PROVE  DirInv'
  <1> DEFINE r == [Directory!Idle EXCEPT !.pc = pc, !.kind = kind, !.user = u, !.on = on, !.linked = IF user[u].person THEN "yes" ELSE "no"]
  <1>1. user[u].person \in BOOLEAN BY DEF DirInv, TablesOK, LoginRows
  <1>2. Directory!Idle \in Pushes BY IdleOK DEF PushOK
  <1>3. r \in Pushes /\ r.pc = pc /\ r.user = u
    BY <1>1, <1>2 DEF Pushes, Directory!Stages, LoginStages
  <1>4. PushOK(r) BY <1>3 DEF PushOK, LoginStages
  <1>5. call' = [call EXCEPT ![h] = r] BY DEF Directory!Begin
  <1> HIDE DEF r
  <1>6. PushesOK' BY <1>4, <1>5, ReqPut DEF DirInv
  <1>7. TablesOK' BY DEF DirInv, TablesOK, Directory!Begin, Directory!rows
  <1>8. Directory!TypeOK'
    BY <1>6 DEF DirInv, Directory!TypeOK, Directory!rows, PushesOK, Pushes, Directory!Live
  <1>9. ASSUME NEW g \in Handlers, Linking(g)' PROVE person'[call'[g].user] # "none"
    <2>1. call'[g] = call[g] BY <1>3, <1>5, <1>9 DEF DirInv, PushesOK, Linking
    <2> QED BY <2>1, <1>9 DEF DirInv, Directory!rows, Linking
  <1> QED BY <1>6, <1>7, <1>8, <1>9 DEF DirInv

\* DirInv is kept by a step of a request about a login ...
LEMMA UserStep ==
    ASSUME DirInv, NEW h \in Handlers, NEW r, PushOK(r), call' = [call EXCEPT ![h] = r],
           UNCHANGED <<group, members, roleMap, drift, clash>>,
           user' \in [Names -> LoginRows], person' \in [Names -> {"none", "active", "archived"}],
           \A u \in Names : person[u] # "none" => person'[u] # "none",
           \A u \in Names : user'[u].person => user[u].person \/ person'[u] # "none",
           \A u \in Names : user[u].state = "live" => user'[u].state = "live",
           (r.pc = "link" /\ r.linked # "gone") => person'[r.user] # "none"
    PROVE  DirInv'
  <1>1. TablesOK' BY DEF DirInv, TablesOK
  <1>2. Directory!Live \subseteq Directory!Live' BY DEF Directory!Live
  <1>3. PushesOK' BY ReqPut DEF DirInv
  <1>4. \A u \in Names : user'[u].person => person'[u] # "none"
    <2>1. Directory!TypeOK BY DEF DirInv
    <2>2. ASSUME NEW u \in Names, user[u].person PROVE person[u] # "none"
      BY <2>1, <2>2 DEF Directory!TypeOK
    <2> QED BY <2>2
  <1>5. Directory!TypeOK'
    BY <1>2, <1>3, <1>4 DEF DirInv, Directory!TypeOK, PushesOK, Pushes, LoginRows
  <1>6. ASSUME NEW g \in Handlers, Linking(g)' PROVE person'[call'[g].user] # "none"
    <2>1. CASE g = h BY <2>1, <1>6 DEF DirInv, PushesOK, Linking
    <2>2. CASE g # h
      <3>1. call'[g] = call[g] BY <2>2 DEF DirInv, PushesOK
      <3>2. call[g].user \in Names BY <3>1, <1>6 DEF DirInv, PushesOK, PushOK, LoginStages, Linking
      <3> QED BY <3>1, <3>2, <1>6 DEF DirInv, Linking
    <2> QED BY <2>1, <2>2
  <1> QED BY <1>1, <1>3, <1>5, <1>6 DEF DirInv

\* ... and by one that leaves the users alone.
LEMMA GroupStep ==
    ASSUME DirInv, PushesOK', UNCHANGED <<user, person, clash>>, drift' \subseteq Names, roleMap' \in RoleMaps,
           group' \in [Pair -> GroupNames \cup {None}], members' \in [Pair -> SUBSET Names],
           \A g \in Pair : members'[g] \subseteq Directory!Live /\ (group'[g] = None => members'[g] = {}),
           \A g, k \in Pair : (group'[g] # None /\ g # k) => group'[g] # group'[k],
           \A k \in Handlers : Linking(k)' => person'[call'[k].user] # "none"
    PROVE  DirInv'
  <1>1. TablesOK' BY DEF DirInv, TablesOK
  <1>2. Directory!Live' = Directory!Live BY DEF Directory!Live
  <1>3. Directory!TypeOK' BY <1>2 DEF DirInv, Directory!TypeOK, PushesOK, Pushes
  <1> QED BY <1>1, <1>3 DEF DirInv

\* What a step of such a request makes of it.
LEMMA MoveOK ==
    ASSUME DirInv, NEW h \in Handlers, call[h].pc \in LoginStages,
           NEW pc \in LoginStages, Directory!Goto(h, pc)
    PROVE  \E r : PushOK(r) /\ r = [call[h] EXCEPT !.pc = pc] /\ r.pc = pc /\ r.user = call[h].user
                 /\ call' = [call EXCEPT ![h] = r]
  <1> DEFINE r == [call[h] EXCEPT !.pc = pc]
  <1>1. call[h] \in Pushes /\ PushOK(call[h]) BY DEF DirInv, PushesOK
  <1>2. r \in Pushes /\ r.pc = pc /\ r.user = call[h].user
    BY <1>1 DEF Pushes, LoginStages, Directory!Stages
  <1>3. PushOK(r)
    BY <1>1, <1>2 DEF PushOK, LoginStages
  <1>4. call' = [call EXCEPT ![h] = r] BY <1>1 DEF Directory!Goto, DirInv, PushesOK
  <1> QED BY <1>2, <1>3, <1>4

LEMMA LoginTypes ==
    ASSUME DirInv, NEW h \in Handlers,
           \/ Directory!CreateRead(h) \/ Directory!CreateInsert(h) \/ Directory!ReplaceRead(h) \/ Directory!PatchRead(h)
           \/ Directory!DeactivateRead(h) \/ Directory!SetUserActive(h) \/ Directory!WriteStatus(h)
           \/ Directory!UpsertPerson(h) \/ Directory!SetLink(h)
    PROVE  DirInv'
  <1> DEFINE u == call[h].user
  <1>0. PushOK(call[h]) /\ call[h] \in Pushes /\ call[h].on \in BOOLEAN /\ PushesOK
    BY DEF DirInv, PushesOK, Pushes
  <1>a. /\ user \in [Names -> LoginRows] /\ person \in [Names -> {"none", "active", "archived"}]
        /\ \A v \in Names : user[v] \in LoginRows
    BY DEF DirInv, TablesOK
  <1>b. PushOK(Directory!Idle) /\ Directory!Idle.pc = "idle" BY IdleOK DEF Directory!Idle
  <1>1. CASE Directory!CreateRead(h)
    <2>1. PICK v \in Names, on \in BOOLEAN : Directory!Begin(h, "create", v, on, "insert")
      BY <1>1 DEF Directory!CreateRead
    <2> QED BY <2>1, <1>1, BeginOK DEF Directory!CreateRead, LoginStages, PushKinds
  <1>2. CASE Directory!CreateInsert(h)
    <2>1. u \in Names /\ Directory!At(h, "insert")
      BY <1>2, <1>0 DEF Directory!CreateInsert, Directory!At, PushOK, LoginStages
    <2>2. CASE user[u].state # "none"
      <3>1. call' = [call EXCEPT ![h] = Directory!Idle] /\ UNCHANGED user
        BY <1>2, <2>2 DEF Directory!CreateInsert, Directory!End
      <3> QED BY <1>2, <1>a, <1>b, <3>1, UserStep DEF Directory!CreateInsert
    <2>3. CASE user[u].state = "none"
      <3>1. /\ user' = [user EXCEPT ![u].state = "live", ![u].active = TRUE, ![u].role = ViewerRole]
            /\ Directory!Goto(h, IF call[h].on THEN "person" ELSE "setActive")
        BY <1>2, <2>3 DEF Directory!CreateInsert
      <3>2. PICK r : PushOK(r) /\ call' = [call EXCEPT ![h] = r] /\ r.pc \in {"person", "setActive"}
        BY <3>1, <2>1, MoveOK DEF Directory!At, LoginStages
      <3>3. user' \in [Names -> LoginRows] BY <3>1, <2>1, RowPut DEF DirInv, Directory!RoleNames
      <3>4. \A v \in Names : user'[v].person = user[v].person /\ (user[v].state = "live" => user'[v].state = "live")
        BY <3>1, <2>1, <1>a DEF LoginRows
      <3> QED BY <1>2, <1>a, <3>2, <3>3, <3>4, UserStep DEF Directory!CreateInsert
    <2> QED BY <2>2, <2>3
  <1>3. CASE Directory!ReplaceRead(h)
    <2>1. PICK v \in Directory!Live, on \in BOOLEAN : Directory!Begin(h, "replace", v, on, "setActive")
      BY <1>3 DEF Directory!ReplaceRead
    <2> QED BY <2>1, <1>3, BeginOK DEF Directory!ReplaceRead, LoginStages, Directory!Live, PushKinds
  <1>4. CASE Directory!PatchRead(h)
    <2>1. PICK v \in Directory!Live, on \in BOOLEAN : Directory!Begin(h, "patch", v, on, "setActive")
      BY <1>4 DEF Directory!PatchRead
    <2> QED BY <2>1, <1>4, BeginOK DEF Directory!PatchRead, LoginStages, Directory!Live, PushKinds
  <1>5. CASE Directory!DeactivateRead(h)
    <2>1. PICK v \in Directory!Live : Directory!Begin(h, "delete", v, FALSE, "setActive")
      BY <1>5 DEF Directory!DeactivateRead
    <2> QED BY <2>1, <1>5, BeginOK
       DEF Directory!DeactivateRead, LoginStages, Directory!Live, PushKinds
  <1>6. CASE Directory!SetUserActive(h)
    <2>1. u \in Names /\ Directory!At(h, "setActive")
      BY <1>6, <1>0 DEF Directory!SetUserActive, Directory!At, PushOK, LoginStages
    <2>2. PICK r : PushOK(r) /\ call' = [call EXCEPT ![h] = r] /\ r.pc \in {"person", "status"}
      BY <1>6, <2>1, MoveOK DEF Directory!SetUserActive, Directory!At, LoginStages
    <2>3. user' = user \/ user' = [user EXCEPT ![u].active = call[h].on]
      BY <1>6 DEF Directory!SetUserActive
    <2>4. [user EXCEPT ![u].active = call[h].on] \in [Names -> LoginRows]
      BY <2>1, <1>0, RowPut DEF DirInv, Directory!RoleNames
    <2>5. user' \in [Names -> LoginRows] BY <2>3, <2>4, <1>a
    <2>6. \A v \in Names : user'[v].person = user[v].person /\ user'[v].state = user[v].state
      BY <2>3, <2>1, <1>a DEF LoginRows
    <2> QED BY <1>6, <1>a, <2>2, <2>5, <2>6, UserStep DEF Directory!SetUserActive
  <1>7. CASE Directory!WriteStatus(h)
    <2>1. u \in Names /\ Directory!At(h, "status")
      BY <1>7, <1>0 DEF Directory!WriteStatus, Directory!At, PushOK, LoginStages
    <2>2. Directory!End(h) \/ Directory!Goto(h, "person") BY <1>7 DEF Directory!WriteStatus
    <2>3. person' = [person EXCEPT ![u] = Directory!Status(call[h].on)] \/ person' = person
      BY <1>7 DEF Directory!WriteStatus
    <2>4. PICK r : PushOK(r) /\ call' = [call EXCEPT ![h] = r] /\ r.pc # "link"
      BY <2>2, <2>1, <1>b, MoveOK DEF Directory!At, LoginStages, Directory!End
    <2>5. /\ person' \in [Names -> {"none", "active", "archived"}]
          /\ \A v \in Names : person[v] # "none" => person'[v] # "none"
      BY <2>1, <2>3, <1>a DEF Directory!Status
    <2> QED BY <1>7, <1>a, <2>4, <2>5, UserStep DEF Directory!WriteStatus
  <1>8. CASE Directory!UpsertPerson(h)
    <2>1. u \in Names /\ Directory!At(h, "person")
      BY <1>8, <1>0 DEF Directory!UpsertPerson, Directory!At, PushOK, LoginStages
    <2>2. PICK r : PushOK(r) /\ call' = [call EXCEPT ![h] = r] /\ r.user = u
      BY <1>8, <2>1, MoveOK DEF Directory!UpsertPerson, Directory!At, LoginStages
    <2>3. person' = [person EXCEPT ![u] = Directory!Status(call[h].on)]
      BY <1>8 DEF Directory!UpsertPerson
    <2>4. /\ person' \in [Names -> {"none", "active", "archived"}] /\ person'[u] # "none"
          /\ \A v \in Names : person[v] # "none" => person'[v] # "none"
      BY <2>1, <2>3, <1>a DEF Directory!Status
    <2> QED BY <1>8, <1>a, <2>2, <2>4, UserStep DEF Directory!UpsertPerson
  <1>9. CASE Directory!SetLink(h)
    <2>1. /\ u \in Names /\ Directory!At(h, "link")
          /\ call[h].linked # "gone" => person[u] # "none"
      BY <1>9, <1>0 DEF Directory!SetLink, Directory!At, PushOK, LoginStages, DirInv, Linking
    <2>2. call' = [call EXCEPT ![h] = Directory!Idle] BY <1>9 DEF Directory!SetLink, Directory!End
    <2>3. user' = user \/ (call[h].linked # "gone" /\ user' = [user EXCEPT ![u].person = TRUE])
      BY <1>9 DEF Directory!SetLink
    <2>4. [user EXCEPT ![u].person = TRUE] \in [Names -> LoginRows]
      BY <2>1, RowPut DEF DirInv, Directory!RoleNames
    <2>5. user' \in [Names -> LoginRows] BY <2>3, <2>4, <1>a
    <2>6. \A v \in Names : /\ user'[v].state = user[v].state
                          /\ user'[v].person => user[v].person \/ (v = u /\ call[h].linked # "gone")
      BY <2>3, <2>1, <1>a DEF LoginRows
    <2>7. \A v \in Names : user'[v].person => user[v].person \/ person'[v] # "none"
      BY <2>1, <2>6, <1>9 DEF Directory!SetLink
    <2>8. UNCHANGED <<person, group, members, roleMap, drift, clash>> BY <1>9 DEF Directory!SetLink
    <2>9. \A v \in Names : user[v].state = "live" => user'[v].state = "live" BY <2>1, <2>3, <1>a DEF LoginRows
    <2>10. /\ person' \in [Names -> {"none", "active", "archived"}]
           /\ \A v \in Names : person[v] # "none" => person'[v] # "none"
      BY <2>8, <1>a
    <2>11. PICK r : r = Directory!Idle OBVIOUS
    <2>12. PushOK(r) /\ call' = [call EXCEPT ![h] = r] /\ r.pc = "idle" BY <1>b, <2>2, <2>11
    <2> QED BY <2>5, <2>7, <2>8, <2>9, <2>10, <2>12, UserStep
  <1> QED BY <1>1, <1>2, <1>3, <1>4, <1>5, <1>6, <1>7, <1>8, <1>9

\* The requests at work lose their certainty.
LEMMA UncertainOK ==
    ASSUME PushesOK
    PROVE  /\ Directory!Uncertain \in [Handlers -> Pushes]
           /\ \A k \in Handlers : PushOK(Directory!Uncertain[k])
           /\ \A k \in Handlers :
                /\ Directory!Uncertain[k].pc = call[k].pc
                /\ call[k].pc # "idle" => /\ Directory!Uncertain[k] = [call[k] EXCEPT !.alone = FALSE]
                                         /\ ~Directory!Uncertain[k].alone
                                         /\ Directory!Uncertain[k].user = call[k].user
                                         /\ Directory!Uncertain[k].todo = call[k].todo
                                         /\ Directory!Uncertain[k].linked = call[k].linked
  <1> SUFFICES ASSUME NEW k \in Handlers
               PROVE  /\ Directory!Uncertain[k] \in Pushes /\ PushOK(Directory!Uncertain[k])
                      /\ Directory!Uncertain[k].pc = call[k].pc
                      /\ call[k].pc # "idle" => /\ Directory!Uncertain[k] = [call[k] EXCEPT !.alone = FALSE]
                                               /\ ~Directory!Uncertain[k].alone
                                               /\ Directory!Uncertain[k].user = call[k].user
                                               /\ Directory!Uncertain[k].todo = call[k].todo
                                               /\ Directory!Uncertain[k].linked = call[k].linked
    BY DEF Directory!Uncertain
  <1>1. PushOK(call[k]) /\ call[k] \in Pushes BY DEF PushesOK
  <1>2. CASE call[k].pc = "idle"
    <2>1. Directory!Uncertain[k] = Directory!Idle BY <1>2 DEF Directory!Uncertain, Directory!At
    <2> QED BY <2>1, <1>2, IdleOK DEF Directory!Idle, PushOK
  <1>3. CASE call[k].pc # "idle"
    <2> DEFINE r == [call[k] EXCEPT !.alone = FALSE]
    <2>1. Directory!Uncertain[k] = r BY <1>3 DEF Directory!Uncertain, Directory!At
    <2>2. /\ r \in Pushes /\ r.pc = call[k].pc /\ r.user = call[k].user /\ r.todo = call[k].todo
          /\ r.linked = call[k].linked /\ r.group = call[k].group /\ r.role = call[k].role /\ ~r.alone
      BY <1>1 DEF Pushes
    <2>3. PushOK(r) BY <1>1, <2>2 DEF PushOK
    <2> QED BY <2>1, <2>2, <2>3
  <1> QED BY <1>2, <1>3

\* What a request about groups has when it begins.
LEMMA BeginGroupOK ==
    ASSUME PushesOK, NEW h \in Handlers, NEW kind \in PushKinds, NEW g \in Pair, NEW us \in SUBSET Names,
           NEW pc \in {"members", "drop"}, Directory!BeginGroup(h, kind, g, us, pc)
    PROVE  /\ PushesOK'
           /\ call'[h].pc = pc /\ call'[h].todo = us /\ call'[h].group = g /\ call'[h].kind = kind
           /\ call'[h].alone = (Directory!Others(h) = {})
           /\ \A k \in Handlers \ {h} : call'[k] = Directory!Uncertain[k]
  <1> DEFINE r == [Directory!Idle EXCEPT !.pc = pc, !.kind = kind, !.group = g, !.todo = us, !.alone = Directory!Others(h) = {}]
  <1>1. call' = [Directory!Uncertain EXCEPT ![h] = r] BY DEF Directory!BeginGroup
  <1>2. Directory!Idle \in Pushes BY IdleOK DEF PushOK
  <1>3. /\ r \in Pushes /\ r.pc = pc /\ r.group = g /\ r.todo = us /\ r.kind = kind
        /\ r.alone = (Directory!Others(h) = {})
    BY <1>2 DEF Pushes, Directory!Stages
  <1>4. PushOK(r) BY <1>3 DEF PushOK, LoginStages
  <1> HIDE DEF r
  <1>5. call' \in [Handlers -> Pushes] /\ call'[h] = r /\ \A k \in Handlers \ {h} : call'[k] = Directory!Uncertain[k]
    BY <1>1, <1>3, UncertainOK
  <1>6. \A k \in Handlers : PushOK(call'[k]) BY <1>4, <1>5, UncertainOK
  <1>7. PushesOK' BY <1>5, <1>6 DEF PushesOK, PushOK
  <1> QED BY <1>3, <1>5, <1>7

LEMMA NoLink ==
    ASSUME DirInv, PushesOK', NEW h \in Handlers, call'[h].pc # "link",
           \A k \in Handlers \ {h} : call'[k] = Directory!Uncertain[k] \/ call'[k] = call[k], UNCHANGED person
    PROVE  \A k \in Handlers : Linking(k)' => person'[call'[k].user] # "none"
  BY UncertainOK DEF DirInv, Linking

LEMMA GroupTypes ==
    ASSUME DirInv, GroupNamesOK, NEW h \in Handlers,
           \/ Directory!CreateGroup(h) \/ Directory!SetMembers(h) \/ Directory!RefuseMember(h) \/ Directory!ReplaceGroup(h) \/ Directory!PatchGroup(h)
           \/ Directory!DeleteGroupRead(h) \/ Directory!DeleteGroup(h)
           \/ Directory!RecomputeRead(h) \/ Directory!RecomputeRoles(h)
    PROVE  DirInv'
  <1>0. PushOK(call[h]) /\ call[h] \in Pushes /\ PushesOK
    BY DEF DirInv, PushesOK, Pushes
  <1>a. /\ group \in [Pair -> GroupNames \cup {None}] /\ members \in [Pair -> SUBSET Names]
        /\ drift \subseteq Names /\ roleMap \in RoleMaps
        /\ \A g \in Pair : members[g] \subseteq Directory!Live /\ (group[g] = None => members[g] = {})
        /\ \A g, k \in Pair : (group[g] # None /\ g # k) => group[g] # group[k]
    BY DEF DirInv, TablesOK, Directory!TypeOK
  <1>1. CASE Directory!CreateGroup(h)
    <2>1. PICK g \in Pair, n \in GroupNames, us \in SUBSET Directory!Live :
            /\ group[g] = None /\ \A k \in Pair : group[k] # n
            /\ group' = [group EXCEPT ![g] = n] /\ Directory!BeginGroup(h, "create", g, us, "members")
      BY <1>1 DEF Directory!CreateGroup
    <2>2. us \in SUBSET Names BY DEF Directory!Live
    <2>3. /\ PushesOK' /\ call'[h].pc = "members" /\ \A k \in Handlers \ {h} : call'[k] = Directory!Uncertain[k]
      BY <2>1, <2>2, <1>0, BeginGroupOK DEF PushKinds
    <2>4. \A k \in Handlers : Linking(k)' => person'[call'[k].user] # "none"
      BY <1>1, <2>3, NoLink DEF Directory!CreateGroup
    <2>5. /\ group' \in [Pair -> GroupNames \cup {None}]
          /\ \A k \in Pair : members[k] \subseteq Directory!Live /\ (group'[k] = None => members[k] = {})
          /\ \A k, l \in Pair : (group'[k] # None /\ k # l) => group'[k] # group'[l]
      BY <2>1, <1>a
    <2>6. drift' \subseteq Names BY <1>1, <1>a DEF Directory!CreateGroup, Directory!Overlapped
    <2> QED BY <1>1, <1>a, <2>3, <2>4, <2>5, <2>6, GroupStep DEF Directory!CreateGroup
  <1>2. CASE Directory!SetMembers(h)
    <2>1. Directory!At(h, "members") /\ call[h].group \in Pair
      BY <1>2, <1>0 DEF Directory!SetMembers, Directory!At, PushOK
    <2>2. CASE group[call[h].group] = None
      <3>1. Directory!End(h) /\ UNCHANGED members BY <1>2, <2>2 DEF Directory!SetMembers
      <3>2. PushesOK' BY <3>1, <1>0, EndOK
      <3>3. call'[h].pc # "link" /\ \A k \in Handlers \ {h} : call'[k] = call[k]
        BY <3>1, <1>0 DEF Directory!End, Directory!Idle, PushesOK
      <3>4. \A k \in Handlers : Linking(k)' => person'[call'[k].user] # "none"
        BY <1>2, <3>2, <3>3, NoLink DEF Directory!SetMembers
      <3> QED BY <1>2, <1>a, <3>1, <3>2, <3>4, GroupStep DEF Directory!SetMembers
    <2>3. CASE group[call[h].group] # None
      <3>1. /\ members' = [members EXCEPT ![call[h].group] = Directory!Wanted(h)]
            /\ call' = [call EXCEPT ![h].pc = "recompute", ![h].todo = Directory!Affected(h)]
        BY <1>2, <2>3 DEF Directory!SetMembers
      <3>2. Directory!Wanted(h) \in SUBSET Directory!Live /\ Directory!Affected(h) \in SUBSET Names
        BY <2>1, <2>3, <1>a
           DEF Directory!Wanted, Directory!Affected, Directory!Asked, Directory!Live
      <3>3. PushesOK' /\ call'[h].pc # "link" /\ \A k \in Handlers \ {h} : call'[k] = call[k]
        <4> DEFINE r == [call[h] EXCEPT !.pc = "recompute", !.todo = Directory!Affected(h)]
        <4>1. r \in Pushes /\ r.pc = "recompute" BY <3>2, <1>0 DEF Pushes, Directory!Stages
        <4>2. PushOK(r) BY <4>1 DEF PushOK, LoginStages
        <4>3. call' = [call EXCEPT ![h] = r] BY <3>1, <1>0 DEF PushesOK
        <4> HIDE DEF r
        <4>4. PushesOK' BY <4>2, <4>3, <1>0, ReqPut
        <4> QED BY <4>1, <4>3, <4>4, <1>0 DEF PushesOK
      <3>4. \A k \in Handlers : Linking(k)' => person'[call'[k].user] # "none"
        BY <1>2, <3>3, NoLink DEF Directory!SetMembers
      <3>5. /\ members' \in [Pair -> SUBSET Names]
            /\ \A k \in Pair : members'[k] \subseteq Directory!Live /\ (group[k] = None => members'[k] = {})
        BY <3>1, <3>2, <2>1, <2>3, <1>a DEF Directory!Live
      <3> QED BY <1>2, <1>a, <3>3, <3>4, <3>5, GroupStep DEF Directory!SetMembers
    <2> QED BY <2>2, <2>3
  <1>3. CASE Directory!RefuseMember(h)
    <2>1. /\ Directory!At(h, "members") /\ call[h].group \in Pair /\ group[call[h].group] # None
      BY <1>3, <1>0 DEF Directory!RefuseMember, Directory!At, PushOK
    <2>2. PICK new \in SUBSET Directory!Live :
            /\ members' = [members EXCEPT ![call[h].group] = new]
            /\ drift' = drift \cup (members[call[h].group] \ new) \cup (new \ members[call[h].group])
      <3>1. members[call[h].group] \subseteq Directory!Live BY <2>1, <1>a
      <3> QED BY <3>1, <1>3 DEF Directory!RefuseMember, Directory!Asked
    <2>3. Directory!End(h) BY <1>3 DEF Directory!RefuseMember
    <2>4. PushesOK' BY <2>3, <1>0, EndOK
    <2>5. call'[h].pc # "link" /\ \A k \in Handlers \ {h} : call'[k] = call[k]
      BY <2>3, <1>0 DEF Directory!End, Directory!Idle, PushesOK
    <2>6. \A k \in Handlers : Linking(k)' => person'[call'[k].user] # "none"
      BY <1>3, <2>4, <2>5, NoLink DEF Directory!RefuseMember
    <2>7. /\ members' \in [Pair -> SUBSET Names]
          /\ \A k \in Pair : members'[k] \subseteq Directory!Live /\ (group[k] = None => members'[k] = {})
      BY <2>2, <2>1, <1>a DEF Directory!Live
    <2>8. drift' \subseteq Names BY <2>2, <2>1, <1>a DEF Directory!Live
    <2> QED BY <1>3, <1>a, <2>4, <2>6, <2>7, <2>8, GroupStep DEF Directory!RefuseMember
  <1>4. CASE Directory!ReplaceGroup(h)
    <2>0. Directory!RewriteGroup(h, {"replace"}) BY <1>4 DEF Directory!ReplaceGroup
    <2>1. PICK g \in Pair, n \in GroupNames, us \in SUBSET Directory!Live, k \in {"replace"} :
            /\ Directory!At(h, "idle") /\ group[g] # None /\ \A other \in Pair \ {g} : group[other] # n
            /\ group' = [group EXCEPT ![g] = n] /\ Directory!BeginGroup(h, k, g, us, "members")
            /\ drift' = Directory!Renamed(h, g, n)
            /\ UNCHANGED <<user, person, members, roleMap, outside, deaths, clash>>
      BY <2>0 DEF Directory!RewriteGroup
    <2>2. us \in SUBSET Names /\ k \in PushKinds BY DEF Directory!Live, PushKinds
    <2>3. /\ PushesOK' /\ call'[h].pc = "members" /\ \A l \in Handlers \ {h} : call'[l] = Directory!Uncertain[l]
      BY <2>1, <2>2, <1>0, BeginGroupOK
    <2>4. \A l \in Handlers : Linking(l)' => person'[call'[l].user] # "none"
      BY <2>1, <2>3, NoLink
    <2>5. /\ group' \in [Pair -> GroupNames \cup {None}]
          /\ \A l \in Pair : members[l] \subseteq Directory!Live /\ (group'[l] = None => members[l] = {})
          /\ \A l, m \in Pair : (group'[l] # None /\ l # m) => group'[l] # group'[m]
      BY <2>1, <1>a, GroupNamesOK DEF GroupNamesOK
    <2>6. drift' \subseteq Names BY <2>1, <1>a DEF Directory!Renamed
    <2> QED BY <1>a, <2>1, <2>3, <2>4, <2>5, <2>6, GroupStep
  <1>5. CASE Directory!PatchGroup(h)
    <2>0. Directory!RewriteGroup(h, {"add", "remove", "patch"}) BY <1>5 DEF Directory!PatchGroup
    <2>1. PICK g \in Pair, n \in GroupNames, us \in SUBSET Directory!Live, k \in {"add", "remove", "patch"} :
            /\ Directory!At(h, "idle") /\ group[g] # None /\ \A other \in Pair \ {g} : group[other] # n
            /\ group' = [group EXCEPT ![g] = n] /\ Directory!BeginGroup(h, k, g, us, "members")
            /\ drift' = Directory!Renamed(h, g, n)
            /\ UNCHANGED <<user, person, members, roleMap, outside, deaths, clash>>
      BY <2>0 DEF Directory!RewriteGroup
    <2>2. us \in SUBSET Names /\ k \in PushKinds BY DEF Directory!Live, PushKinds
    <2>3. /\ PushesOK' /\ call'[h].pc = "members" /\ \A l \in Handlers \ {h} : call'[l] = Directory!Uncertain[l]
      BY <2>1, <2>2, <1>0, BeginGroupOK
    <2>4. \A l \in Handlers : Linking(l)' => person'[call'[l].user] # "none"
      BY <2>1, <2>3, NoLink
    <2>5. /\ group' \in [Pair -> GroupNames \cup {None}]
          /\ \A l \in Pair : members[l] \subseteq Directory!Live /\ (group'[l] = None => members[l] = {})
          /\ \A l, m \in Pair : (group'[l] # None /\ l # m) => group'[l] # group'[m]
      BY <2>1, <1>a, GroupNamesOK DEF GroupNamesOK
    <2>6. drift' \subseteq Names BY <2>1, <1>a DEF Directory!Renamed
    <2> QED BY <1>a, <2>1, <2>3, <2>4, <2>5, <2>6, GroupStep
  <1>6. CASE Directory!DeleteGroupRead(h)
    <2>1. PICK g \in Pair : Directory!BeginGroup(h, "drop", g, members[g], "drop")
      BY <1>6 DEF Directory!DeleteGroupRead
    <2>2. members[g] \in SUBSET Names BY <1>a
    <2>3. /\ PushesOK' /\ call'[h].pc = "drop" /\ \A l \in Handlers \ {h} : call'[l] = Directory!Uncertain[l]
      BY <2>1, <2>2, <1>0, BeginGroupOK DEF PushKinds
    <2>4. \A l \in Handlers : Linking(l)' => person'[call'[l].user] # "none"
      BY <1>6, <2>3, NoLink DEF Directory!DeleteGroupRead, Directory!rows
    <2>5. drift' \subseteq Names BY <1>6, <1>a DEF Directory!DeleteGroupRead, Directory!Overlapped
    <2> QED BY <1>6, <1>a, <2>3, <2>4, <2>5, GroupStep DEF Directory!DeleteGroupRead, Directory!rows
  <1>7. CASE Directory!DeleteGroup(h)
    <2>1. Directory!At(h, "drop") /\ call[h].group \in Pair
      BY <1>7, <1>0 DEF Directory!DeleteGroup, Directory!At, PushOK
    <2>2. PushesOK' BY <1>7, <1>0, GotoOK DEF Directory!DeleteGroup, Directory!Stages
    <2>3. call'[h].pc # "link" /\ \A k \in Handlers \ {h} : call'[k] = call[k]
      BY <1>7, <1>0 DEF Directory!DeleteGroup, Directory!Goto, PushesOK, Pushes
    <2>4. \A k \in Handlers : Linking(k)' => person'[call'[k].user] # "none"
      BY <1>7, <2>2, <2>3, NoLink DEF Directory!DeleteGroup
    <2>5. /\ group' \in [Pair -> GroupNames \cup {None}] /\ members' \in [Pair -> SUBSET Names]
          /\ \A k \in Pair : members'[k] \subseteq Directory!Live /\ (group'[k] = None => members'[k] = {})
          /\ \A k, l \in Pair : (group'[k] # None /\ k # l) => group'[k] # group'[l]
      BY <1>7, <2>1, <1>a DEF Directory!DeleteGroup
    <2> QED BY <1>7, <1>a, <2>2, <2>4, <2>5, GroupStep DEF Directory!DeleteGroup
  <1>8. CASE Directory!RecomputeRead(h)
    <2>1. Directory!At(h, "recompute") BY <1>8 DEF Directory!RecomputeRead
    <2>2. PICK r : PushOK(r) /\ call' = [call EXCEPT ![h] = r] /\ r.pc # "link"
      <3>1. CASE Directory!End(h)
        <4>1. PushOK(Directory!Idle) /\ Directory!Idle.pc = "idle" BY IdleOK DEF Directory!Idle
        <4> QED BY <4>1, <3>1 DEF Directory!End
      <3>2. ASSUME NEW u \in call[h].todo, call' = [call EXCEPT ![h].pc = "roles", ![h].user = u, ![h].map = roleMap]
            PROVE  \E r : PushOK(r) /\ call' = [call EXCEPT ![h] = r] /\ r.pc # "link"
        <4> DEFINE r == [call[h] EXCEPT !.pc = "roles", !.user = u, !.map = roleMap]
        <4>1. r \in Pushes /\ r.pc = "roles" /\ r.user \in r.todo
          BY <1>0, <1>a DEF Pushes, Directory!Stages
        <4>2. PushOK(r) BY <4>1 DEF PushOK, LoginStages
        <4>3. call' = [call EXCEPT ![h] = r] BY <3>2, <1>0 DEF PushesOK
        <4> QED BY <4>1, <4>2, <4>3
      <3> QED BY <3>1, <3>2, <1>8 DEF Directory!RecomputeRead
    <2>3. PushesOK' BY <2>2, <1>0, ReqPut
    <2>4. call'[h].pc # "link" /\ \A k \in Handlers \ {h} : call'[k] = call[k]
      BY <2>2, <1>0 DEF PushesOK
    <2>5. \A k \in Handlers : Linking(k)' => person'[call'[k].user] # "none"
      BY <1>8, <2>3, <2>4, NoLink DEF Directory!RecomputeRead, Directory!rows
    <2> QED BY <1>8, <1>a, <2>3, <2>5, GroupStep DEF Directory!RecomputeRead, Directory!rows
  <1>9. CASE Directory!RecomputeRoles(h)
    <2> DEFINE r == [call[h] EXCEPT !.pc = "write", !.role = Directory!RoleFor(call[h].user, call[h].map)]
    <2>1. r \in Pushes /\ r.pc = "write" /\ r.user \in r.todo /\ r.role \in Directory!RoleNames
      BY <1>0, <1>9
         DEF Directory!RecomputeRoles, Directory!At, Pushes, Directory!Stages, Directory!RoleFor,
             Directory!RoleNames, PushOK
    <2>2. PushOK(r) BY <2>1 DEF PushOK, LoginStages
    <2>3. call' = [call EXCEPT ![h] = r] BY <1>9, <1>0 DEF Directory!RecomputeRoles, PushesOK
    <2> HIDE DEF r
    <2>4. PushesOK' BY <2>2, <2>3, <1>0, ReqPut
    <2>5. call'[h].pc # "link" /\ \A k \in Handlers \ {h} : call'[k] = call[k]
      BY <2>1, <2>3, <1>0 DEF PushesOK
    <2>6. \A k \in Handlers : Linking(k)' => person'[call'[k].user] # "none"
      BY <1>9, <2>4, <2>5, NoLink DEF Directory!RecomputeRoles, Directory!rows
    <2> QED BY <1>9, <1>a, <2>4, <2>6, GroupStep DEF Directory!RecomputeRoles, Directory!rows
  <1> QED BY <1>1, <1>2, <1>3, <1>4, <1>5, <1>6, <1>7, <1>8, <1>9

\* The steps that write users beside groups leave the assets alone.
LEMMA WriteStep ==
    ASSUME DirInv, PushesOK', UNCHANGED <<person, group>>, drift' \subseteq Names, clash' \subseteq Names,
           roleMap' \in RoleMaps, user' \in [Names -> LoginRows], members' \in [Pair -> SUBSET Names],
           \A u \in Names : user'[u].person => user[u].person,
           \A g \in Pair : members'[g] \subseteq members[g],
           \A g \in Pair : \A u \in members'[g] : user'[u].state = user[u].state,
           \A k \in Handlers : Linking(k)' => Linking(k) /\ call'[k].user = call[k].user
    PROVE  DirInv'
  <1>1. TablesOK' BY DEF DirInv, TablesOK
  <1>2. \A g \in Pair : members[g] \subseteq Directory!Live /\ (group[g] = None => members[g] = {})
    BY DEF DirInv, Directory!TypeOK
  <1>3. \A g \in Pair : members'[g] \subseteq Directory!Live' /\ (group'[g] = None => members'[g] = {})
    BY <1>2 DEF Directory!Live
  <1>4. \A u \in Names : user'[u].person => person'[u] # "none" BY DEF DirInv, Directory!TypeOK
  <1>5. Directory!TypeOK' BY <1>3, <1>4 DEF DirInv, Directory!TypeOK, PushesOK, Pushes, LoginRows
  <1>6. \A k \in Handlers : Linking(k)' => person'[call'[k].user] # "none" BY DEF DirInv, Linking
  <1> QED BY <1>1, <1>5, <1>6 DEF DirInv

LEMMA OtherTypes ==
    ASSUME DirInv,
           \/ \E h \in Handlers : Directory!RecomputeWrite(h)
           \/ Directory!SetGroupRoleMap \/ Directory!SetRole \/ Directory!ToggleActive \/ Directory!DeleteUser \/ Directory!Crash
    PROVE  DirInv'
  <1>a. /\ user \in [Names -> LoginRows] /\ \A u \in Names : user[u] \in LoginRows
        /\ members \in [Pair -> SUBSET Names] /\ roleMap \in RoleMaps /\ PushesOK
        /\ drift \subseteq Names /\ clash \subseteq Names /\ Directory!Live \subseteq Names
    BY DEF DirInv, TablesOK, Directory!Live
  <1>1. ASSUME NEW h \in Handlers, Directory!RecomputeWrite(h) PROVE DirInv'
    <2> DEFINE u == call[h].user
               r == [call[h] EXCEPT !.pc = "recompute", !.todo = @ \ {u}]
    <2>1. /\ call[h] \in Pushes /\ PushOK(call[h]) /\ call[h].pc = "write"
      BY <1>1, <1>a DEF PushesOK, Directory!RecomputeWrite, Directory!At
    <2>2. u \in Names /\ call[h].role \in Directory!RoleNames BY <2>1 DEF PushOK, Pushes
    <2>3. r \in Pushes /\ r.pc = "recompute" BY <2>1 DEF Pushes, Directory!Stages
    <2>4. PushOK(r) BY <2>3 DEF PushOK, LoginStages
    <2>5. call' = [call EXCEPT ![h] = r] BY <1>1, <1>a DEF Directory!RecomputeWrite, PushesOK
    <2> HIDE DEF r
    <2>6. PushesOK' BY <2>4, <2>5, <1>a, ReqPut
    <2>7. \A k \in Handlers : Linking(k)' => Linking(k) /\ call'[k].user = call[k].user
      BY <2>3, <2>5, <1>a DEF PushesOK, Linking
    <2>8. user' = user \/ user' = [user EXCEPT ![u].role = call[h].role]
      BY <1>1 DEF Directory!RecomputeWrite
    <2>9. [user EXCEPT ![u].role = call[h].role] \in [Names -> LoginRows] BY <2>2, RowPut DEF DirInv
    <2>10. user' \in [Names -> LoginRows] BY <2>8, <2>9, <1>a
    <2>11. \A v \in Names : user'[v].person = user[v].person /\ user'[v].state = user[v].state
      BY <2>8, <2>2, <1>a DEF LoginRows
    <2>12. drift' \subseteq Names BY <1>1, <1>a DEF Directory!RecomputeWrite
    <2>13. UNCHANGED <<person, group, members, roleMap, clash>> BY <1>1 DEF Directory!RecomputeWrite
    <2> QED BY <1>a, <2>6, <2>7, <2>10, <2>11, <2>12, <2>13, WriteStep
  <1>b. ASSUME call' = Directory!Uncertain
        PROVE  /\ PushesOK'
               /\ \A k \in Handlers : Linking(k)' => Linking(k) /\ call'[k].user = call[k].user
    BY <1>a, <1>b, UncertainOK DEF PushesOK, Linking
  <1>2. CASE Directory!SetGroupRoleMap
    <2>1. roleMap' \in RoleMaps BY <1>2, <1>a DEF Directory!SetGroupRoleMap, RoleMaps
    <2>2. call' = Directory!Uncertain /\ drift' = Names /\ UNCHANGED <<person, group, members, user, clash>>
      BY <1>2 DEF Directory!SetGroupRoleMap, Directory!rows
    <2> QED BY <1>a, <1>b, <2>1, <2>2, WriteStep
  <1>3. CASE Directory!SetRole
    <2>1. PICK u \in Directory!Live, r \in Directory!RoleNames : /\ user' = [user EXCEPT ![u].role = r]
                                            /\ drift' = drift \cup {u}
      BY <1>3 DEF Directory!SetRole
    <2>2. user' \in [Names -> LoginRows] BY <2>1, <1>a, RowPut DEF DirInv
    <2>3. \A v \in Names : user'[v].person = user[v].person /\ user'[v].state = user[v].state
      BY <2>1, <1>a DEF LoginRows
    <2>4. drift' \subseteq Names BY <2>1, <1>a
    <2>5. UNCHANGED <<person, group, members, roleMap, call, clash>> BY <1>3 DEF Directory!SetRole
    <2>6. PushesOK' BY <2>5, <1>a DEF PushesOK, PushOK
    <2> QED BY <1>a, <2>2, <2>3, <2>4, <2>5, <2>6, WriteStep DEF Linking
  <1>4. CASE Directory!ToggleActive
    <2>1. PICK u \in Directory!Live : /\ user' = [user EXCEPT ![u].active = ~@]
                            /\ clash' = clash \cup {u}
      BY <1>4 DEF Directory!ToggleActive
    <2>2. user' = [user EXCEPT ![u].active = ~user[u].active] /\ (~user[u].active) \in BOOLEAN
      BY <2>1, <1>a DEF LoginRows
    <2>3. user' \in [Names -> LoginRows] BY <2>2, <1>a, RowPut DEF DirInv, Directory!RoleNames
    <2>4. \A v \in Names : user'[v].person = user[v].person /\ user'[v].state = user[v].state
      BY <2>2, <1>a DEF LoginRows
    <2>5. clash' \subseteq Names BY <2>1, <1>a
    <2>6. UNCHANGED <<person, group, members, roleMap, call, drift>>
      BY <1>4 DEF Directory!ToggleActive
    <2>7. PushesOK' BY <2>6, <1>a DEF PushesOK, PushOK
    <2> QED BY <1>a, <2>3, <2>4, <2>5, <2>6, <2>7, WriteStep DEF Linking
  <1>5. CASE Directory!DeleteUser
    <2>1. PICK u \in Directory!Live : /\ user' = [user EXCEPT ![u].state = "gone", ![u].person = FALSE]
                            /\ members' = [g \in Pair |-> members[g] \ {u}]
                            /\ clash' = clash \cup {u}
      BY <1>5 DEF Directory!DeleteUser
    <2>2. user' \in [Names -> LoginRows] BY <2>1, <1>a, RowPut DEF DirInv, Directory!RoleNames
    <2>3. \A v \in Names : (user'[v].person => user[v].person) /\ (v # u => user'[v].state = user[v].state)
      BY <2>1, <1>a DEF LoginRows
    <2>4. clash' \subseteq Names BY <2>1, <1>a
    <2>5. UNCHANGED <<person, group, roleMap, call, drift>> BY <1>5 DEF Directory!DeleteUser
    <2>6. PushesOK' BY <2>5, <1>a DEF PushesOK, PushOK
    <2>7. members' \in [Pair -> SUBSET Names] BY <2>1, <1>a
    <2>8. \A g \in Pair : members'[g] \subseteq members[g] /\ u \notin members'[g] BY <2>1
    <2>9. \A g \in Pair : \A v \in members'[g] : user'[v].state = user[v].state BY <2>3, <2>7, <2>8
    <2> QED BY <1>a, <2>2, <2>3, <2>4, <2>5, <2>6, <2>7, <2>8, <2>9, WriteStep DEF Linking
  <1>6. CASE Directory!Crash
    <2>1. /\ call' = [h \in Handlers |-> Directory!Idle] /\ drift' = Names /\ clash' = Names
          /\ UNCHANGED <<user, person, group, members, roleMap>>
      BY <1>6 DEF Directory!Crash, Directory!rows
    <2>2. PushesOK' /\ \A k \in Handlers : call'[k].pc = "idle"
      BY <2>1, IdleOK DEF PushesOK, PushOK, Directory!Idle
    <2> QED BY <1>a, <2>1, <2>2, WriteStep DEF Linking
  <1> QED BY <1>1, <1>2, <1>3, <1>4, <1>5, <1>6

LEMMA StutterTypes == ASSUME DirInv, UNCHANGED Directory!vars PROVE DirInv'
  <1>1. PushesOK' BY DEF DirInv, PushesOK, PushOK, Directory!vars
  <1>2. UNCHANGED <<user, person, group, members, roleMap, call, drift, clash>>
    BY DEF Directory!vars, Directory!rows
  <1>3. TablesOK' BY <1>2 DEF DirInv, TablesOK
  <1>4. Directory!TypeOK' BY <1>2 DEF DirInv, Directory!TypeOK, Directory!Live
  <1>5. \A h \in Handlers : Linking(h)' => person'[call'[h].user] # "none" BY <1>2 DEF DirInv, Linking
  <1> QED BY <1>1, <1>3, <1>4, <1>5 DEF DirInv

-----------------------------------------------------------------------------
(* Logins *)

\* Nothing changes for a user ...
LEMMA SameLogin ==
    ASSUME NEW u \in Names, LoginAt(u),
           user'[u].state = user[u].state, user'[u].active = user[u].active, user'[u].person = user[u].person,
           person'[u] = person[u],
           \A k \in Handlers :
             /\ Login(k, u)' = Login(k, u)
             /\ Login(k, u) => /\ call'[k].pc = call[k].pc /\ call'[k].kind = call[k].kind
                               /\ call'[k].on = call[k].on /\ call'[k].linked = call[k].linked
    PROVE  LoginAt(u)'
  <1>1. Alone(u)' BY DEF LoginAt, Alone
  <1>2. ASSUME NEW k \in Handlers, Login(k, u)' PROVE LoginOK(call[k], u)'
    <2>1. Login(k, u) /\ LoginOK(call[k], u) BY <1>2 DEF LoginAt
    <2> QED BY <2>1 DEF LoginOK
  <1>3. (\A k \in Handlers : ~Login(k, u)') => Settled(u)' BY DEF LoginAt, Settled, Directory!Live
  <1> QED BY <1>1, <1>2, <1>3 DEF LoginAt

\* ... by what requests about groups do, or somebody else.
LEMMA LoginSame ==
    ASSUME LoginInv, clash \subseteq clash',
           \A u \in Names : user'[u].person => user[u].person /\ user'[u].state = user[u].state,
           \A u \in Names \ clash' :
             /\ user'[u].state = user[u].state /\ user'[u].active = user[u].active
             /\ user'[u].person = user[u].person /\ person'[u] = person[u],
           \A k \in Handlers :
             \/ call[k].pc \notin LoginStages /\ call'[k].pc \notin LoginStages
             \/ /\ call'[k].pc = call[k].pc /\ call'[k].user = call[k].user /\ call'[k].kind = call[k].kind
                /\ call'[k].on = call[k].on /\ call'[k].linked = call[k].linked
    PROVE  LoginInv'
  <1>1. ASSUME NEW u \in Names \ clash' PROVE LoginAt(u)'
    <2>1. LoginAt(u) BY DEF LoginInv
    <2>2. \A k \in Handlers :
             /\ Login(k, u)' = Login(k, u)
             /\ Login(k, u) => /\ call'[k].pc = call[k].pc /\ call'[k].kind = call[k].kind
                               /\ call'[k].on = call[k].on /\ call'[k].linked = call[k].linked
      BY DEF Login
    <2> QED BY <2>1, <2>2, SameLogin
  <1>2. \A u \in Names : user'[u].person => user'[u].state = "live" BY DEF LoginInv
  <1> QED BY <1>1, <1>2 DEF LoginInv

\* A request about the login of w goes on or ends.
LEMMA LoginMove ==
    ASSUME DirInv, LoginInv, NEW h \in Handlers, NEW w \in Names, call[h].user = w, call[h].pc \in LoginStages,
           NEW r, call' = [call EXCEPT ![h] = r], clash' = clash,
           \A v \in Names \ {w} : user'[v] = user[v] /\ person'[v] = person[v],
           user'[w].person => user'[w].state = "live",
           w \notin clash => (r.pc \in LoginStages /\ LoginOK(r, w)') \/ (r.pc \notin LoginStages /\ Settled(w)'),
           r.pc \in LoginStages => r.user = w
    PROVE  LoginInv'
  <1>0. call'[h] = r /\ \A k \in Handlers \ {h} : call'[k] = call[k] BY DEF DirInv, PushesOK
  <1>1. ASSUME NEW u \in Names \ clash', u # w PROVE LoginAt(u)'
    <2>1. LoginAt(u) BY DEF LoginInv
    <2>2. \A k \in Handlers : Login(k, u)' = Login(k, u) /\ (Login(k, u) => call'[k] = call[k])
      BY <1>0, <1>1 DEF Login
    <2>3. user'[u] = user[u] /\ person'[u] = person[u] BY <1>1
    <2> QED BY <2>1, <2>2, <2>3, SameLogin
  <1>2. ASSUME w \notin clash' PROVE LoginAt(w)'
    <2>1. LoginAt(w) /\ Login(h, w) BY <1>2 DEF LoginInv, Login
    <2>2. \A k \in Handlers \ {h} : ~Login(k, w) BY <2>1 DEF LoginAt, Alone
    <2>3. \A k \in Handlers \ {h} : ~Login(k, w)' BY <2>2, <1>0 DEF Login
    <2>4. CASE r.pc \in LoginStages
      <3>1. Login(h, w)' /\ LoginOK(call[h], w)' BY <2>4, <1>0, <1>2 DEF Login
      <3> QED BY <3>1, <2>3 DEF LoginAt, Alone
    <2>5. CASE r.pc \notin LoginStages
      <3>1. ~Login(h, w)' /\ Settled(w)' BY <2>5, <1>0, <1>2 DEF Login
      <3> QED BY <3>1, <2>3 DEF LoginAt, Alone
    <2> QED BY <2>4, <2>5
  <1>3. \A u \in Names : user'[u].person => user'[u].state = "live" BY DEF LoginInv
  <1> QED BY <1>1, <1>2, <1>3 DEF LoginInv

\* One that begins finds nobody else at work on the login, or it clashes.
LEMMA LoginBegin ==
    ASSUME DirInv, LoginInv, NEW h \in Handlers, NEW kind \in PushKinds, NEW u \in Names, NEW on \in BOOLEAN,
           NEW pc \in {"insert", "setActive"}, Directory!Begin(h, kind, u, on, pc), UNCHANGED <<user, person>>,
           pc = "insert" => user[u].state = "none",
           pc = "setActive" => user[u].state = "live" /\ kind # "create"
    PROVE  LoginInv'
  <1> PICK r : r = [Directory!Idle EXCEPT !.pc = pc, !.kind = kind, !.user = u, !.on = on, !.linked = IF user[u].person THEN "yes" ELSE "no"]
    OBVIOUS
  <1>1. Directory!Idle \in Pushes BY IdleOK DEF PushOK
  <1>2. r.pc = pc /\ r.kind = kind /\ r.user = u /\ r.linked = (IF user[u].person THEN "yes" ELSE "no") BY <1>1 DEF Pushes
  <1>3. call' = [call EXCEPT ![h] = r] /\ call[h].pc = "idle" BY DEF Directory!Begin, Directory!At
  <1>4. call'[h] = r /\ \A k \in Handlers \ {h} : call'[k] = call[k] BY <1>3 DEF DirInv, PushesOK
  <1>5. \A v \in Names : user[v].person => user[v].state = "live" BY DEF LoginInv
  <1>6. LoginOK(r, u)' BY <1>2, <1>5 DEF LoginOK
  <1>7. ASSUME NEW v \in Names \ clash', v # u PROVE LoginAt(v)'
    <2>1. v \notin clash /\ LoginAt(v) BY <1>7 DEF Directory!Begin, LoginInv
    <2>2. \A k \in Handlers : Login(k, v)' = Login(k, v) /\ (Login(k, v) => call'[k] = call[k])
      BY <1>2, <1>3, <1>4, <1>7 DEF Login, LoginStages
    <2> QED BY <2>1, <2>2, SameLogin
  <1>8. ASSUME u \notin clash' PROVE LoginAt(u)'
    <2>1. \A k \in Directory!Others(h) : call[k].user # u BY <1>8 DEF Directory!Begin
    <2>2. \A k \in Handlers \ {h} : ~Login(k, u)
      BY <2>1 DEF Directory!Others, Directory!At, Login, LoginStages
    <2>3. \A k \in Handlers \ {h} : ~Login(k, u)' BY <2>2, <1>4 DEF Login
    <2>4. Login(h, u)' BY <1>2, <1>4 DEF Login, LoginStages
    <2> QED BY <2>3, <2>4, <1>4, <1>6 DEF LoginAt, Alone
  <1> QED BY <1>5, <1>7, <1>8 DEF LoginInv


LEMMA LoginSteps ==
    ASSUME DirInv, LoginInv, NEW h \in Handlers,
           \/ Directory!CreateRead(h) \/ Directory!CreateInsert(h) \/ Directory!ReplaceRead(h) \/ Directory!PatchRead(h)
           \/ Directory!DeactivateRead(h) \/ Directory!SetUserActive(h) \/ Directory!WriteStatus(h)
           \/ Directory!UpsertPerson(h) \/ Directory!SetLink(h)
    PROVE  LoginInv'
  <1>u. PICK u : u = call[h].user OBVIOUS
  <1>0. PushOK(call[h]) /\ call[h] \in Pushes /\ call \in [Handlers -> Pushes]
    BY DEF DirInv, PushesOK
  <1>a. /\ user \in [Names -> LoginRows] /\ person \in [Names -> {"none", "active", "archived"}]
        /\ \A v \in Names : user[v] \in LoginRows
    BY DEF DirInv, TablesOK
  <1>b. /\ \A v \in Names : user[v].person => user[v].state = "live"
        /\ u \in Names \ clash => \A k \in Handlers : Login(k, u) => LoginOK(call[k], u)
    BY DEF LoginInv, LoginAt
  <1>c. Directory!Idle.pc = "idle" BY DEF Directory!Idle
  <1>1. CASE Directory!CreateRead(h)
    <2>1. PICK v \in Names, on \in BOOLEAN : user[v].state = "none" /\ person[v] = "none"
                                              /\ Directory!Begin(h, "create", v, on, "insert")
      BY <1>1 DEF Directory!CreateRead
    <2> QED BY <2>1, <1>1, LoginBegin DEF Directory!CreateRead, PushKinds, Directory!rows
  <1>2. CASE Directory!CreateInsert(h)
    <2>1. u \in Names /\ call[h].pc = "insert"
      BY <1>2, <1>u, <1>0 DEF Directory!CreateInsert, Directory!At, PushOK, LoginStages
    <2>2. u \notin clash => LoginOK(call[h], u) BY <1>b, <2>1, <1>u DEF Login, LoginStages
    <2>3. CASE user[u].state # "none"
      <3>1. call' = [call EXCEPT ![h] = Directory!Idle] /\ UNCHANGED <<user, person, clash>>
        BY <1>2, <1>u, <2>3 DEF Directory!CreateInsert, Directory!End
      <3>2. u \in clash BY <2>1, <2>2, <2>3 DEF LoginOK
      <3> QED BY <1>b, <1>c, <2>1, <3>1, <3>2, <1>u, LoginMove DEF LoginStages
    <2>4. CASE user[u].state = "none"
      <3>1. /\ user' = [user EXCEPT ![u].state = "live", ![u].active = TRUE, ![u].role = ViewerRole]
            /\ Directory!Goto(h, IF call[h].on THEN "person" ELSE "setActive")
            /\ UNCHANGED <<person, clash>>
        BY <1>2, <1>u, <2>4 DEF Directory!CreateInsert
      <3>2. PICK r : /\ r = [call[h] EXCEPT !.pc = IF call[h].on THEN "person" ELSE "setActive"]
                     /\ call' = [call EXCEPT ![h] = r]
        BY <3>1, <1>0 DEF Directory!Goto
      <3>3. /\ r.pc = (IF call[h].on THEN "person" ELSE "setActive") /\ r.user = u /\ r.on = call[h].on
            /\ r.linked = call[h].linked /\ r.on \in BOOLEAN
        BY <3>2, <1>0, <1>u DEF Pushes
      <3>4. /\ user'[u].state = "live" /\ user'[u].active = TRUE /\ user'[u].person = user[u].person
            /\ \A v \in Names \ {u} : user'[v] = user[v]
        BY <3>1, <2>1, <1>a DEF LoginRows
      <3>5. ASSUME u \notin clash PROVE r.pc \in LoginStages /\ LoginOK(r, u)'
        BY <3>5, <2>1, <2>2, <3>3, <3>4 DEF LoginOK, LoginStages
      <3>6. call[h].pc \in LoginStages /\ r.pc \in LoginStages BY <2>1, <3>3 DEF LoginStages
      <3>7. \A v \in Names \ {u} : user'[v] = user[v] /\ person'[v] = person[v] BY <3>1, <3>4
      <3> QED BY <2>1, <3>1, <3>2, <3>3, <3>4, <3>5, <3>6, <3>7, <1>u, LoginMove
    <2> QED BY <2>3, <2>4
  <1>3. CASE Directory!ReplaceRead(h)
    <2>1. PICK v \in Directory!Live, on \in BOOLEAN : Directory!Begin(h, "replace", v, on, "setActive")
      BY <1>3 DEF Directory!ReplaceRead
    <2> QED BY <2>1, <1>3, LoginBegin
       DEF Directory!ReplaceRead, Directory!Live, PushKinds, Directory!rows
  <1>4. CASE Directory!PatchRead(h)
    <2>1. PICK v \in Directory!Live, on \in BOOLEAN : Directory!Begin(h, "patch", v, on, "setActive")
      BY <1>4 DEF Directory!PatchRead
    <2> QED BY <2>1, <1>4, LoginBegin
       DEF Directory!PatchRead, Directory!Live, PushKinds, Directory!rows
  <1>5. CASE Directory!DeactivateRead(h)
    <2>1. PICK v \in Directory!Live : Directory!Begin(h, "delete", v, FALSE, "setActive")
      BY <1>5 DEF Directory!DeactivateRead
    <2> QED BY <2>1, <1>5, LoginBegin
       DEF Directory!DeactivateRead, Directory!Live, PushKinds, Directory!rows
  <1>6. CASE Directory!SetUserActive(h)
    <2>1. u \in Names /\ call[h].pc = "setActive"
      BY <1>6, <1>u, <1>0 DEF Directory!SetUserActive, Directory!At, PushOK, LoginStages
    <2>2. u \notin clash => LoginOK(call[h], u) BY <1>b, <2>1, <1>u DEF Login, LoginStages
    <2> DEFINE next == IF call[h].kind = "create" THEN "person" ELSE "status"
    <2>3. PICK r : r = [call[h] EXCEPT !.pc = next] /\ call' = [call EXCEPT ![h] = r]
      BY <1>6, <1>u, <1>0 DEF Directory!SetUserActive, Directory!Goto
    <2>4. r.pc = next /\ r.user = u /\ r.on = call[h].on /\ r.linked = call[h].linked /\ r.kind = call[h].kind
      BY <2>3, <1>0, <1>u DEF Pushes
    <2>5. user' = user \/ user' = [user EXCEPT ![u].active = call[h].on]
      BY <1>6, <1>u DEF Directory!SetUserActive
    <2>6. /\ user'[u].state = user[u].state /\ user'[u].person = user[u].person
          /\ \A v \in Names \ {u} : user'[v] = user[v]
      BY <2>5, <2>1, <1>a DEF LoginRows
    <2>7. ASSUME u \notin clash PROVE r.pc \in LoginStages /\ LoginOK(r, u)'
      <3>1. user[u].state = "live" BY <2>7, <2>1, <2>2 DEF LoginOK
      <3>2. user' = [user EXCEPT ![u].active = call[h].on]
        BY <3>1, <1>6, <1>u, <2>1 DEF Directory!SetUserActive, Directory!Live
      <3>3. user'[u].active = call[h].on BY <3>2, <2>1, <1>a DEF LoginRows
      <3> QED BY <2>7, <2>1, <2>2, <2>4, <2>6, <3>1, <3>3 DEF LoginOK, LoginStages
    <2>8. UNCHANGED <<person, clash>> BY <1>6, <1>u DEF Directory!SetUserActive
    <2>9. call[h].pc \in LoginStages /\ r.pc \in LoginStages BY <2>1, <2>4 DEF LoginStages
    <2>10. \A v \in Names \ {u} : user'[v] = user[v] /\ person'[v] = person[v] BY <2>6, <2>8
    <2>11. user'[u].person => user'[u].state = "live" BY <1>b, <2>1, <2>6
    <2>12. r.user = u /\ call' = [call EXCEPT ![h] = r] BY <2>3, <2>4
    <2> QED BY <2>1, <2>7, <2>8, <2>9, <2>10, <2>11, <2>12, <1>u, LoginMove
  <1>7. CASE Directory!WriteStatus(h)
    <2>1. u \in Names /\ call[h].pc = "status"
      BY <1>7, <1>u, <1>0 DEF Directory!WriteStatus, Directory!At, PushOK, LoginStages
    <2>2. u \notin clash => LoginOK(call[h], u) BY <1>b, <2>1, <1>u DEF Login, LoginStages
    <2>3. UNCHANGED <<user, clash>> BY <1>7, <1>u DEF Directory!WriteStatus
    <2>4. CASE call[h].linked = "yes"
      <3>1. call' = [call EXCEPT ![h] = Directory!Idle] /\ person' = [person EXCEPT ![u] = Directory!Status(call[h].on)]
        BY <1>7, <1>u, <2>4 DEF Directory!WriteStatus, Directory!End
      <3>2. person'[u] = Directory!Status(call[h].on) /\ \A v \in Names \ {u} : person'[v] = person[v]
        BY <3>1, <2>1, <1>a
      <3>3. u \notin clash => Settled(u)' BY <2>1, <2>2, <2>3, <3>2 DEF Settled, LoginOK
      <3> QED BY <1>b, <1>c, <2>1, <2>3, <3>1, <3>2, <3>3, <1>u, LoginMove DEF LoginStages
    <2>5. CASE call[h].linked # "yes"
      <3>1. person' = person BY <1>7, <1>u, <2>5 DEF Directory!WriteStatus
      <3>2. u \notin clash => ~user[u].person BY <2>1, <2>2, <2>5 DEF LoginOK
      <3>3. CASE Directory!End(h)
        <4>1. u \notin clash => Settled(u)' BY <3>2, <2>3 DEF Settled
        <4> QED BY <1>b, <1>c, <2>1, <2>3, <3>1, <3>3, <4>1, <1>u, LoginMove
           DEF LoginStages, Directory!End
      <3>4. CASE Directory!Goto(h, "person")
        <4>1. PICK r : r = [call[h] EXCEPT !.pc = "person"] /\ call' = [call EXCEPT ![h] = r]
          BY <3>4, <1>0 DEF Directory!Goto
        <4>2. r.pc = "person" /\ r.user = u /\ r.on = call[h].on BY <4>1, <1>0, <1>u DEF Pushes
        <4>3. u \notin clash => LoginOK(r, u)' BY <2>1, <2>2, <2>3, <3>2, <4>2 DEF LoginOK
        <4> QED BY <1>b, <2>1, <2>3, <3>1, <4>1, <4>2, <4>3, <1>u, LoginMove DEF LoginStages
      <3> QED BY <3>3, <3>4, <1>7, <1>u DEF Directory!WriteStatus
    <2> QED BY <2>4, <2>5
  <1>8. CASE Directory!UpsertPerson(h)
    <2>1. u \in Names /\ call[h].pc = "person"
      BY <1>8, <1>u, <1>0 DEF Directory!UpsertPerson, Directory!At, PushOK, LoginStages
    <2>2. u \notin clash => LoginOK(call[h], u) BY <1>b, <2>1, <1>u DEF Login, LoginStages
    <2>3. UNCHANGED <<user, clash>> /\ person' = [person EXCEPT ![u] = Directory!Status(call[h].on)]
      BY <1>8, <1>u DEF Directory!UpsertPerson
    <2>4. PICK r : r = [call[h] EXCEPT !.pc = "link"] /\ call' = [call EXCEPT ![h] = r]
      BY <1>8, <1>u, <1>0 DEF Directory!UpsertPerson, Directory!Goto
    <2>5. r.pc = "link" /\ r.user = u /\ r.on = call[h].on BY <2>4, <1>0, <1>u DEF Pushes
    <2>6. person'[u] = Directory!Status(call[h].on) /\ \A v \in Names \ {u} : person'[v] = person[v]
      BY <2>3, <2>1, <1>a
    <2>7. u \notin clash => LoginOK(r, u)' BY <2>1, <2>2, <2>3, <2>5, <2>6 DEF LoginOK
    <2>8. call[h].pc \in LoginStages /\ r.pc \in LoginStages BY <2>1, <2>5 DEF LoginStages
    <2>9. \A v \in Names \ {u} : user'[v] = user[v] /\ person'[v] = person[v] BY <2>3, <2>6
    <2>10. user'[u].person => user'[u].state = "live" BY <1>b, <2>1, <2>3
    <2> QED BY <2>1, <2>3, <2>4, <2>5, <2>7, <2>8, <2>9, <2>10, <1>u, LoginMove
  <1>9. CASE Directory!SetLink(h)
    <2>1. u \in Names /\ call[h].pc = "link"
      BY <1>9, <1>u, <1>0 DEF Directory!SetLink, Directory!At, PushOK, LoginStages
    <2>2. u \notin clash => LoginOK(call[h], u) BY <1>b, <2>1, <1>u DEF Login, LoginStages
    <2>3. call' = [call EXCEPT ![h] = Directory!Idle] /\ UNCHANGED <<person, clash>>
      BY <1>9, <1>u DEF Directory!SetLink, Directory!End
    <2>4. user' = IF u \in Directory!Live /\ call[h].linked # "gone" THEN [user EXCEPT ![u].person = TRUE] ELSE user
      BY <1>9, <1>u DEF Directory!SetLink
    <2>5. /\ user'[u].state = user[u].state /\ user'[u].active = user[u].active
          /\ \A v \in Names \ {u} : user'[v] = user[v]
          /\ user'[u].person => user[u].person \/ user[u].state = "live"
      BY <2>4, <2>1, <1>a DEF LoginRows, Directory!Live
    <2>6. u \notin clash => Settled(u)' BY <2>1, <2>2, <2>3, <2>5 DEF LoginOK, Settled
    <2> QED BY <1>b, <1>c, <2>1, <2>3, <2>5, <2>6, <1>u, LoginMove DEF LoginStages
  <1> QED BY <1>1, <1>2, <1>u, <1>3, <1>4, <1>5, <1>6, <1>u, <1>7, <1>u, <1>8, <1>u, <1>9, <1>u

LEMMA LoginOthers ==
    ASSUME DirInv, DirInv', LoginInv,
           \/ \E h \in Handlers :
                \/ Directory!CreateGroup(h) \/ Directory!SetMembers(h) \/ Directory!RefuseMember(h) \/ Directory!ReplaceGroup(h) \/ Directory!PatchGroup(h)
                \/ Directory!DeleteGroupRead(h) \/ Directory!DeleteGroup(h)
                \/ Directory!RecomputeRead(h) \/ Directory!RecomputeRoles(h) \/ Directory!RecomputeWrite(h)
           \/ Directory!SetGroupRoleMap \/ Directory!SetRole \/ Directory!ToggleActive \/ Directory!DeleteUser \/ Directory!Crash
    PROVE  LoginInv'
  <1>a. /\ user \in [Names -> LoginRows] /\ \A u \in Names : user[u] \in LoginRows
        /\ call \in [Handlers -> Pushes] /\ PushesOK /\ Directory!Live \subseteq Names
    BY DEF DirInv, TablesOK, Directory!Live, PushesOK
  \* The requests about logins stay as they are ...
  <1> DEFINE Keeps == \A k \in Handlers :
               \/ call[k].pc \notin LoginStages /\ call'[k].pc \notin LoginStages
               \/ /\ call'[k].pc = call[k].pc /\ call'[k].user = call[k].user /\ call'[k].kind = call[k].kind
                  /\ call'[k].on = call[k].on /\ call'[k].linked = call[k].linked
  <1>b. Directory!Uncertain \in [Handlers -> Pushes]
        /\ \A k \in Handlers : \/ call[k].pc = "idle" /\ Directory!Uncertain[k].pc = "idle"
                               \/ Directory!Uncertain[k] = [call[k] EXCEPT !.alone = FALSE]
    BY <1>a, UncertainOK
  <1>c. \A k \in Handlers : \/ call[k].pc = "idle" /\ Directory!Uncertain[k].pc = "idle"
                            \/ /\ Directory!Uncertain[k].pc = call[k].pc /\ Directory!Uncertain[k].user = call[k].user
                               /\ Directory!Uncertain[k].kind = call[k].kind
                               /\ Directory!Uncertain[k].on = call[k].on /\ Directory!Uncertain[k].linked = call[k].linked
    BY <1>a, <1>b DEF Pushes
  <1>d. ASSUME NEW h \in Handlers, call[h].pc \notin LoginStages, call'[h].pc \notin LoginStages,
               \A k \in Handlers \ {h} : call'[k] = call[k] \/ call'[k] = Directory!Uncertain[k]
        PROVE  Keeps
    <2> SUFFICES ASSUME NEW k \in Handlers
                 PROVE  \/ call[k].pc \notin LoginStages /\ call'[k].pc \notin LoginStages
                        \/ /\ call'[k].pc = call[k].pc /\ call'[k].user = call[k].user
                           /\ call'[k].kind = call[k].kind
                           /\ call'[k].on = call[k].on /\ call'[k].linked = call[k].linked
      OBVIOUS
    <2>1. CASE k = h BY <2>1, <1>d
    <2>2. CASE k # h
      <3>1. call'[k] = call[k] \/ call'[k] = Directory!Uncertain[k] BY <2>2, <1>d
      <3> QED BY <3>1, <1>c DEF LoginStages
    <2> QED BY <2>1, <2>2
  <1>e. ASSUME Keeps, UNCHANGED <<person, clash>>, user' \in [Names -> LoginRows],
               \A u \in Names : /\ user'[u].state = user[u].state /\ user'[u].active = user[u].active
                               /\ user'[u].person = user[u].person
        PROVE  LoginInv'
    BY <1>e, LoginSame
  <1> HIDE DEF Keeps
  <1>1. ASSUME NEW h \in Handlers,
               \/ Directory!CreateGroup(h) \/ Directory!ReplaceGroup(h) \/ Directory!PatchGroup(h) \/ Directory!DeleteGroupRead(h)
        PROVE  LoginInv'
    <2>1. UNCHANGED <<user, person, clash>> /\ call[h].pc = "idle"
      BY <1>1
         DEF Directory!CreateGroup, Directory!ReplaceGroup, Directory!PatchGroup,
             Directory!RewriteGroup, Directory!DeleteGroupRead, Directory!rows, Directory!At
    <2>2. ASSUME NEW kind, NEW g, NEW us, NEW pc \in {"members", "drop"}, Directory!BeginGroup(h, kind, g, us, pc)
         
              PROVE  call'[h].pc \in {"members", "drop"} /\ \A k \in Handlers \ {h} : call'[k] = Directory!Uncertain[k]
      <3>1. Directory!Uncertain \in [Handlers -> Pushes] BY <1>b
      <3> QED BY <2>2, <3>1 DEF Directory!BeginGroup, Directory!Idle
    <2>3. ASSUME Directory!CreateGroup(h)
         
              PROVE  call'[h].pc \in {"members", "drop"} /\ \A k \in Handlers \ {h} : call'[k] = Directory!Uncertain[k]
      BY <2>2, <2>3 DEF Directory!CreateGroup
    <2>4. ASSUME Directory!ReplaceGroup(h)
         
              PROVE  call'[h].pc \in {"members", "drop"} /\ \A k \in Handlers \ {h} : call'[k] = Directory!Uncertain[k]
      BY <2>2, <2>4 DEF Directory!ReplaceGroup, Directory!RewriteGroup
    <2>5. ASSUME Directory!PatchGroup(h)
         
              PROVE  call'[h].pc \in {"members", "drop"} /\ \A k \in Handlers \ {h} : call'[k] = Directory!Uncertain[k]
      BY <2>2, <2>5 DEF Directory!PatchGroup, Directory!RewriteGroup
    <2>6. ASSUME Directory!DeleteGroupRead(h)
         
              PROVE  call'[h].pc \in {"members", "drop"} /\ \A k \in Handlers \ {h} : call'[k] = Directory!Uncertain[k]
      BY <2>2, <2>6 DEF Directory!DeleteGroupRead
    <2>7. call'[h].pc \in {"members", "drop"} /\ \A k \in Handlers \ {h} : call'[k] = Directory!Uncertain[k]
      BY <1>1, <2>3, <2>4, <2>5, <2>6
    <2>8. Keeps BY <2>1, <2>7, <1>d DEF LoginStages
    <2> QED BY <2>1, <2>8, <1>a, <1>e
  <1>2. ASSUME NEW h \in Handlers,
               \/ Directory!SetMembers(h) \/ Directory!RefuseMember(h) \/ Directory!DeleteGroup(h)
               \/ Directory!RecomputeRead(h) \/ Directory!RecomputeRoles(h)
        PROVE  LoginInv'
    <2>1. UNCHANGED <<user, person, clash>> /\ call[h].pc \notin LoginStages
      BY <1>2
         DEF Directory!SetMembers, Directory!RefuseMember, Directory!DeleteGroup,
             Directory!RecomputeRead, Directory!RecomputeRoles, Directory!rows, Directory!At,
             LoginStages
    <2>2. PICK r : call' = [call EXCEPT ![h] = r]
      BY <1>2, <1>a
         DEF Directory!SetMembers, Directory!RefuseMember, Directory!DeleteGroup,
             Directory!RecomputeRead, Directory!RecomputeRoles, Directory!End, Directory!Goto
    <2>3. call'[h].pc \in {"idle", "recompute", "roles", "write"}
      <3>1. call[h] \in Pushes BY <1>a
      <3>3. CASE Directory!SetMembers(h)
        BY <3>1, <3>3, <1>a DEF Directory!SetMembers, Directory!End, Directory!Idle, Pushes
      <3>4. CASE Directory!RefuseMember(h)
        BY <3>1, <3>4, <1>a DEF Directory!RefuseMember, Directory!End, Directory!Idle, Pushes
      <3>5. CASE Directory!DeleteGroup(h)
        BY <3>1, <3>5, <1>a DEF Directory!DeleteGroup, Directory!Goto, Pushes
      <3>6. CASE Directory!RecomputeRead(h)
        <4>1. CASE Directory!End(h) BY <4>1, <1>a DEF Directory!End, Directory!Idle
        <4>2. ASSUME NEW u, call' = [call EXCEPT ![h].pc = "roles", ![h].user = u, ![h].map = roleMap]
              PROVE  call'[h].pc = "roles"
          BY <4>2, <3>1, <1>a DEF Pushes
        <4> QED BY <4>1, <4>2, <3>6 DEF Directory!RecomputeRead
      <3>7. CASE Directory!RecomputeRoles(h)
        BY <3>1, <3>7, <1>a DEF Directory!RecomputeRoles, Pushes
      <3> QED BY <1>2, <3>3, <3>4, <3>5, <3>6, <3>7
    <2>4. call'[h].pc \notin LoginStages BY <2>3 DEF LoginStages
    <2>5. Keeps BY <2>1, <2>2, <2>4, <1>a, <1>d
    <2> QED BY <2>1, <2>5, <1>a, <1>e
  <1>3. ASSUME NEW h \in Handlers, Directory!RecomputeWrite(h) PROVE LoginInv'
    <2>1. UNCHANGED <<person, clash>> /\ call[h].pc = "write"
      BY <1>3 DEF Directory!RecomputeWrite, Directory!At
    <2>2. call[h].user \in Names /\ call[h] \in Pushes BY <2>1, <1>a DEF PushesOK, PushOK, Pushes
    <2>3. call' = [call EXCEPT ![h].pc = "recompute", ![h].todo = @ \ {call[h].user}]
      BY <1>3 DEF Directory!RecomputeWrite
    <2>4. call'[h].pc = "recompute" /\ \A k \in Handlers \ {h} : call'[k] = call[k]
      BY <2>2, <2>3, <1>a DEF Pushes
    <2>5. Keeps BY <2>1, <2>4, <1>d DEF LoginStages
    <2>6. user' = user \/ user' = [user EXCEPT ![call[h].user].role = call[h].role]
      BY <1>3 DEF Directory!RecomputeWrite
    <2>7. \A u \in Names : /\ user'[u].state = user[u].state /\ user'[u].active = user[u].active
                          /\ user'[u].person = user[u].person
      BY <2>2, <2>6, <1>a DEF LoginRows
    <2>8. user' \in [Names -> LoginRows] BY DEF DirInv, TablesOK
    <2> QED BY <2>1, <2>5, <2>7, <2>8, <1>e
  <1>4. CASE Directory!SetGroupRoleMap
    <2>1. call' = Directory!Uncertain /\ UNCHANGED <<user, person, clash>>
      BY <1>4 DEF Directory!SetGroupRoleMap, Directory!rows
    <2>2. Keeps BY <2>1, <1>c DEF Keeps, LoginStages
    <2> QED BY <2>1, <2>2, <1>a, <1>e
  <1>5. CASE Directory!SetRole
    <2>1. PICK v \in Directory!Live, r \in Directory!RoleNames : user' = [user EXCEPT ![v].role = r]
      BY <1>5 DEF Directory!SetRole
    <2>2. UNCHANGED <<call, person, clash>> BY <1>5 DEF Directory!SetRole
    <2>3. Keeps BY <2>2 DEF Keeps
    <2>4. \A u \in Names : /\ user'[u].state = user[u].state /\ user'[u].active = user[u].active
                          /\ user'[u].person = user[u].person
      BY <2>1, <1>a DEF LoginRows
    <2>5. user' \in [Names -> LoginRows] BY DEF DirInv, TablesOK
    <2> QED BY <2>2, <2>3, <2>4, <2>5, <1>e
  <1>6. CASE Directory!ToggleActive
    <2>1. PICK v \in Directory!Live : /\ user' = [user EXCEPT ![v].active = ~@]
                            /\ clash' = clash \cup {v}
      BY <1>6 DEF Directory!ToggleActive
    <2>2. UNCHANGED <<call, person>> BY <1>6 DEF Directory!ToggleActive
    <2>3. Keeps BY <2>2 DEF Keeps
    <2>4. \A u \in Names : /\ user'[u].state = user[u].state /\ user'[u].person = user[u].person
                          /\ u # v => user'[u].active = user[u].active
      BY <2>1, <1>a DEF LoginRows
    <2> QED BY <2>1, <2>2, <2>3, <2>4, LoginSame DEF Keeps
  <1>7. CASE Directory!DeleteUser
    <2>1. PICK v \in Directory!Live : /\ user' = [user EXCEPT ![v].state = "gone", ![v].person = FALSE]
                            /\ members' = [g \in Pair |-> members[g] \ {v}]
                            /\ clash' = clash \cup {v}
      BY <1>7 DEF Directory!DeleteUser
    <2>2. UNCHANGED <<call, person>> BY <1>7 DEF Directory!DeleteUser
    <2>3. Keeps BY <2>2 DEF Keeps
    <2>4. ~user'[v].person /\ \A u \in Names : u # v => user'[u] = user[u]
      BY <2>1, <1>a DEF LoginRows
    <2> QED BY <2>1, <2>2, <2>3, <2>4, LoginSame DEF Keeps
  <1>8. CASE Directory!Crash
    <2>1. clash' = Names /\ UNCHANGED user BY <1>8 DEF Directory!Crash, Directory!rows
    <2> QED BY <2>1 DEF LoginInv
  <1> QED BY <1>1, <1>2, <1>3, <1>4, <1>5, <1>6, <1>7, <1>8

-----------------------------------------------------------------------------
(* Roles *)

\* What the groups of a user give him follows from which they are and what they
\* are called.
LEMMA SameRole ==
    ASSUME NEW u, UNCHANGED roleMap, \A g \in Pair : (u \in members'[g]) <=> (u \in members[g]),
           \A g \in Pair : u \in members[g] => group'[g] = group[g]
    PROVE  Directory!RoleFor(u, roleMap)' = Directory!RoleFor(u, roleMap)
  BY DEF Directory!RoleFor

\* A step about logins.
LEMMA RoleLogin ==
    ASSUME DirInv, RoleInv, NEW h \in Handlers, ~Grouping(h), ~Grouping(h)',
           \A k \in Handlers \ {h} : call'[k] = call[k], UNCHANGED <<group, members, roleMap, drift>>,
           \A v \in Names : user[v].state = "gone" => user'[v].state = "gone",
           \A v \in Directory!Live' : (v \in Directory!Live /\ user'[v].role = user[v].role)
                           \/ (v \notin Directory!Live /\ user'[v].role = ViewerRole)
    PROVE  RoleInv'
  <1>1. \A u : Directory!RoleFor(u, roleMap)' = Directory!RoleFor(u, roleMap)
    BY DEF Directory!RoleFor
  <1>2. \A k \in Handlers : Grouping(k)' = Grouping(k) BY DEF Grouping
  <1>3. \A k \in Handlers : Grouping(k) => call'[k] = call[k] OBVIOUS
  <1>4. ASSUME NEW k \in Handlers, Grouping(k), Sure(call[k]) PROVE Sure(call[k])'
    <2>1. call'[k] = call[k] /\ call[k] \in Pushes /\ PushOK(call[k])
      BY <1>3, <1>4 DEF DirInv, PushesOK
    <2>2. call[k].pc = "write" => call[k].user \in Names BY <2>1 DEF PushOK, Pushes
    <2> QED BY <2>1, <2>2, <1>1, <1>4 DEF Sure
  <1>5. ASSUME NEW k \in Handlers PROVE Certain(k)' /\ Doubtful(k)'
    <2>1. Certain(k) /\ Doubtful(k) BY DEF RoleInv
    <2> QED BY <2>1, <1>2, <1>3, <1>4 DEF Certain, Doubtful
  <1>6. ASSUME NEW k \in Handlers PROVE Membership(k)'
    <2>1. Membership(k) BY DEF RoleInv
    <2>2. CASE Grouping(k) BY <2>1, <2>2, <1>3 DEF Membership
    <2>3. CASE ~Grouping(k) BY <2>3, <1>2 DEF Membership, Grouping, GroupStages
    <2> QED BY <2>2, <2>3
  <1>7. ASSUME NEW u \in Directory!Live' \ drift' PROVE Right(u)' \/ Pending(u)'
    <2>1. CASE u \in Directory!Live /\ user'[u].role = user[u].role
      <3>1. Right(u) \/ Pending(u) BY <2>1, <1>7 DEF RoleInv
      <3>2. Right(u) => Right(u)' BY <2>1, <1>1 DEF Right
      <3>3. Pending(u) => Pending(u)'
        <4>1. \A k \in Handlers : call[k].pc \in {"recompute", "roles", "write"} => call'[k] = call[k]
          BY <1>3 DEF Grouping, GroupStages
        <4> QED BY <4>1 DEF Pending
      <3> QED BY <3>1, <3>2, <3>3
    <2>2. CASE u \notin Directory!Live /\ user'[u].role = ViewerRole
      <3>1. \A g \in Pair : u \notin members[g] BY <2>2 DEF DirInv, Directory!TypeOK
      <3>2. Directory!RoleFor(u, roleMap) = ViewerRole BY <3>1 DEF Directory!RoleFor
      <3> QED BY <2>2, <3>2, <1>1 DEF Right
    <2> QED BY <2>1, <2>2, <1>7
  <1> QED BY <1>5, <1>6, <1>7 DEF RoleInv

\* A request about groups begins: the only one, or none is certain.
LEMMA RoleBegin ==
    ASSUME DirInv, RoleInv, NEW h \in Handlers, call[h].pc = "idle", UNCHANGED <<user, members, roleMap>>,
           call'[h].pc \in {"members", "drop"},
           call'[h].pc = "members" => call'[h].kind \in {"create", "replace", "patch", "add", "remove"},
           call'[h].pc = "drop" => call'[h].todo = members[call'[h].group],
           call'[h].alone = (Directory!Others(h) = {}),
           \A k \in Handlers \ {h} : call'[k] = Directory!Uncertain[k],
           Directory!Others(h) # {} => drift' = Names,
           Directory!Others(h) = {} => /\ drift \subseteq drift'
                             /\ \A u \in Names \ drift' : \A g \in Pair :
                                  u \in members[g] => group'[g] = group[g]
    PROVE  RoleInv'
  <1>a. PushesOK /\ Directory!Live \subseteq Names BY DEF DirInv, Directory!Live
  <1>1. CASE Directory!Others(h) = {}
    <2>1. \A k \in Handlers : call[k].pc = "idle" BY <1>1 DEF Directory!Others, Directory!At
    <2>2. \A k \in Handlers \ {h} : call'[k].pc = "idle" BY <2>1, <1>a, UncertainOK
    <2>3. \A k \in Handlers \ {h} : ~Grouping(k)' BY <2>2 DEF Grouping, GroupStages
    <2>4. Sure(call[h])' BY DEF Sure
    <2>5. \A k \in Handlers : Certain(k)' /\ Doubtful(k)' /\ Membership(k)'
      BY <1>1, <2>2, <2>3, <2>4 DEF Certain, Doubtful, Membership
    <2>6. ASSUME NEW u \in Directory!Live' \ drift' PROVE Right(u)'
      <3>1. u \in Directory!Live \ drift BY <2>6, <1>1 DEF Directory!Live
      <3>2. ~Pending(u) BY <2>1 DEF Pending
      <3>3. Right(u) BY <3>1, <3>2 DEF RoleInv
      <3>4. Directory!RoleFor(u, roleMap)' = Directory!RoleFor(u, roleMap)
        BY <3>1, <2>6, <1>1, <1>a, SameRole
      <3> QED BY <3>3, <3>4 DEF Right
    <2> QED BY <2>5, <2>6 DEF RoleInv
  <1>2. CASE Directory!Others(h) # {}
    <2>1. drift' = Names /\ ~call'[h].alone BY <1>2
    <2>2. \A k \in Handlers \ {h} : call'[k].pc = call[k].pc /\ (call[k].pc # "idle" => ~call'[k].alone)
                                   /\ (call[k].pc # "idle" => call'[k].kind = call[k].kind)
      <3> SUFFICES ASSUME NEW k \in Handlers \ {h}
                   PROVE  /\ call'[k].pc = call[k].pc /\ (call[k].pc # "idle" => ~call'[k].alone)
                          /\ (call[k].pc # "idle" => call'[k].kind = call[k].kind)
        OBVIOUS
      <3>1. call'[k] = Directory!Uncertain[k] /\ call[k] \in Pushes BY <1>a DEF PushesOK
      <3>2. /\ Directory!Uncertain[k].pc = call[k].pc
            /\ call[k].pc # "idle" => ~Directory!Uncertain[k].alone /\ Directory!Uncertain[k] = [call[k] EXCEPT !.alone = FALSE]
        BY <1>a, UncertainOK
      <3>3. [call[k] EXCEPT !.alone = FALSE].kind = call[k].kind BY <3>1 DEF Pushes
      <3> QED BY <3>1, <3>2, <3>3
    <2>3. \A k \in Handlers : Grouping(k)' => ~call'[k].alone
      BY <2>1, <2>2 DEF Grouping, GroupStages
    <2>4. \A k \in Handlers : Certain(k)' /\ Doubtful(k)' BY <2>1, <2>3 DEF Certain, Doubtful
    <2>5. \A k \in Handlers : Membership(k)' BY <2>2 DEF Membership, RoleInv
    <2>6. Directory!Live' \subseteq Names BY DEF Directory!Live
    <2> QED BY <2>1, <2>4, <2>5, <2>6 DEF RoleInv
  <1> QED BY <1>1, <1>2

\* A step of a request that is not certain of what it holds ...
LEMMA RoleDoubt ==
    ASSUME DirInv, RoleInv, NEW h \in Handlers, Grouping(h), ~call[h].alone, drift' = Names,
           \A k \in Handlers \ {h} : call'[k] = call[k],
           ~Grouping(h)' \/ ~call'[h].alone, call'[h].pc # "members"
    PROVE  RoleInv'
  <1>1. \A k \in Handlers \ {h} : Grouping(k) => ~call[k].alone BY DEF RoleInv, Certain
  <1>2. \A k \in Handlers : Grouping(k)' => ~call'[k].alone BY <1>1 DEF Grouping
  <1>3. \A k \in Handlers : Certain(k)' /\ Doubtful(k)' BY <1>2 DEF Certain, Doubtful
  <1>4. \A k \in Handlers : Membership(k)' BY DEF Membership, RoleInv
  <1>5. Directory!Live' \subseteq Names BY DEF Directory!Live
  <1> QED BY <1>3, <1>4, <1>5 DEF RoleInv

\* ... and one of the only request about groups.
LEMMA RoleSure ==
    ASSUME DirInv, RoleInv, NEW h \in Handlers, Grouping(h), call[h].alone,
           \A k \in Handlers \ {h} : call'[k] = call[k],
           Grouping(h)' => call'[h].alone /\ Sure(call[h])', call'[h].pc # "members",
           \A u \in Directory!Live' \ drift' :
             \/ Right(u)'
             \/ call'[h].alone /\ call'[h].pc \in {"recompute", "roles", "write"} /\ u \in call'[h].todo
    PROVE  RoleInv'
  <1>1. \A k \in Handlers \ {h} : ~Grouping(k)' BY DEF RoleInv, Certain, Grouping
  <1>2. \A k \in Handlers : Certain(k)' /\ Doubtful(k)' BY <1>1 DEF Certain, Doubtful
  <1>3. \A k \in Handlers : Membership(k)' BY DEF Membership, RoleInv
  <1>4. \A u \in Directory!Live' \ drift' : Right(u)' \/ Pending(u)' BY DEF Pending
  <1> QED BY <1>2, <1>3, <1>4 DEF RoleInv

\* Who is right before such a step.
LEMMA SureRight ==
    ASSUME DirInv, RoleInv, NEW h \in Handlers, Grouping(h), call[h].alone, NEW u \in Directory!Live \ drift
    PROVE  Right(u) \/ (call[h].pc \in {"recompute", "roles", "write"} /\ u \in call[h].todo)
  <1>1. \A k \in Handlers \ {h} : ~Grouping(k) BY DEF RoleInv, Certain
  <1>2. Right(u) \/ Pending(u) BY DEF RoleInv
  <1> QED BY <1>1, <1>2 DEF Pending, Grouping, GroupStages

\* Somebody else writes the row of w, or deletes it.
LEMMA RoleOut ==
    ASSUME DirInv, RoleInv, UNCHANGED <<group, roleMap, call>>, drift \subseteq drift', drift' \subseteq Names,
           NEW w \in Names, \A v \in Names \ {w} : user'[v] = user[v],
           \A g \in Pair : members'[g] \subseteq members[g] /\ members[g] \subseteq members'[g] \cup {w},
           \/ user'[w].state = "gone"
           \/ UNCHANGED members /\ user'[w].state = user[w].state
              /\ (w \in drift' \/ user'[w].role = user[w].role)
    PROVE  RoleInv'
  <1>1. \A u \in Names \ {w} : Directory!RoleFor(u, roleMap)' = Directory!RoleFor(u, roleMap)
    BY DEF Directory!RoleFor
  <1>2. UNCHANGED members => Directory!RoleFor(w, roleMap)' = Directory!RoleFor(w, roleMap)
    BY DEF Directory!RoleFor
  <1>3. ASSUME NEW k \in Handlers, Grouping(k), Sure(call[k]) PROVE Sure(call[k])'
    <2>1. call'[k] = call[k] /\ call[k] \in Pushes /\ PushOK(call[k]) BY DEF DirInv, PushesOK
    <2>2. call[k].pc = "write" => call[k].user \in Names BY <2>1 DEF PushOK, Pushes
    <2>3. call[k].pc = "drop" => call[k].group \in Pair BY <2>1 DEF PushOK
    <2> QED BY <2>1, <2>2, <2>3, <1>1, <1>2, <1>3 DEF Sure
  <1>4. ASSUME NEW k \in Handlers PROVE Certain(k)' /\ Doubtful(k)' /\ Membership(k)'
    <2>1. Certain(k) /\ Doubtful(k) /\ Membership(k) BY DEF RoleInv
    <2>2. \A j \in Handlers : Grouping(j)' = Grouping(j) BY DEF Grouping
    <2>3. Doubtful(k)' BY <2>1, <2>2 DEF Doubtful
    <2>4. Certain(k)' BY <2>1, <2>2, <1>3 DEF Certain
    <2>5. Membership(k)' BY <2>1 DEF Membership
    <2> QED BY <2>3, <2>4, <2>5
  <1>5. ASSUME NEW u \in Directory!Live' \ drift' PROVE Right(u)' \/ Pending(u)'
    <2>1. u \in Names /\ user'[u].state = "live" BY <1>5 DEF Directory!Live
    <2>2. u \in Directory!Live /\ user'[u].role = user[u].role /\ Directory!RoleFor(u, roleMap)' = Directory!RoleFor(u, roleMap)
      BY <2>1, <1>1, <1>2, <1>5 DEF Directory!Live
    <2>3. Right(u) \/ Pending(u) BY <2>2, <1>5 DEF RoleInv
    <2>4. Pending(u)' = Pending(u) BY DEF Pending
    <2>5. Right(u)' = Right(u) BY <2>2 DEF Right
    <2> QED BY <2>3, <2>4, <2>5
  <1> QED BY <1>4, <1>5 DEF RoleInv

LEMMA RoleLogins ==
    ASSUME DirInv, RoleInv, NEW h \in Handlers,
           \/ Directory!CreateRead(h) \/ Directory!CreateInsert(h) \/ Directory!ReplaceRead(h) \/ Directory!PatchRead(h)
           \/ Directory!DeactivateRead(h) \/ Directory!SetUserActive(h) \/ Directory!WriteStatus(h)
           \/ Directory!UpsertPerson(h) \/ Directory!SetLink(h)
    PROVE  RoleInv'
  <1>0. /\ PushOK(call[h]) /\ call[h] \in Pushes /\ call \in [Handlers -> Pushes]
        /\ user \in [Names -> LoginRows] /\ \A v \in Names : user[v] \in LoginRows
    BY DEF DirInv, PushesOK, TablesOK
  <1>1. UNCHANGED <<group, members, roleMap, drift>>
    BY DEF Directory!CreateRead, Directory!CreateInsert, Directory!ReplaceRead,
       Directory!PatchRead, Directory!DeactivateRead, Directory!SetUserActive,
       Directory!WriteStatus,
           Directory!UpsertPerson, Directory!SetLink, Directory!rows
  <1>2. ASSUME \E kind, u, on : \E pc \in {"insert", "setActive"} : Directory!Begin(h, kind, u, on, pc), UNCHANGED user
        PROVE  RoleInv'
    <2>0. PICK kind, u, on : \E pc \in {"insert", "setActive"} : Directory!Begin(h, kind, u, on, pc)
      BY <1>2
    <2>1. PICK pc \in {"insert", "setActive"} : Directory!Begin(h, kind, u, on, pc) BY <2>0
    <2>2. call[h].pc = "idle" /\ call'[h].pc = pc /\ \A k \in Handlers \ {h} : call'[k] = call[k]
      BY <2>1, <1>0 DEF Directory!Begin, Directory!At, Directory!Idle
    <2>3. ~Grouping(h) /\ ~Grouping(h)' BY <2>2 DEF Grouping, GroupStages
    <2> QED BY <1>1, <1>2, <2>2, <2>3, RoleLogin DEF Directory!Live
  <1>3. ASSUME NEW pc \in LoginStages \cup {"idle"}, Directory!Goto(h, pc) \/ Directory!End(h), call[h].pc \in LoginStages
        PROVE  ~Grouping(h) /\ ~Grouping(h)' /\ \A k \in Handlers \ {h} : call'[k] = call[k]
    <2>1. call'[h].pc \in LoginStages \cup {"idle"} /\ \A k \in Handlers \ {h} : call'[k] = call[k]
      BY <1>3, <1>0 DEF Directory!Goto, Directory!End, Directory!Idle, Pushes
    <2> QED BY <2>1, <1>3 DEF Grouping, GroupStages, LoginStages
  <1>4. CASE Directory!CreateRead(h) \/ Directory!ReplaceRead(h) \/ Directory!PatchRead(h) \/ Directory!DeactivateRead(h)
    <2>1. UNCHANGED user
      BY <1>4
         DEF Directory!CreateRead, Directory!ReplaceRead, Directory!PatchRead,
             Directory!DeactivateRead, Directory!rows
    <2>2. CASE Directory!CreateRead(h) BY <2>1, <2>2, <1>2 DEF Directory!CreateRead
    <2>3. CASE Directory!ReplaceRead(h) BY <2>1, <2>3, <1>2 DEF Directory!ReplaceRead
    <2>4. CASE Directory!PatchRead(h) BY <2>1, <2>4, <1>2 DEF Directory!PatchRead
    <2>5. CASE Directory!DeactivateRead(h) BY <2>1, <2>5, <1>2 DEF Directory!DeactivateRead
    <2> QED BY <1>4, <2>2, <2>3, <2>4, <2>5
  <1>5. CASE Directory!CreateInsert(h)
    <2>1. call[h].pc = "insert" /\ call[h].user \in Names
      BY <1>5, <1>0 DEF Directory!CreateInsert, Directory!At, PushOK, LoginStages
    <2>2. Directory!End(h) \/ Directory!Goto(h, "person") \/ Directory!Goto(h, "setActive")
      BY <1>5 DEF Directory!CreateInsert
    <2>3. ~Grouping(h) /\ ~Grouping(h)' /\ \A k \in Handlers \ {h} : call'[k] = call[k]
      BY <2>1, <2>2, <1>3 DEF LoginStages
    <2>4. CASE UNCHANGED user BY <1>1, <2>3, <2>4, RoleLogin DEF Directory!Live
    <2>5. CASE user[call[h].user].state = "none"
      <3>1. user' = [user EXCEPT ![call[h].user].state = "live", ![call[h].user].active = TRUE,
                                 ![call[h].user].role = ViewerRole]
        BY <1>5, <2>5 DEF Directory!CreateInsert
      <3>2. user'[call[h].user].role = ViewerRole /\ \A v \in Names \ {call[h].user} : user'[v] = user[v]
        BY <3>1, <2>1, <1>0 DEF LoginRows
      <3>3. \A v \in Names : user[v].state = "gone" => user'[v].state = "gone" BY <3>2, <2>5
      <3>4. \A v \in Directory!Live' : (v \in Directory!Live /\ user'[v].role = user[v].role)
                            \/ (v \notin Directory!Live /\ user'[v].role = ViewerRole)
        BY <3>2, <2>5 DEF Directory!Live
      <3> QED BY <1>1, <2>3, <3>3, <3>4, RoleLogin
    <2> QED BY <1>5, <2>4, <2>5 DEF Directory!CreateInsert
  <1>6. CASE Directory!SetUserActive(h) \/ Directory!WriteStatus(h) \/ Directory!UpsertPerson(h) \/ Directory!SetLink(h)
    <2>1. call[h].pc \in LoginStages /\ call[h].user \in Names
      BY <1>6, <1>0
         DEF Directory!SetUserActive, Directory!WriteStatus, Directory!UpsertPerson,
             Directory!SetLink, Directory!At, PushOK, LoginStages
    <2>2. Directory!End(h) \/ Directory!Goto(h, "person") \/ Directory!Goto(h, "status") \/ Directory!Goto(h, "link")
      BY <1>6
         DEF Directory!SetUserActive, Directory!WriteStatus, Directory!UpsertPerson,
             Directory!SetLink
    <2>3. ~Grouping(h) /\ ~Grouping(h)' /\ \A k \in Handlers \ {h} : call'[k] = call[k]
      BY <2>1, <2>2, <1>3 DEF LoginStages
    <2>4. \/ user' = user \/ user' = [user EXCEPT ![call[h].user].active = call[h].on]
          \/ user' = [user EXCEPT ![call[h].user].person = TRUE]
      BY <1>6
         DEF Directory!SetUserActive, Directory!WriteStatus, Directory!UpsertPerson,
             Directory!SetLink
    <2>5. \A v \in Names : user'[v].state = user[v].state /\ user'[v].role = user[v].role
      BY <2>1, <2>4, <1>0 DEF LoginRows
    <2> QED BY <1>1, <2>3, <2>5, RoleLogin DEF Directory!Live
  <1> QED BY <1>4, <1>5, <1>6

LEMMA RoleBegins ==
    ASSUME DirInv, RoleInv, NEW h \in Handlers,
           Directory!CreateGroup(h) \/ Directory!ReplaceGroup(h) \/ Directory!PatchGroup(h) \/ Directory!DeleteGroupRead(h)
    PROVE  RoleInv'
  <1>a. /\ PushesOK /\ group \in [Pair -> GroupNames \cup {None}] /\ members \in [Pair -> SUBSET Names]
        /\ \A g \in Pair : group[g] = None => members[g] = {}
    BY DEF DirInv, TablesOK, Directory!TypeOK
  <1>1. CASE Directory!CreateGroup(h)
    <2>1. PICK g \in Pair, n \in GroupNames, us \in SUBSET Directory!Live :
            /\ group[g] = None /\ \A k \in Pair : group[k] # n
            /\ group' = [group EXCEPT ![g] = n] /\ Directory!BeginGroup(h, "create", g, us, "members")
      BY <1>1 DEF Directory!CreateGroup
    <2>2. us \in SUBSET Names BY DEF Directory!Live
    <2>3. /\ call'[h].pc = "members" /\ call'[h].kind = "create" /\ call'[h].alone = (Directory!Others(h) = {})
          /\ \A k \in Handlers \ {h} : call'[k] = Directory!Uncertain[k]
      BY <2>1, <2>2, <1>a, BeginGroupOK DEF PushKinds
    <2>4. \A u \in Names : \A k \in Pair : u \in members[k] => group'[k] = group[k]
      BY <2>1, <1>a
    <2>5. call[h].pc = "idle" /\ UNCHANGED <<user, members, roleMap>>
      BY <1>1 DEF Directory!CreateGroup, Directory!At
    <2>6. drift' = IF Directory!Others(h) = {} THEN drift ELSE Names
      BY <1>1 DEF Directory!CreateGroup, Directory!Overlapped
    <2> QED BY <2>3, <2>4, <2>5, <2>6, RoleBegin
  <1>2. ASSUME NEW kinds \in SUBSET {"replace", "add", "remove", "patch"}, Directory!RewriteGroup(h, kinds)
        PROVE  RoleInv'
    <2>1. PICK g \in Pair, n \in GroupNames, us \in SUBSET Directory!Live, k \in kinds :
            /\ Directory!At(h, "idle") /\ group[g] # None /\ \A other \in Pair \ {g} : group[other] # n
            /\ group' = [group EXCEPT ![g] = n] /\ Directory!BeginGroup(h, k, g, us, "members")
            /\ drift' = Directory!Renamed(h, g, n)
            /\ UNCHANGED <<user, person, members, roleMap, outside, deaths, clash>>
      BY <1>2 DEF Directory!RewriteGroup
    <2>2. us \in SUBSET Names /\ k \in PushKinds /\ k \in {"replace", "add", "remove", "patch"}
      BY DEF Directory!Live, PushKinds
    <2>3. /\ call'[h].pc = "members" /\ call'[h].kind = k /\ call'[h].alone = (Directory!Others(h) = {})
          /\ \A l \in Handlers \ {h} : call'[l] = Directory!Uncertain[l]
      BY <2>1, <2>2, <1>a, BeginGroupOK
    <2>4. Directory!Others(h) # {} => drift' = Names BY <2>1 DEF Directory!Renamed
    <2>5. ASSUME Directory!Others(h) = {}
          PROVE  /\ drift \subseteq drift'
                 /\ \A u \in Names \ drift' : \A l \in Pair : u \in members[l] => group'[l] = group[l]
      <3>1. CASE n = group[g] BY <3>1, <2>1, <2>5, <1>a DEF Directory!Renamed
      <3>2. CASE n # group[g]
        <4>1. drift' = drift \cup members[g] BY <3>2, <2>1, <2>5 DEF Directory!Renamed
        <4> QED BY <4>1, <2>1, <1>a
      <3> QED BY <3>1, <3>2
    <2>6. call[h].pc = "idle" /\ UNCHANGED <<user, members, roleMap>> BY <2>1 DEF Directory!At
    <2> QED BY <2>2, <2>3, <2>4, <2>5, <2>6, RoleBegin
  <1>3. CASE Directory!DeleteGroupRead(h)
    <2>1. PICK g \in Pair : Directory!BeginGroup(h, "drop", g, members[g], "drop")
      BY <1>3 DEF Directory!DeleteGroupRead
    <2>2. members[g] \in SUBSET Names BY <1>a
    <2>3. /\ call'[h].pc = "drop" /\ call'[h].group = g /\ call'[h].todo = members[g]
          /\ call'[h].alone = (Directory!Others(h) = {})
          /\ \A l \in Handlers \ {h} : call'[l] = Directory!Uncertain[l]
      BY <2>1, <2>2, <1>a, BeginGroupOK DEF PushKinds
    <2>4. call[h].pc = "idle" /\ UNCHANGED <<user, group, members, roleMap>>
      BY <1>3 DEF Directory!DeleteGroupRead, Directory!At, Directory!rows
    <2>5. drift' = IF Directory!Others(h) = {} THEN drift ELSE Names
      BY <1>3 DEF Directory!DeleteGroupRead, Directory!Overlapped
    <2> QED BY <2>3, <2>4, <2>5, RoleBegin
  <1> QED BY <1>1, <1>2, <1>3 DEF Directory!ReplaceGroup, Directory!PatchGroup

\* What a request writes of the members, its recomputation covers.
LEMMA CoversOK ==
    ASSUME NEW h \in Handlers, call[h].kind \in {"create", "replace", "patch", "add", "remove"}, NEW u,
           u \notin Directory!Affected(h)
    PROVE  u \in Directory!Wanted(h) <=> u \in members[call[h].group]
  BY DEF Directory!Wanted, Directory!Affected, Directory!Asked

LEMMA RoleGroups ==
    ASSUME DirInv, RoleInv, NEW h \in Handlers,
           \/ Directory!SetMembers(h) \/ Directory!RefuseMember(h) \/ Directory!DeleteGroup(h)
           \/ Directory!RecomputeRead(h) \/ Directory!RecomputeRoles(h) \/ Directory!RecomputeWrite(h)
    PROVE  RoleInv'
  <1>a. /\ PushOK(call[h]) /\ call[h] \in Pushes /\ call \in [Handlers -> Pushes] /\ Directory!Live \subseteq Names
        /\ group \in [Pair -> GroupNames \cup {None}] /\ members \in [Pair -> SUBSET Names]
        /\ \A g \in Pair : members[g] \subseteq Directory!Live
        /\ drift \subseteq Names /\ user \in [Names -> LoginRows] /\ \A u \in Names : user[u] \in LoginRows
    BY DEF DirInv, PushesOK, TablesOK, Directory!TypeOK, Directory!Live
  <1>b. /\ Grouping(h) => (~call[h].alone => drift = Names) /\ (call[h].alone => Sure(call[h]))
        /\ Membership(h)
    BY DEF RoleInv, Certain, Doubtful
  <1>1. CASE Directory!SetMembers(h)
    <2>1. call[h].pc = "members" /\ call[h].group \in Pair /\ Grouping(h)
      BY <1>1, <1>a DEF Directory!SetMembers, Directory!At, PushOK, Grouping, GroupStages
    <2>2. UNCHANGED <<user, group, roleMap, drift>> BY <1>1 DEF Directory!SetMembers
    <2>3. CASE group[call[h].group] = None
      <3>1. Directory!End(h) /\ UNCHANGED members BY <1>1, <2>3 DEF Directory!SetMembers
      <3>2. ~Grouping(h)' /\ call'[h].pc = "idle" /\ \A k \in Handlers \ {h} : call'[k] = call[k]
        BY <3>1, <1>a DEF Directory!End, Directory!Idle, Grouping, GroupStages
      <3>3. CASE ~call[h].alone BY <3>2, <3>3, <2>1, <2>2, <1>b, RoleDoubt
      <3>4. CASE call[h].alone
        <4>1. ASSUME NEW u \in Directory!Live' \ drift' PROVE Right(u)'
          <5>1. u \in Directory!Live \ drift BY <2>2, <4>1 DEF Directory!Live
          <5>2. Right(u) BY <5>1, <2>1, <3>4, SureRight
          <5> QED BY <5>2, <2>2, <3>1 DEF Right, Directory!RoleFor
        <4> QED BY <4>1, <3>2, <3>4, <2>1, RoleSure
      <3> QED BY <3>3, <3>4
    <2>4. CASE group[call[h].group] # None
      <3>1. /\ members' = [members EXCEPT ![call[h].group] = Directory!Wanted(h)]
            /\ call' = [call EXCEPT ![h].pc = "recompute", ![h].todo = Directory!Affected(h)]
        BY <1>1, <2>4 DEF Directory!SetMembers
      <3>2. /\ call'[h].pc = "recompute" /\ call'[h].alone = call[h].alone /\ call'[h].todo = Directory!Affected(h)
            /\ \A k \in Handlers \ {h} : call'[k] = call[k]
        BY <3>1, <1>a DEF Pushes
      <3>3. CASE ~call[h].alone BY <3>2, <3>3, <2>1, <2>2, <1>b, RoleDoubt
      <3>4. CASE call[h].alone
        <4>1. ASSUME NEW u \in Directory!Live' \ drift', u \notin Directory!Affected(h)
              PROVE  Right(u)'
          <5>1. u \in Directory!Live \ drift BY <2>2, <4>1 DEF Directory!Live
          <5>2. Right(u) BY <5>1, <2>1, <3>4, SureRight
          <5>3. call[h].kind \in {"create", "replace", "patch", "add", "remove"}
            BY <2>1, <1>b DEF Membership
          <5>4. u \in Directory!Wanted(h) <=> u \in members[call[h].group] BY <5>3, <4>1, CoversOK
          <5>5. \A g \in Pair : (u \in members'[g]) <=> (u \in members[g]) BY <5>4, <3>1, <2>1, <1>a
          <5>6. Directory!RoleFor(u, roleMap)' = Directory!RoleFor(u, roleMap)
            BY <5>5, <2>2, SameRole
          <5> QED BY <5>2, <5>6, <2>2 DEF Right
        <4>2. Sure(call[h])' BY <3>2 DEF Sure
        <4> QED BY <4>1, <4>2, <3>2, <3>4, <2>1, RoleSure
      <3> QED BY <3>3, <3>4
    <2> QED BY <2>3, <2>4
  <1>2. CASE Directory!RefuseMember(h)
    <2>1. call[h].pc = "members" /\ call[h].group \in Pair /\ Grouping(h)
      BY <1>2, <1>a DEF Directory!RefuseMember, Directory!At, PushOK, Grouping, GroupStages
    <2>2. UNCHANGED <<user, group, roleMap>> BY <1>2 DEF Directory!RefuseMember
    <2>3. PICK new \in SUBSET Directory!Live :
            /\ members' = [members EXCEPT ![call[h].group] = new]
            /\ drift' = drift \cup (members[call[h].group] \ new) \cup (new \ members[call[h].group])
      <3>1. members[call[h].group] \subseteq Directory!Live BY <2>1, <1>a
      <3> QED BY <3>1, <1>2 DEF Directory!RefuseMember, Directory!Asked
    <2>4. Directory!End(h) BY <1>2 DEF Directory!RefuseMember
    <2>5. ~Grouping(h)' /\ call'[h].pc = "idle" /\ \A k \in Handlers \ {h} : call'[k] = call[k]
      BY <2>4, <1>a DEF Directory!End, Directory!Idle, Grouping, GroupStages
    <2>6. CASE ~call[h].alone
      <3>1. drift' = Names BY <2>3, <2>6, <2>1, <1>a, <1>b
      <3> QED BY <3>1, <2>6, <2>5, <2>1, RoleDoubt
    <2>7. CASE call[h].alone
      <3>1. ASSUME NEW u \in Directory!Live' \ drift' PROVE Right(u)'
        <4>1. u \in Directory!Live \ drift BY <2>2, <2>3, <3>1 DEF Directory!Live
        <4>2. Right(u) BY <4>1, <2>1, <2>7, SureRight
        <4>3. \A g \in Pair : (u \in members'[g]) <=> (u \in members[g]) BY <3>1, <2>3, <2>1, <1>a
        <4>4. Directory!RoleFor(u, roleMap)' = Directory!RoleFor(u, roleMap) BY <4>3, <2>2, SameRole
        <4> QED BY <4>2, <4>4, <2>2 DEF Right
      <3> QED BY <3>1, <2>5, <2>7, <2>1, RoleSure
    <2> QED BY <2>6, <2>7
  <1>3. CASE Directory!DeleteGroup(h)
    <2>1. call[h].pc = "drop" /\ call[h].group \in Pair /\ Grouping(h)
      BY <1>3, <1>a DEF Directory!DeleteGroup, Directory!At, PushOK, Grouping, GroupStages
    <2>2. /\ UNCHANGED <<user, roleMap, drift>> /\ Directory!Goto(h, "recompute")
          /\ group' = [group EXCEPT ![call[h].group] = None]
          /\ members' = [members EXCEPT ![call[h].group] = {}]
      BY <1>3 DEF Directory!DeleteGroup
    <2>3. /\ call'[h].pc = "recompute" /\ call'[h].alone = call[h].alone /\ call'[h].todo = call[h].todo
          /\ \A k \in Handlers \ {h} : call'[k] = call[k]
      BY <2>2, <1>a DEF Directory!Goto, Pushes
    <2>4. CASE ~call[h].alone BY <2>3, <2>4, <2>1, <2>2, <1>b, RoleDoubt
    <2>5. CASE call[h].alone
      <3>1. ASSUME NEW u \in Directory!Live' \ drift', u \notin call[h].todo PROVE Right(u)'
        <4>1. u \in Directory!Live \ drift BY <2>2, <3>1 DEF Directory!Live
        <4>2. Right(u) BY <4>1, <2>1, <2>5, SureRight
        <4>3. u \notin members[call[h].group] BY <3>1, <2>1, <2>5, <1>b DEF Sure
        <4>4. \A g \in Pair : (u \in members'[g]) <=> (u \in members[g]) BY <4>3, <2>2, <2>1, <1>a
        <4>5. \A g \in Pair : u \in members[g] => group'[g] = group[g] BY <4>3, <2>2, <1>a
        <4>6. Directory!RoleFor(u, roleMap)' = Directory!RoleFor(u, roleMap)
          BY <4>4, <4>5, <2>2, SameRole
        <4> QED BY <4>2, <4>6, <2>2 DEF Right
      <3>2. Sure(call[h])' BY <2>3 DEF Sure
      <3> QED BY <3>1, <3>2, <2>3, <2>5, <2>1, RoleSure
    <2> QED BY <2>4, <2>5
  <1>4. CASE Directory!RecomputeRead(h)
    <2>1. call[h].pc = "recompute" /\ Grouping(h)
      BY <1>4 DEF Directory!RecomputeRead, Directory!At, Grouping, GroupStages
    <2>2. UNCHANGED <<user, group, members, roleMap, drift>>
      BY <1>4 DEF Directory!RecomputeRead, Directory!rows
    <2>3. \A u : Directory!RoleFor(u, roleMap)' = Directory!RoleFor(u, roleMap)
      BY <2>2 DEF Directory!RoleFor
    <2>4. CASE call[h].todo = {} /\ Directory!End(h)
      <3>1. ~Grouping(h)' /\ call'[h].pc = "idle" /\ \A k \in Handlers \ {h} : call'[k] = call[k]
        BY <2>4, <1>a DEF Directory!End, Directory!Idle, Grouping, GroupStages
      <3>2. CASE ~call[h].alone BY <3>1, <3>2, <2>1, <2>2, <1>b, RoleDoubt
      <3>3. CASE call[h].alone
        <4>1. ASSUME NEW u \in Directory!Live' \ drift' PROVE Right(u)'
          <5>1. u \in Directory!Live \ drift BY <2>2, <4>1 DEF Directory!Live
          <5>2. Right(u) BY <5>1, <2>1, <2>4, <3>3, SureRight
          <5> QED BY <5>2, <2>2, <2>3 DEF Right
        <4> QED BY <4>1, <3>1, <3>3, <2>1, RoleSure
      <3> QED BY <3>2, <3>3
    <2>5. ASSUME NEW w \in call[h].todo, call' = [call EXCEPT ![h].pc = "roles", ![h].user = w, ![h].map = roleMap]
          PROVE  RoleInv'
      <3>1. /\ call'[h].pc = "roles" /\ call'[h].alone = call[h].alone /\ call'[h].todo = call[h].todo
            /\ call'[h].map = roleMap /\ \A k \in Handlers \ {h} : call'[k] = call[k]
        BY <2>5, <1>a DEF Pushes
      <3>2. CASE ~call[h].alone BY <3>1, <3>2, <2>1, <2>2, <1>b, RoleDoubt
      <3>3. CASE call[h].alone
        <4>1. ASSUME NEW u \in Directory!Live' \ drift', u \notin call[h].todo PROVE Right(u)'
          <5>1. u \in Directory!Live \ drift BY <2>2, <4>1 DEF Directory!Live
          <5>2. Right(u) BY <5>1, <2>1, <4>1, <3>3, SureRight
          <5> QED BY <5>2, <2>2, <2>3 DEF Right
        <4>2. Sure(call[h])' BY <3>1, <2>2 DEF Sure
        <4> QED BY <4>1, <4>2, <3>1, <3>3, <2>1, RoleSure
      <3> QED BY <3>2, <3>3
    <2> QED BY <2>4, <2>5, <1>4 DEF Directory!RecomputeRead
  <1>5. CASE Directory!RecomputeRoles(h)
    <2>1. call[h].pc = "roles" /\ Grouping(h)
      BY <1>5 DEF Directory!RecomputeRoles, Directory!At, Grouping, GroupStages
    <2>2. UNCHANGED <<user, group, members, roleMap, drift>>
      BY <1>5 DEF Directory!RecomputeRoles, Directory!rows
    <2>3. \A u : Directory!RoleFor(u, roleMap)' = Directory!RoleFor(u, roleMap)
      BY <2>2 DEF Directory!RoleFor
    <2>4. call' = [call EXCEPT ![h].pc = "write", ![h].role = Directory!RoleFor(call[h].user, call[h].map)]
      BY <1>5 DEF Directory!RecomputeRoles
    <2>5. /\ call'[h].pc = "write" /\ call'[h].alone = call[h].alone /\ call'[h].todo = call[h].todo
          /\ call'[h].user = call[h].user /\ call'[h].role = Directory!RoleFor(call[h].user, call[h].map)
          /\ \A k \in Handlers \ {h} : call'[k] = call[k]
      BY <2>4, <1>a DEF Pushes
    <2>6. CASE ~call[h].alone BY <2>5, <2>6, <2>1, <2>2, <1>b, RoleDoubt
    <2>7. CASE call[h].alone
      <3>1. ASSUME NEW u \in Directory!Live' \ drift', u \notin call[h].todo PROVE Right(u)'
        <4>1. u \in Directory!Live \ drift BY <2>2, <3>1 DEF Directory!Live
        <4>2. Right(u) BY <4>1, <2>1, <3>1, <2>7, SureRight
        <4> QED BY <4>2, <2>2, <2>3 DEF Right
      <3>2. call[h].map = roleMap BY <2>1, <2>7, <1>b DEF Sure
      <3>3. Sure(call[h])' BY <3>2, <2>3, <2>5 DEF Sure
      <3> QED BY <3>1, <3>3, <2>5, <2>7, <2>1, RoleSure
    <2> QED BY <2>6, <2>7
  <1>6. CASE Directory!RecomputeWrite(h)
    <2>u. PICK w : w = call[h].user OBVIOUS
    <2>1. call[h].pc = "write" /\ Grouping(h) /\ w \in Names /\ call[h].role \in Directory!RoleNames
      BY <1>6, <2>u, <1>a
         DEF Directory!RecomputeWrite, Directory!At, Grouping, GroupStages, PushOK, Pushes
    <2>2. UNCHANGED <<group, members, roleMap>> BY <1>6 DEF Directory!RecomputeWrite
    <2>3. \A u : Directory!RoleFor(u, roleMap)' = Directory!RoleFor(u, roleMap)
      BY <2>2 DEF Directory!RoleFor
    <2>4. /\ user' = IF w \in Directory!Live THEN [user EXCEPT ![w].role = call[h].role] ELSE user
          /\ drift' = IF Directory!Others(h) = {} /\ call[h].alone THEN drift \ {w} ELSE drift
          /\ call' = [call EXCEPT ![h].pc = "recompute", ![h].todo = @ \ {w}]
      BY <1>6, <2>u DEF Directory!RecomputeWrite
    <2>5. /\ call'[h].pc = "recompute" /\ call'[h].alone = call[h].alone /\ call'[h].todo = call[h].todo \ {w}
          /\ \A k \in Handlers \ {h} : call'[k] = call[k]
      BY <2>4, <1>a DEF Pushes
    <2>6. /\ \A v \in Names : user'[v].state = user[v].state
          /\ \A v \in Names \ {w} : user'[v] = user[v]
          /\ w \in Directory!Live => user'[w].role = call[h].role
      BY <2>1, <2>4, <1>a DEF LoginRows
    <2>7. CASE ~call[h].alone
      <3>1. drift' = Names BY <2>7, <2>4, <2>1, <1>b
      <3> QED BY <3>1, <2>5, <2>7, <2>1, RoleDoubt
    <2>8. CASE call[h].alone
      <3>1. ASSUME NEW u \in Directory!Live' \ drift', u \notin call'[h].todo PROVE Right(u)'
        <4>1. u \in Directory!Live BY <2>6, <3>1 DEF Directory!Live
        <4>2. CASE u = w
          <5>1. call[h].role = Directory!RoleFor(w, roleMap)
            BY <4>1, <4>2, <2>1, <2>8, <1>b, <2>u DEF Sure, Directory!Live
          <5> QED BY <5>1, <4>1, <4>2, <2>3, <2>6 DEF Right
        <4>3. CASE u # w
          <5>1. u \notin drift /\ u \notin call[h].todo BY <4>3, <3>1, <2>4, <2>5
          <5>2. Right(u) BY <4>1, <5>1, <2>1, <2>8, SureRight
          <5> QED BY <5>2, <4>1, <4>3, <2>3, <2>6 DEF Right, Directory!Live
        <4> QED BY <4>2, <4>3
      <3>2. Sure(call[h])' BY <2>5 DEF Sure
      <3> QED BY <3>1, <3>2, <2>5, <2>8, <2>1, RoleSure
    <2> QED BY <2>7, <2>8
  <1> QED BY <1>1, <1>2, <1>3, <1>4, <1>5, <1>6

LEMMA RoleOthers ==
    ASSUME DirInv, RoleInv, Directory!SetGroupRoleMap \/ Directory!SetRole \/ Directory!ToggleActive \/ Directory!DeleteUser \/ Directory!Crash
    PROVE  RoleInv'
  <1>a. /\ PushesOK /\ Directory!Live \subseteq Names /\ drift \subseteq Names /\ members \in [Pair -> SUBSET Names]
        /\ user \in [Names -> LoginRows] /\ \A u \in Names : user[u] \in LoginRows
    BY DEF DirInv, TablesOK, Directory!Live
  <1>1. CASE Directory!SetGroupRoleMap
    <2>1. drift' = Names /\ call' = Directory!Uncertain BY <1>1 DEF Directory!SetGroupRoleMap
    <2>2. ASSUME NEW k \in Handlers PROVE Certain(k)' /\ Doubtful(k)' /\ Membership(k)'
      <3>1. /\ Directory!Uncertain[k].pc = call[k].pc
            /\ call[k].pc # "idle" => ~Directory!Uncertain[k].alone /\ Directory!Uncertain[k] = [call[k] EXCEPT !.alone = FALSE]
        BY <1>a, UncertainOK
      <3>2. call[k].pc # "idle" => Directory!Uncertain[k].kind = call[k].kind
        BY <3>1, <1>a DEF PushesOK, Pushes
      <3>3. Membership(k) BY DEF RoleInv
      <3>4. Membership(k)' BY <2>1, <3>1, <3>2, <3>3 DEF Membership
      <3>5. Grouping(k)' => ~call'[k].alone BY <2>1, <3>1 DEF Grouping, GroupStages
      <3> QED BY <2>1, <3>4, <3>5 DEF Certain, Doubtful
    <2>3. Directory!Live' \subseteq Names BY DEF Directory!Live
    <2> QED BY <2>1, <2>2, <2>3 DEF RoleInv
  <1>2. CASE Directory!SetRole
    <2>1. PICK w \in Directory!Live, r \in Directory!RoleNames : /\ user' = [user EXCEPT ![w].role = r]
                                            /\ drift' = drift \cup {w}
      BY <1>2 DEF Directory!SetRole
    <2>2. UNCHANGED <<group, members, roleMap, call>> BY <1>2 DEF Directory!SetRole
    <2>3. user'[w].state = user[w].state /\ \A v \in Names \ {w} : user'[v] = user[v]
      BY <2>1, <1>a DEF LoginRows
    <2> QED BY <2>1, <2>2, <2>3, <1>a, RoleOut
  <1>3. CASE Directory!ToggleActive
    <2>1. PICK w \in Directory!Live : user' = [user EXCEPT ![w].active = ~@]
      BY <1>3 DEF Directory!ToggleActive
    <2>2. UNCHANGED <<group, members, roleMap, call, drift>> BY <1>3 DEF Directory!ToggleActive
    <2>3. /\ user'[w].state = user[w].state /\ user'[w].role = user[w].role
          /\ \A v \in Names \ {w} : user'[v] = user[v]
      BY <2>1, <1>a DEF LoginRows
    <2> QED BY <2>2, <2>3, <1>a, RoleOut
  <1>4. CASE Directory!DeleteUser
    <2>1. PICK w \in Directory!Live : /\ user' = [user EXCEPT ![w].state = "gone", ![w].person = FALSE]
                            /\ members' = [g \in Pair |-> members[g] \ {w}]
      BY <1>4 DEF Directory!DeleteUser
    <2>2. UNCHANGED <<group, roleMap, call, drift>> BY <1>4 DEF Directory!DeleteUser
    <2>3. user'[w].state = "gone" /\ \A v \in Names \ {w} : user'[v] = user[v]
      BY <2>1, <1>a DEF LoginRows
    <2>4. \A g \in Pair : members'[g] \subseteq members[g] /\ members[g] \subseteq members'[g] \cup {w}
      BY <2>1
    <2> QED BY <2>2, <2>3, <2>4, <1>a, RoleOut
  <1>5. CASE Directory!Crash
    <2>1. call' = [h \in Handlers |-> Directory!Idle] /\ drift' = Names BY <1>5 DEF Directory!Crash
    <2>2. \A k \in Handlers : call'[k].pc = "idle" BY <2>1 DEF Directory!Idle
    <2>3. Directory!Live' \subseteq Names BY DEF Directory!Live
    <2> QED BY <2>1, <2>2, <2>3 DEF RoleInv, Certain, Doubtful, Membership, Grouping, GroupStages
  <1> QED BY <1>1, <1>2, <1>3, <1>4, <1>5

-----------------------------------------------------------------------------
(* The Person and its link *)

\* What somebody else writes of a Person or its link leaves the rest of its user
\* alone, and the requests as they are but for the Person they hold.  The user is
\* counted out, unless a leaver is retired whom no request is at work on.
LEMMA PersonFacts ==
    ASSUME DirInv,
           Directory!EditPerson \/ Directory!DeletePerson \/ Directory!LinkPerson \/ Directory!RetireLeaver
    PROVE  /\ user' \in [Names -> LoginRows] /\ person' \in [Names -> {"none", "active", "archived"}]
           /\ UNCHANGED <<group, members, roleMap, drift>>
           /\ \A u \in Names : user'[u].state = user[u].state /\ user'[u].role = user[u].role
           /\ \A u \in Names : user'[u].person => person'[u] # "none" /\ (user[u].person \/ user[u].state = "live")
           /\ call' \in [Handlers -> Pushes]
           /\ \A k \in Handlers :
                /\ PushOK(call'[k])
                /\ call'[k] = call[k] \/ call'[k] = [call[k] EXCEPT !.linked = "gone"]
                /\ Linking(k)' => person'[call'[k].user] # "none"
           /\ clash \subseteq clash' /\ clash' \subseteq Names
           /\ \A u \in Names \ clash' :
                \/ /\ user'[u] = user[u] /\ person'[u] = person[u]
                   /\ \A k \in Handlers : call[k].user = u => call'[k] = call[k]
                \/ /\ call' = call /\ \A k \in Handlers : call[k].user # u
                   /\ person'[u] = "archived" /\ (user'[u].person => ~user'[u].active)
  <1>a. /\ user \in [Names -> LoginRows] /\ \A u \in Names : user[u] \in LoginRows
        /\ person \in [Names -> {"none", "active", "archived"}] /\ clash \subseteq Names
        /\ call \in [Handlers -> Pushes] /\ \A k \in Handlers : call[k] \in Pushes /\ PushOK(call[k])
    BY DEF DirInv, TablesOK, PushesOK
  <1>b. /\ \A u \in Names : user[u].person => person[u] # "none"
        /\ \A k \in Handlers : Linking(k) => call[k].user \in Names /\ person[call[k].user] # "none"
    <2>1. \A k \in Handlers : Linking(k) => call[k].user \in Names
      BY <1>a DEF Linking, PushOK, LoginStages
    <2> QED BY <2>1 DEF DirInv, Directory!TypeOK
  <1>1. CASE Directory!EditPerson
    <2>1. PICK w \in Names, status \in {"active", "archived"} :
            person' = [person EXCEPT ![w] = status] /\ clash' = clash \cup {w}
      BY <1>1 DEF Directory!EditPerson
    <2>2. UNCHANGED <<user, group, members, roleMap, call, drift>> BY <1>1 DEF Directory!EditPerson
    <2>3. person' \in [Names -> {"none", "active", "archived"}] BY <2>1, <1>a
    <2>4. /\ \A u \in Names : person[u] # "none" => person'[u] # "none"
          /\ \A u \in Names \ {w} : person'[u] = person[u]
      BY <2>1, <1>a
    <2>5. \A k \in Handlers : Linking(k)' => person'[call'[k].user] # "none"
      BY <2>2, <2>4, <1>b DEF Linking
    <2> QED BY <2>1, <2>2, <2>3, <2>4, <2>5, <1>a, <1>b
  <1>2. CASE Directory!DeletePerson
    <2>1. PICK w \in Names :
            /\ person' = [person EXCEPT ![w] = "none"] /\ clash' = clash \cup {w}
            /\ user' = [user EXCEPT ![w].person = FALSE]
            /\ call' = [k \in Handlers |->
                 IF call[k].user = w /\ (call[k].pc = "link" \/ call[k].linked = "yes")
                 THEN [call[k] EXCEPT !.linked = "gone"] ELSE call[k]]
      BY <1>2 DEF Directory!DeletePerson, Directory!At
    <2>2. UNCHANGED <<group, members, roleMap, drift>> BY <1>2 DEF Directory!DeletePerson
    <2>3. user' \in [Names -> LoginRows] BY <2>1, RowPut DEF DirInv, Directory!RoleNames
    <2>4. /\ person' \in [Names -> {"none", "active", "archived"}]
          /\ \A u \in Names \ {w} : person'[u] = person[u] /\ user'[u] = user[u]
          /\ user'[w].state = user[w].state /\ user'[w].role = user[w].role /\ ~user'[w].person
      BY <2>1, <1>a DEF LoginRows
    <2>5. ASSUME NEW k \in Handlers
          PROVE  /\ call'[k] \in Pushes /\ PushOK(call'[k])
                 /\ call'[k] = call[k] \/ call'[k] = [call[k] EXCEPT !.linked = "gone"]
                 /\ call[k].user # w => call'[k] = call[k]
                 /\ Linking(k)' => person'[call'[k].user] # "none"
      <3> DEFINE r == [call[k] EXCEPT !.linked = "gone"]
      <3>1. /\ r \in Pushes /\ r.pc = call[k].pc /\ r.user = call[k].user /\ r.group = call[k].group
            /\ r.todo = call[k].todo /\ r.role = call[k].role /\ r.linked = "gone"
        BY <1>a DEF Pushes
      <3>2. PushOK(r) BY <3>1, <1>a DEF PushOK
      <3> HIDE DEF r
      <3>3. call'[k] = IF call[k].user = w /\ (call[k].pc = "link" \/ call[k].linked = "yes") THEN r ELSE call[k]
        BY <2>1 DEF r
      <3>4. Linking(k)' => Linking(k) /\ call'[k].user = call[k].user /\ call[k].user # w
        BY <3>1, <3>3 DEF Linking
      <3>5. Linking(k)' => person'[call'[k].user] # "none" BY <3>4, <2>4, <1>b
      <3> QED BY <3>1, <3>2, <3>3, <3>5, <1>a DEF r
    <2>6. call' \in [Handlers -> Pushes] BY <2>1, <2>5
    <2>7. \A u \in Names \ clash' : /\ user'[u] = user[u] /\ person'[u] = person[u]
                                     /\ \A k \in Handlers : call[k].user = u => call'[k] = call[k]
      BY <2>1, <2>4, <2>5
    <2>8. \A u \in Names : /\ user'[u].state = user[u].state /\ user'[u].role = user[u].role
                           /\ user'[u].person => person'[u] # "none" /\ user[u].person
      BY <2>4, <1>b
    <2> QED BY <2>1, <2>2, <2>3, <2>4, <2>5, <2>6, <2>7, <2>8, <1>a
  <1>3. CASE Directory!LinkPerson
    <2>1. PICK w \in Directory!Live : /\ person[w] # "none" /\ clash' = clash \cup {w}
                                     /\ user' = [user EXCEPT ![w].person = ~user[w].person]
      BY <1>3 DEF Directory!LinkPerson
    <2>2. UNCHANGED <<person, group, members, roleMap, call, drift>> BY <1>3 DEF Directory!LinkPerson
    <2>3. w \in Names /\ user[w].state = "live" /\ (~user[w].person) \in BOOLEAN
      BY <2>1, <1>a DEF Directory!Live, LoginRows
    <2>4. user' \in [Names -> LoginRows] BY <2>1, <2>3, RowPut DEF DirInv, Directory!RoleNames
    <2>5. /\ user'[w].state = user[w].state /\ user'[w].role = user[w].role
          /\ \A u \in Names \ {w} : user'[u] = user[u]
      BY <2>1, <2>3, <1>a DEF LoginRows
    <2>6. \A k \in Handlers : Linking(k)' => person'[call'[k].user] # "none"
      BY <2>2, <1>b DEF Linking
    <2> QED BY <2>1, <2>2, <2>3, <2>4, <2>5, <2>6, <1>a, <1>b
  <1>4. CASE Directory!RetireLeaver
    <2>1. PICK w \in Names :
            /\ person[w] # "none" /\ person' = [person EXCEPT ![w] = "archived"]
            /\ user' = IF user[w].person THEN [user EXCEPT ![w].active = FALSE] ELSE user
            /\ clash' = IF \E k \in Handlers : call[k].user = w THEN clash \cup {w} ELSE clash
      BY <1>4 DEF Directory!RetireLeaver
    <2>2. UNCHANGED <<group, members, roleMap, call, drift>> BY <1>4 DEF Directory!RetireLeaver
    <2>3. [user EXCEPT ![w].active = FALSE] \in [Names -> LoginRows] BY RowPut DEF DirInv, Directory!RoleNames
    <2>4. user' \in [Names -> LoginRows] BY <2>1, <2>3, <1>a
    <2>5. /\ person' \in [Names -> {"none", "active", "archived"}] /\ person'[w] = "archived"
          /\ \A u \in Names \ {w} : person'[u] = person[u] /\ user'[u] = user[u]
          /\ user'[w].state = user[w].state /\ user'[w].role = user[w].role
          /\ user'[w].person = user[w].person /\ (user'[w].person => ~user'[w].active)
      BY <2>1, <1>a DEF LoginRows
    <2>6. \A u \in Names : person[u] # "none" => person'[u] # "none" BY <2>5
    <2>7. \A k \in Handlers : Linking(k)' => person'[call'[k].user] # "none"
      BY <2>2, <2>6, <1>b DEF Linking
    <2>8. clash \subseteq clash' /\ clash' \subseteq Names /\ (w \notin clash' => \A k \in Handlers : call[k].user # w)
      BY <2>1, <1>a
    <2> QED BY <2>2, <2>4, <2>5, <2>6, <2>7, <2>8, <1>a, <1>b
  <1> QED BY <1>1, <1>2, <1>3, <1>4

\* So the tables and requests keep their types, ...
LEMMA PersonTypes ==
    ASSUME DirInv,
           Directory!EditPerson \/ Directory!DeletePerson \/ Directory!LinkPerson \/ Directory!RetireLeaver
    PROVE  DirInv'
  <1>1. TablesOK' BY PersonFacts DEF DirInv, TablesOK
  <1>2. PushesOK' BY PersonFacts DEF PushesOK, PushOK
  <1>3. Directory!Live' = Directory!Live BY PersonFacts DEF Directory!Live
  <1>4. UNCHANGED <<group, members>> /\ \A u \in Names : user'[u].person => person'[u] # "none" BY PersonFacts
  <1>5. Directory!TypeOK'
    BY <1>1, <1>2, <1>3, <1>4 DEF DirInv, Directory!TypeOK, TablesOK, PushesOK, Pushes, LoginRows
  <1>6. \A k \in Handlers : Linking(k)' => person'[call'[k].user] # "none" BY PersonFacts
  <1> QED BY <1>1, <1>2, <1>5, <1>6 DEF DirInv

\* ... nobody's role comes into question, ...
LEMMA PersonRoles ==
    ASSUME DirInv, RoleInv,
           Directory!EditPerson \/ Directory!DeletePerson \/ Directory!LinkPerson \/ Directory!RetireLeaver
    PROVE  RoleInv'
  <1>1. UNCHANGED <<group, members, roleMap, drift>> BY PersonFacts
  <1>2. \A u \in Names : user'[u].state = user[u].state /\ user'[u].role = user[u].role BY PersonFacts
  <1>3. ASSUME NEW k \in Handlers
        PROVE  /\ call'[k].pc = call[k].pc /\ call'[k].kind = call[k].kind /\ call'[k].alone = call[k].alone
               /\ call'[k].todo = call[k].todo /\ call'[k].group = call[k].group /\ call'[k].user = call[k].user
               /\ call'[k].map = call[k].map /\ call'[k].role = call[k].role
    <2>1. call'[k] = call[k] \/ call'[k] = [call[k] EXCEPT !.linked = "gone"] BY PersonFacts
    <2>2. call[k] \in Pushes BY DEF DirInv, PushesOK
    <2> QED BY <2>1, <2>2 DEF Pushes
  <1>4. \A u : Directory!RoleFor(u, roleMap)' = Directory!RoleFor(u, roleMap) BY <1>1 DEF Directory!RoleFor
  <1>5. ASSUME NEW k \in Handlers, call[k].pc = "write" PROVE call[k].user \in Names
    BY <1>5 DEF DirInv, PushesOK, PushOK, Pushes
  <1>6. ASSUME NEW k \in Handlers, Sure(call[k]) PROVE Sure(call[k])'
    BY <1>1, <1>2, <1>3, <1>4, <1>5, <1>6 DEF Sure
  <1>7. ASSUME NEW k \in Handlers PROVE Certain(k)' /\ Doubtful(k)' /\ Membership(k)'
    <2>1. Certain(k) /\ Doubtful(k) /\ Membership(k) BY DEF RoleInv
    <2>2. \A j \in Handlers : Grouping(j)' = Grouping(j) BY <1>3 DEF Grouping
    <2> QED BY <2>1, <2>2, <1>1, <1>3, <1>6 DEF Certain, Doubtful, Membership
  <1>8. Directory!Live' = Directory!Live BY <1>2 DEF Directory!Live
  <1>9. \A u \in Directory!Live : (Right(u) => Right(u)') /\ (Pending(u) => Pending(u)')
    BY <1>2, <1>3, <1>4 DEF Right, Pending, Directory!Live
  <1> QED BY <1>1, <1>7, <1>8, <1>9 DEF RoleInv

\* ... and a login not counted out is as it was, or retired with its Person.
LEMMA PersonLogins ==
    ASSUME DirInv, LoginInv,
           Directory!EditPerson \/ Directory!DeletePerson \/ Directory!LinkPerson \/ Directory!RetireLeaver
    PROVE  LoginInv'
  <1>1. \A u \in Names : user'[u].person => user'[u].state = "live" BY PersonFacts DEF LoginInv
  <1>2. ASSUME NEW u \in Names \ clash' PROVE LoginAt(u)'
    <2>1. LoginAt(u) BY <1>2, PersonFacts DEF LoginInv
    <2>2. \A k \in Handlers : call'[k].user = call[k].user /\ call'[k].pc = call[k].pc
      <3>1. \A k \in Handlers : call[k] \in Pushes BY DEF DirInv, PushesOK
      <3>2. \A k \in Handlers : call'[k] = call[k] \/ call'[k] = [call[k] EXCEPT !.linked = "gone"]
        BY PersonFacts
      <3> QED BY <3>1, <3>2 DEF Pushes
    <2>3. \A k \in Handlers : Login(k, u)' = Login(k, u) BY <2>2 DEF Login
    <2>4. CASE /\ user'[u] = user[u] /\ person'[u] = person[u]
               /\ \A k \in Handlers : call[k].user = u => call'[k] = call[k]
      <3>1. \A k \in Handlers : Login(k, u) => call'[k] = call[k] BY <2>4 DEF Login
      <3> QED BY <2>1, <2>3, <2>4, <3>1, SameLogin
    <2>5. CASE /\ call' = call /\ \A k \in Handlers : call[k].user # u
               /\ person'[u] = "archived" /\ (user'[u].person => ~user'[u].active)
      <3>1. \A k \in Handlers : ~Login(k, u)' BY <2>5 DEF Login
      <3>2. Settled(u)' BY <2>5 DEF Settled, Directory!Status
      <3> QED BY <3>1, <3>2 DEF LoginAt, Alone
    <2> QED BY <1>2, <2>4, <2>5, PersonFacts
  <1> QED BY <1>1, <1>2 DEF LoginInv

LEMMA QuietDir ==
    ASSUME DirInv, RoleInv, LoginInv
    PROVE  Directory!RolesFollowGroups /\ Directory!LeaversAreOut
  <1>1. ASSUME Directory!Quiet, NEW u \in Directory!Live \ drift
        PROVE  user[u].role = Directory!RoleFor(u, roleMap)
    <2>1. Right(u) \/ Pending(u) BY <1>1 DEF RoleInv
    <2>2. ~Pending(u) BY <1>1 DEF Pending, Directory!Quiet, Directory!At
    <2> QED BY <2>1, <2>2 DEF Right
  <1>2. ASSUME Directory!Quiet, NEW u \in Directory!Live \ clash, user[u].person
        PROVE  person[u] = Directory!Status(user[u].active)
    <2>1. LoginAt(u) BY <1>2 DEF LoginInv, Directory!Live
    <2>2. \A h \in Handlers : ~Login(h, u)
      BY <1>2 DEF Login, Directory!Quiet, Directory!At, LoginStages
    <2> QED BY <2>1, <2>2, <1>2 DEF LoginAt, Settled
  <1> QED BY <1>1, <1>2 DEF Directory!RolesFollowGroups, Directory!LeaversAreOut

LEMMA StepDir ==
    ASSUME GroupNamesOK, DirInv, RoleInv, LoginInv, [Directory!Next]_Directory!vars
    PROVE  DirInv' /\ RoleInv' /\ LoginInv'
  <1>1. ASSUME NEW h \in Handlers, Directory!Step(h) PROVE DirInv' /\ RoleInv' /\ LoginInv'
    <2>1. CASE \/ Directory!CreateRead(h) \/ Directory!CreateInsert(h) \/ Directory!ReplaceRead(h) \/ Directory!PatchRead(h)
               \/ Directory!DeactivateRead(h) \/ Directory!SetUserActive(h) \/ Directory!WriteStatus(h)
               \/ Directory!UpsertPerson(h) \/ Directory!SetLink(h)
      BY <2>1, LoginTypes, LoginSteps, RoleLogins
    <2>2. CASE Directory!CreateGroup(h) \/ Directory!ReplaceGroup(h) \/ Directory!PatchGroup(h) \/ Directory!DeleteGroupRead(h)
      <3>1. DirInv' BY <2>2, GroupTypes
      <3> QED BY <3>1, <2>2, LoginOthers, RoleBegins
    <2>3. CASE \/ Directory!SetMembers(h) \/ Directory!RefuseMember(h) \/ Directory!DeleteGroup(h)
               \/ Directory!RecomputeRead(h) \/ Directory!RecomputeRoles(h)
      <3>1. DirInv' BY <2>3, GroupTypes
      <3> QED BY <3>1, <2>3, LoginOthers, RoleGroups
    <2>4. CASE Directory!RecomputeWrite(h)
      <3>1. DirInv' BY <2>4, OtherTypes
      <3> QED BY <3>1, <2>4, LoginOthers, RoleGroups
    <2> QED BY <1>1, <2>1, <2>2, <2>3, <2>4 DEF Directory!Step
  <1>2. CASE Directory!SetGroupRoleMap \/ Directory!SetRole \/ Directory!ToggleActive \/ Directory!DeleteUser \/ Directory!Crash
    <2>1. DirInv' BY <1>2, OtherTypes
    <2> QED BY <2>1, <1>2, LoginOthers, RoleOthers
  <1>3. CASE Directory!EditPerson \/ Directory!DeletePerson \/ Directory!LinkPerson \/ Directory!RetireLeaver
    BY <1>3, PersonTypes, PersonRoles, PersonLogins
  <1>4. CASE UNCHANGED Directory!vars
    <2>1. DirInv' BY <1>4, StutterTypes
    <2>2. UNCHANGED <<user, person, group, members, roleMap, call, drift, clash>>
      BY <1>4 DEF Directory!vars, Directory!rows
    <2>3. RoleInv'
      BY <2>2
         DEF RoleInv, Certain, Doubtful, Membership, Grouping, Sure, Right, Directory!RoleFor,
             Pending, Directory!Live
    <2>4. LoginInv' BY <2>2 DEF LoginInv, LoginAt, Alone, Login, LoginOK, Settled, Directory!Live
    <2> QED BY <2>1, <2>3, <2>4
  <1> QED BY <1>1, <1>2, <1>3, <1>4 DEF Directory!Next

\* Once the requests of a directory have ended: each user has the role its groups
\* give, but for those a renamed group, a changed map, another writer of roles, two
\* requests at once or a crash left behind; and a login's Person is active as the
\* login is, but for those whose login, link or Person somebody else has written
\* since (an administrator, whoever edits assets), and those that two requests at
\* once, a retirement beside one, or a crash were about.
THEOREM DirectoryTrue ==
    ASSUME GroupNamesOK
    PROVE  Directory!Spec =>
             [](Directory!TypeOK /\ Directory!RolesFollowGroups /\ Directory!LeaversAreOut)
  <1> DEFINE Inv == DirInv /\ RoleInv /\ LoginInv
  <1>1. Directory!Init => Inv
    BY InitDir
  <1>2. Inv /\ [Directory!Next]_Directory!vars => Inv'
    BY StepDir
  <1>3. Inv => Directory!TypeOK /\ Directory!RolesFollowGroups /\ Directory!LeaversAreOut
    BY QuietDir DEF DirInv
  <1> QED BY <1>1, <1>2, <1>3, PTL DEF Directory!Spec

-----------------------------------------------------------------------------
(* The run.  What the constants of Accounts are gives what each section asks   *)
(* of its own; Init chooses a part and no step leaves it, so a step of the run *)
(* is a step, or none, of the module the part is about.                         *)

LEMMA ConstantsOK == ClientsOK /\ NewcomersOK /\ GroupNamesOK
  BY AccountsAssumption
     DEF AccountsAssumption, ClientsOK, NewcomersOK, GroupNamesOK, Addresses, AccountRecord,
        InviteRecord

LEMMA PartInit ==
    ASSUME SumInit
    PROVE  /\ part = "bearers" => Bearers!Init
           /\ part = "newcomers" => Newcomers!Init
           /\ part \in DOMAIN Pushed => Directory!Init
           /\ part = "policies" => Tenants(TRUE)!Init
           /\ part = "shadow" => Tenants(FALSE)!Init
  BY DEF SumInit, Scope, Pushed, PushedInit

LEMMA PartNext ==
    ASSUME [SumNext]_<<vars, OtherVars, part>>
    PROVE  /\ part' = part
           /\ part = "bearers" => [Bearers!Next]_Bearers!vars
           /\ part = "newcomers" => [Newcomers!Next]_Newcomers!vars
           /\ part \in DOMAIN Pushed => [Directory!Next]_Directory!vars
           /\ part = "policies" => [Tenants(TRUE)!Next]_(Tenants(TRUE)!vars)
           /\ part = "shadow" => [Tenants(FALSE)!Next]_(Tenants(FALSE)!vars)
  <1>1. CASE UNCHANGED <<vars, OtherVars, part>>
    <2>1. UNCHANGED OtherVars /\ part' = part
      BY <1>1
    <2>2. /\ UNCHANGED Bearers!vars /\ UNCHANGED Newcomers!vars /\ UNCHANGED Directory!vars
          /\ UNCHANGED Tenants(TRUE)!vars /\ UNCHANGED Tenants(FALSE)!vars
      BY <2>1 DEF OtherVars, TokenVars, NewcomerVars, ScimVars, TenantVars, SharedVars,
         Bearers!vars, Newcomers!vars, Newcomers!rows, Directory!vars, Directory!rows, Tenants!vars
    <2> QED BY <2>1, <2>2
  <1>2. CASE SumNext
    BY <1>2 DEF SumNext, Scope, Pushed, PushedNext
  <1> QED BY <1>1, <1>2

\* What was issued to a client ends with it, and tokens have an owner who is there,
\* in every behaviour of the run's part about bearers (ClientTokensDie).
THEOREM BearersHold == SumSpec => []ClientTokensDie
  <1> DEFINE Inv == part = "bearers" => ClientInv /\ Issued
  <1>1. SumInit => Inv
    BY PartInit, ConstantsOK, ClientInit, InitIssued
  <1>2. Inv /\ [SumNext]_<<vars, OtherVars, part>> => Inv'
    <2> SUFFICES ASSUME Inv, [SumNext]_<<vars, OtherVars, part>>, part' = "bearers" PROVE ClientInv' /\ Issued'
      OBVIOUS
    <2>1. ClientInv /\ Issued /\ [Bearers!Next]_Bearers!vars
      BY PartNext
    <2> QED BY <2>1, ConstantsOK, ClientNext, StepIssued DEF ClientInv
  <1>3. Inv => ClientTokensDie
    <2>1. ASSUME ClientInv, Issued PROVE Bearers!TypeOK /\ Bearers!ClientTokensDie
      BY <2>1, IssuedTyped, ConstantsOK DEF ClientsOK, ClientInv, Ends, Bearers!ClientTokensDie
    <2> QED BY <2>1 DEF ClientTokensDie
  <1> QED BY <1>1, <1>2, <1>3, PTL DEF SumSpec

\* Invitations leave one account and accounts are made whole, in every behaviour
\* of the run's part about newcomers (AccountsSettle).
THEOREM NewcomersHold == SumSpec => []AccountsSettle
  <1> DEFINE Inv == part = "newcomers" => NewcomerInv
  <1>1. SumInit => Inv
    BY PartInit, ConstantsOK, InitNewcomers
  <1>2. Inv /\ [SumNext]_<<vars, OtherVars, part>> => Inv'
    <2> SUFFICES ASSUME Inv, [SumNext]_<<vars, OtherVars, part>>, part' = "newcomers" PROVE NewcomerInv'
      OBVIOUS
    <2>1. NewcomerInv /\ [Newcomers!Next]_Newcomers!vars
      BY PartNext
    <2> QED BY <2>1, ConstantsOK, NewcomersStep
  <1>3. Inv => AccountsSettle
    BY ConstantsOK, SettledNewcomers DEF AccountsSettle
  <1> QED BY <1>1, <1>2, <1>3, PTL DEF SumSpec

\* The directory's word holds once its requests have ended, but for the users whose
\* rows others have written since, in every behaviour of the run's parts about what a
\* directory pushes (DirectoryHolds).
THEOREM PushesHold == SumSpec => []DirectoryHolds
  <1> DEFINE Inv == part \in DOMAIN Pushed => DirInv /\ RoleInv /\ LoginInv
  <1>1. SumInit => Inv
    BY PartInit, ConstantsOK, InitDir
  <1>2. Inv /\ [SumNext]_<<vars, OtherVars, part>> => Inv'
    <2>1. DOMAIN Pushed' = DOMAIN Pushed
      BY DEF Pushed
    <2> SUFFICES ASSUME Inv, [SumNext]_<<vars, OtherVars, part>>, part' \in DOMAIN Pushed
                 PROVE  DirInv' /\ RoleInv' /\ LoginInv'
      BY <2>1
    <2>2. DirInv /\ RoleInv /\ LoginInv /\ [Directory!Next]_Directory!vars
      BY PartNext
    <2> QED BY <2>2, ConstantsOK, StepDir
  <1>3. Inv => DirectoryHolds
    BY QuietDir DEF DirectoryHolds, DirInv
  <1> QED BY <1>1, <1>2, <1>3, PTL DEF SumSpec

\* No task reads another organization and each reads its own, with row-level
\* security on and off, in every behaviour of the run's two parts (TenantsHold).
THEOREM BoundaryHolds == SumSpec => []TenantsHold
  <1> DEFINE Inv == /\ part = "policies" => Bounded(TRUE)
                    /\ part = "shadow" => Bounded(FALSE)
  <1>1. SumInit => Inv
    BY PartInit, InitBounded
  <1>2. Inv /\ [SumNext]_<<vars, OtherVars, part>> => Inv'
    <2> SUFFICES ASSUME Inv, [SumNext]_<<vars, OtherVars, part>> PROVE Inv'
      OBVIOUS
    <2>1. part' = "policies" => Bounded(TRUE)'
      BY PartNext, StepBounded
    <2>2. part' = "shadow" => Bounded(FALSE)'
      BY PartNext, StepBounded
    <2> QED BY <2>1, <2>2
  <1>3. Inv => TenantsHold
    BY BoundedGives DEF TenantsHold, Tenants!TenantsHold
  <1> QED BY <1>1, <1>2, <1>3, PTL DEF SumSpec
=============================================================================
