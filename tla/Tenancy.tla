------------------------------- MODULE Tenancy -------------------------------
(***************************************************************************)
(* The tenant boundary: the context of a task (tenancy.py, contextvars), the *)
(* connections of a worker's pool that are stamped with it at each acquire   *)
(* and given back, and the policies of the tables, which a worker that boots *)
(* makes anew while others serve.  A statement of a task sees what its       *)
(* connection and the policies let it see, whatever its own filters are.     *)
(*                                                                           *)
(* Contexts are entered and left outside of any acquire, as everywhere in    *)
(* the code.                                                                 *)
(***************************************************************************)
EXTENDS Naturals, Sequences, FiniteSets

CONSTANTS
    Workers,
    Conns,
    WorkerOf,     \* connection |-> the worker whose pool it is in
    TablesOf,     \* worker |-> the tenant tables of its build
    Tasks,        \* requests, jobs and the tasks they begin
    Orgs, NoOrg,
    Enforce,      \* RLS_ENABLED
    Superuser,    \* of the role the pool connects as
    MaxDepth,     \* bound of contexts within contexts
    None

VARIABLES
    table,    \* table |-> "absent", "plain", "protected", or "closed": RLS without a policy
    grants,   \* the tables that the app role may use
    defaults, \* it will be granted the tables to come
    boot,     \* worker |-> how far it is
    conn,     \* connection |-> [org, bypass, role]
    task      \* task |-> [live, worker, org, bypass, saved, holds]

vars == <<table, grants, defaults, boot, conn, task>>

Tables == UNION {TablesOf[w] : w \in Workers}
Contexts == [org : Orgs \cup {NoOrg}, bypass : BOOLEAN]
Fresh == [org |-> NoOrg, bypass |-> FALSE, role |-> "owner"]
Idle == [live |-> FALSE, worker |-> None, org |-> NoOrg, bypass |-> FALSE, saved |-> <<>>, holds |-> {}]

\* A database that is new, or was used with or without policies before.
Init ==
    /\ \/ /\ table = [t \in Tables |-> "absent"] /\ grants = {} /\ defaults = FALSE
       \/ \E w \in Workers, state \in {"plain", "protected"} :
            /\ table = [t \in Tables |-> IF t \in TablesOf[w] THEN state ELSE "absent"]
            /\ grants = IF state = "protected" THEN TablesOf[w] ELSE {}
            /\ defaults = (state = "protected")
    /\ boot = [w \in Workers |-> "down"]
    /\ conn = [c \in Conns |-> Fresh]
    /\ task = [t \in Tasks |-> Idle]

-----------------------------------------------------------------------------
(* init_schema, under the advisory lock *)

Locked == \E w \in Workers : boot[w] \in {"schema", "role", "policies", "check"}
There == {t \in Tables : table[t] # "absent"}
Phase(w, from, to) == boot[w] = from /\ boot' = [boot EXCEPT ![w] = to]

TakeLock(w) ==
    /\ ~Locked /\ Phase(w, "down", "schema")
    /\ UNCHANGED <<table, grants, defaults, conn, task>>

Migrate(w) ==
    /\ Phase(w, "schema", IF Enforce THEN "role" ELSE "policies")
    /\ table' = [t \in Tables |-> IF t \in TablesOf[w] \ There THEN "plain" ELSE table[t]]
    /\ grants' = IF defaults THEN grants \cup (TablesOf[w] \ There) ELSE grants
    /\ UNCHANGED <<defaults, conn, task>>

EnsureRole(w) ==
    /\ Phase(w, "role", "policies")
    /\ grants' = There /\ defaults' = TRUE
    /\ UNCHANGED <<table, conn, task>>

\* mutant: the statements commit one by one, so that a policy that is dropped is
\* missing until it is made again
ApplyPolicies_NoTransaction(w) ==
    /\ \/ /\ Phase(w, "policies", "policies")
          /\ \E t \in There : table' = [table EXCEPT ![t] = "closed"]
       \/ /\ Phase(w, "policies", "check")
          /\ table' = [t \in Tables |-> IF t \in There THEN "protected" ELSE table[t]]
    /\ Enforce
    /\ UNCHANGED <<grants, defaults, conn, task>>

\* Every table there is, in one transaction.
ApplyPolicies(w) ==
    /\ Enforce /\ Phase(w, "policies", "check")
    /\ table' = [t \in Tables |-> IF t \in There THEN "protected" ELSE table[t]]
    /\ UNCHANGED <<grants, defaults, conn, task>>

DropPolicies(w) ==
    /\ ~Enforce /\ Phase(w, "policies", "up")
    /\ table' = [t \in Tables |-> IF t \in There THEN "plain" ELSE table[t]]
    /\ UNCHANGED <<grants, defaults, conn, task>>

\* assert_enforcing: all tables are protected, or the worker does not start.
AssertEnforcing(w) ==
    /\ Phase(w, "check", IF \A t \in There : table[t] = "protected" THEN "up" ELSE "down")
    /\ UNCHANGED <<table, grants, defaults, conn, task>>

\* The worker ends with its tasks and its connections, and may boot again.
Crash(w) ==
    /\ boot[w] # "down"
    /\ boot' = [boot EXCEPT ![w] = "down"]
    /\ conn' = [c \in Conns |-> IF WorkerOf[c] = w THEN Fresh ELSE conn[c]]
    /\ task' = [t \in Tasks |-> IF task[t].worker = w THEN Idle ELSE task[t]]
    /\ UNCHANGED <<table, grants, defaults>>

Boot(w) ==
    \/ TakeLock(w) \/ Migrate(w) \/ EnsureRole(w) \/ ApplyPolicies(w) \/ DropPolicies(w)
    \/ AssertEnforcing(w) \/ Crash(w)

-----------------------------------------------------------------------------
(* Contexts *)

Outside == UNCHANGED <<table, grants, defaults, boot, conn>>

\* TenantContextMiddleware: whatever there was, a request begins with nothing.
Arrive(t, w) ==
    /\ ~task[t].live /\ boot[w] = "up"
    /\ task' = [task EXCEPT ![t] = [Idle EXCEPT !.live = TRUE, !.worker = w]]
    /\ Outside

\* A scheduled job, in system_context from its first line.
RunJob(t, w) ==
    /\ ~task[t].live /\ boot[w] = "up"
    /\ task' = [task EXCEPT ![t] = [Idle EXCEPT !.live = TRUE, !.worker = w, !.bypass = TRUE]]
    /\ Outside

\* get_current_user: the organization of the user, of the token, or switched to.
SetTenant(t) ==
    /\ task[t].live /\ task[t].holds = {} /\ task[t].saved = <<>>
    /\ \E o \in Orgs : task' = [task EXCEPT ![t].org = o, ![t].bypass = FALSE]
    /\ Outside

\* with system_context(), with tenant_context(o)
EnterContext(t) ==
    /\ task[t].live /\ task[t].holds = {} /\ Len(task[t].saved) < MaxDepth
    /\ \E ctx \in Contexts :
         /\ ctx.bypass => ctx.org = task[t].org
         /\ task' = [task EXCEPT ![t].org = ctx.org, ![t].bypass = ctx.bypass,
                                 ![t].saved = Append(@, [org |-> task[t].org, bypass |-> task[t].bypass])]
    /\ Outside

LeaveContext(t) ==
    /\ task[t].live /\ task[t].holds = {} /\ task[t].saved # <<>>
    /\ LET last == task[t].saved[Len(task[t].saved)]
       IN task' = [task EXCEPT ![t].org = last.org, ![t].bypass = last.bypass,
                               ![t].saved = SubSeq(@, 1, Len(@) - 1)]
    /\ Outside

\* create_task (dispatch_background) copies the context; the request goes on.
Spawn(t, u) ==
    /\ task[t].live /\ ~task[u].live
    /\ task' = [task EXCEPT ![u] = [task[t] EXCEPT !.saved = <<>>, !.holds = {}]]
    /\ Outside

End(t) ==
    /\ task[t].live /\ task[t].holds = {} /\ task[t].saved = <<>>
    /\ task' = [task EXCEPT ![t] = Idle]
    /\ Outside

-----------------------------------------------------------------------------
(* Connections *)

\* prepare_connection, on every acquire
Stamp(c, t) ==
    [org |-> task[t].org, bypass |-> task[t].bypass,
     role |-> IF task[t].bypass \/ ~Enforce THEN "owner" ELSE "app"]

Acquire(t, c) ==
    /\ task[t].live /\ WorkerOf[c] = task[t].worker /\ \A u \in Tasks : c \notin task[u].holds
    /\ conn' = [conn EXCEPT ![c] = Stamp(c, t)]
    /\ task' = [task EXCEPT ![t].holds = @ \cup {c}]
    /\ UNCHANGED <<table, grants, defaults, boot>>

\* RESET ALL unsets the settings and keeps the role.
Release(t, c) ==
    /\ c \in task[t].holds
    /\ conn' = [conn EXCEPT ![c].org = NoOrg, ![c].bypass = FALSE]
    /\ task' = [task EXCEPT ![t].holds = @ \ {c}]
    /\ UNCHANGED <<table, grants, defaults, boot>>

Next ==
    \/ \E w \in Workers : Boot(w) \/ \E t \in Tasks : Arrive(t, w) \/ RunJob(t, w)
    \/ \E t \in Tasks :
         \/ SetTenant(t) \/ EnterContext(t) \/ LeaveContext(t) \/ End(t)
         \/ \E u \in Tasks : Spawn(t, u)
         \/ \E c \in Conns : Acquire(t, c) \/ Release(t, c)

Spec == Init /\ [][Next]_vars

-----------------------------------------------------------------------------
(* Properties *)

TaskType == [live : BOOLEAN, worker : Workers \cup {None}, org : Orgs \cup {NoOrg},
             bypass : BOOLEAN, saved : Seq(Contexts), holds : SUBSET Conns]

TypeOK ==
    /\ table \in [Tables -> {"absent", "plain", "protected", "closed"}]
    /\ grants \subseteq Tables /\ defaults \in BOOLEAN
    /\ boot \in [Workers -> {"down", "schema", "role", "policies", "check", "up"}]
    /\ conn \in [Conns -> [org : Orgs \cup {NoOrg}, bypass : BOOLEAN, role : {"owner", "app"}]]
    /\ task \in [Tasks -> TaskType]

\* Whose rows a statement on c sees in a table: the policy is the condition
\* bypass = 'on' OR organization_id = current_org.  A superuser, and the owner
\* of a table that has no policy forced on it, sees all of them.
Visible(c, tb) ==
    IF conn[c].role = "owner" /\ Superuser THEN Orgs
    ELSE IF conn[c].role = "app" /\ tb \notin grants THEN {}
    ELSE CASE table[tb] = "plain" -> Orgs
           [] table[tb] = "protected" -> IF conn[c].bypass THEN Orgs ELSE Orgs \cap {conn[c].org}
           [] OTHER -> {}

\* A statement of a task that is not in system_context sees no row of another
\* organization, before authentication none at all, whoever had the connection
\* before, whatever it forgets to filter by, and while other workers boot.
Isolated ==
    \A t \in Tasks : \A c \in task[t].holds : \A tb \in TablesOf[task[t].worker] :
        Enforce /\ ~task[t].bypass => Visible(c, tb) \subseteq {task[t].org}

\* And it sees all it should: those of its organization, everything in
\* system_context, everything without RLS; there is no gap while policies are
\* made anew, nor is anything left of them once RLS is off.
SeesItsOwn ==
    \A t \in Tasks : \A c \in task[t].holds : \A tb \in TablesOf[task[t].worker] :
        (IF task[t].bypass \/ ~Enforce THEN Orgs ELSE Orgs \cap {task[t].org}) \subseteq Visible(c, tb)

TenantsHold == TypeOK /\ Isolated /\ SeesItsOwn
=============================================================================
