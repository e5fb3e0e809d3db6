------------------------------ MODULE Workflow ------------------------------
(***************************************************************************)
(* The approval workflow of one organization and one asset type            *)
(* (services/workflow_service.py and the routers that call it): the        *)
(* per-type configuration, the pending_changes and                         *)
(* pending_change_approvals tables, the requests that write directly,      *)
(* submit, approve, reject or withdraw, and the assets and relationships   *)
(* they act on, with the paths that write without asking the gate.  Every  *)
(* await of a handler is a step, so requests                               *)
(* interleave between their database statements.  The body of approve's    *)
(* transaction after its SELECT ... FOR UPDATE is the part under the lock. *)
(***************************************************************************)
EXTENDS Integers, FiniteSets

CONSTANTS
    Users, Superadmins,
    Role,        \* the role each user has in the organization
    Deletable,   \* the users an administrator may delete (bounds DeleteUser)
    Assets, Rels, Changes,   \* row identities, each used at most once (uuid4)
    InitAssets, InitRels,    \* the rows there are at the start
    Requests,    \* the requests in flight at once
    Configs,     \* the configurations an administrator saves
    InitConfig,
    Ops,         \* the operations that users request of a handler with a gate
    Bypasses,    \* the operations requested on the other paths: <<path, op>>
    MaxCrashes,  \* how many requests may die with their worker
    Null

Actions == {"create", "update", "delete", "relationship_create", "relationship_delete"}
Roles == {"admin", "editor", "viewer", "auditor"}

\* What each path may do.  "form" are the handlers that ask requires_approval:
\* the forms, the JSON API, the links and the two bulk updates.  The others do
\* not ask: a clone and the links it copies, an import, the statement of
\* applicability of a framework.
PathActions == [form |-> Actions, clone |-> {"create"}, copy |-> {"relationship_create"},
                import |-> {"create", "relationship_create"}, statement |-> {"update"}]
Paths == DOMAIN PathActions

\* WorkflowConfig: which actions are gated, required_approvals (upsert_config
\* raises it to 1), approver_role and allow_self_approval.
ConfigType == [gate : SUBSET Actions, threshold : Nat \ {0},
               role : Roles \cup {Null}, self : BOOLEAN]

\* The target of a relationship operation is its source asset; "arg" is the
\* other endpoint of a link to create, or the relationship to delete.
OpType == [action : Actions, target : Assets \cup {Null},
           arg : Assets \cup Rels \cup {Null}]

RelType == [state : {"unborn", "live", "deleted"},
            src : Assets \cup {Null}, dst : Assets \cup {Null}]

ASSUME ConstantsAssumption ==
    /\ Superadmins \subseteq Users /\ Deletable \subseteq Users
    /\ Role \in [Users -> Roles]
    /\ InitAssets \subseteq Assets
    /\ InitRels \in [Rels -> RelType]
    /\ \A l \in Rels : InitRels[l].state = "live" =>
         {InitRels[l].src, InitRels[l].dst} \subseteq InitAssets
    /\ Configs \subseteq ConfigType /\ InitConfig \in ConfigType
    /\ Ops \subseteq OpType
    /\ Bypasses \subseteq (Paths \ {"form"}) \X OpType
    /\ \A b \in Bypasses : b[2].action \in PathActions[b[1]]
    /\ MaxCrashes \in Nat
    /\ IsFiniteSet(Users)
    /\ Null \notin Users /\ Null \notin Assets /\ Null \notin Rels /\ Null \notin Changes

VARIABLES
    config,     \* the row of workflow_config
    users,      \* the users that have not been deleted
    assets,     \* life cycle of each asset row
    rels,       \* relationship rows
    changes,    \* pending_changes
    approvals,  \* pending_change_approvals: the approvers of each change
    reqs,       \* the requests in flight
    crashes,    \* worker deaths so far
    \* history, read by no action
    seen,       \* every configuration that has been in force
    signed,     \* every approval ever committed (users' rows may be gone)
    applied,    \* how often a change's payload has been committed
    direct,     \* the actions that handlers which ask the gate ever applied directly
    unaudited   \* committed writes whose audit_log row is (still) missing

tables == <<users, assets, rels, changes, approvals>>
history == <<signed, applied, direct, unaudited>>
vars == <<config, tables, reqs, crashes, seen, history>>

-----------------------------------------------------------------------------
(* Rows and requests *)

NoOp == [action |-> Null, target |-> Null, arg |-> Null]
NoChange == [status |-> "none", op |-> NoOp, by |-> Null, decider |-> Null]
Idle == [pc |-> "idle", user |-> Null, op |-> NoOp, change |-> Null,
         cfg |-> Null, entity |-> Null, path |-> "form"]

Statuses == {"pending", "approved", "rejected", "withdrawn"}

PcsOfWrite == {"gate", "duplicate", "insert", "write", "audit"}
PcsOfDecision == {"config", "existing", "lock", "apply", "selfcheck", "reject", "withdraw"}
Pcs == PcsOfWrite \cup PcsOfDecision \cup {"idle", "cascade"}

ChangeType == [status : Statuses \cup {"none"}, op : OpType \cup {NoOp},
               by : Users \cup {Null}, decider : Users \cup {Null}]

ReqType == [pc : Pcs, user : Users \cup {Null}, op : OpType \cup {NoOp},
            change : Changes \cup {Null}, cfg : ConfigType \cup {Null},
            entity : Assets \cup Rels \cup {Null}, path : Paths]

TypeOK ==
    /\ config \in ConfigType
    /\ users \subseteq Users
    /\ assets \in [Assets -> {"unborn", "live", "deleted"}]
    /\ rels \in [Rels -> RelType]
    /\ changes \in [Changes -> ChangeType]
    /\ approvals \in [Changes -> SUBSET Users]
    /\ reqs \in [Requests -> ReqType]
    /\ crashes \in Nat
    /\ seen \subseteq ConfigType
    /\ signed \in [Changes -> SUBSET Users]
    /\ applied \in [Changes -> Nat]
    /\ direct \subseteq Actions
    /\ unaudited \subseteq Requests \X (Assets \cup Rels) \X Actions

Init ==
    /\ config = InitConfig
    /\ users = Users
    /\ assets = [a \in Assets |-> IF a \in InitAssets THEN "live" ELSE "unborn"]
    /\ rels = InitRels
    /\ changes = [c \in Changes |-> NoChange]
    /\ approvals = [c \in Changes |-> {}]
    /\ reqs = [r \in Requests |-> Idle]
    /\ crashes = 0
    /\ seen = {InitConfig}
    /\ signed = [c \in Changes |-> {}]
    /\ applied = [c \in Changes |-> 0]
    /\ direct = {}
    /\ unaudited = {}

\* ROLE_PERMISSIONS and require_permission: CREATE, EDIT and DELETE go to
\* admins and editors, APPROVE to admins; a superadmin holds every permission.
Writers == {u \in Users : Role[u] \in {"admin", "editor"}} \cup Superadmins
Approvers == {u \in Users : Role[u] = "admin"} \cup Superadmins

Goto(r, pc) == reqs' = [reqs EXCEPT ![r].pc = pc]
Finish(r) == reqs' = [reqs EXCEPT ![r] = Idle]

\* The response is an error and nothing was written, or all was rolled back.
Fail(r) == Finish(r) /\ UNCHANGED <<config, tables, crashes, seen, history>>

\* An approve transaction that reached its threshold holds the row lock on
\* its change until it commits or rolls back.
Locked(c) == \E r \in Requests : reqs[r].change = c /\ reqs[r].pc \in {"apply", "cascade"}
LockedByOther(c, r) == \E s \in Requests \ {r} :
    reqs[s].change = c /\ reqs[s].pc \in {"apply", "cascade"}

\* A DELETE FROM assets that has executed holds the asset row (and those of
\* its relationships) while its ON DELETE actions wait for other rows.
Deleting(a) == \E r \in Requests : reqs[r].pc = "cascade" /\ reqs[r].op.target = a

\* ON DELETE SET NULL: the column is lost with the asset.
TargetColumn(c) ==
    LET a == changes[c].op.target IN
    IF a \in Assets /\ assets[a] = "deleted" THEN Null ELSE a

Live(a) == a \in Assets /\ assets[a] = "live"
LiveRel(l) == l \in Rels /\ rels[l].state = "live"

\* The asset rows an operation must lock or share-lock to write.
Touches(op) ==
    CASE op.action \in {"update", "delete"} -> {op.target}
      [] op.action = "relationship_create" -> {op.target, op.arg}
      [] op.action = "relationship_delete" ->
            IF LiveRel(op.arg) THEN {rels[op.arg].src, rels[op.arg].dst} ELSE {}
      [] OTHER -> {}

RowsFree(op) == \A a \in Touches(op) : ~Deleting(a)

-----------------------------------------------------------------------------
(* Administration *)

\* workflow_admin_save / upsert_config: one INSERT ... ON CONFLICT DO UPDATE.
SaveConfig ==
    /\ \E cfg \in Configs : config' = cfg /\ seen' = seen \cup {cfg}
    /\ UNCHANGED <<tables, reqs, crashes, history>>

\* delete_user: submitted_by and decided_by become NULL (the username columns
\* kept in "by" and "decider" stay), the user's approvals cascade.  The
\* statement waits while a transaction holds a row it must rewrite.
DeleteUser(u) ==
    /\ u \in users \cap Deletable
    /\ \A r \in Requests : reqs[r].pc \in {"apply", "cascade"} /\ reqs[r].change # Null =>
           u \notin {reqs[r].user, changes[reqs[r].change].by}
    /\ users' = users \ {u}
    /\ approvals' = [c \in Changes |-> approvals[c] \ {u}]
    /\ UNCHANGED <<config, assets, rels, changes, reqs, crashes, seen, history>>

-----------------------------------------------------------------------------
(* Writing: the asset and relationship handlers *)

\* Bound: an operation is requested only while there is an unused identity
\* for every row that the requests and changes under way may still create.
Creators(action) ==
    Cardinality({r \in Requests : reqs[r].op.action = action /\ reqs[r].change = Null})
    + Cardinality({c \in Changes : changes[c].status = "pending" /\ changes[c].op.action = action})
RoomForChange ==
    Cardinality({c \in Changes : changes[c].status = "none"})
      > Cardinality({r \in Requests : reqs[r].pc \in {"gate", "duplicate", "insert"}})
Room(op) ==
    /\ op.action = "create" =>
         Cardinality({a \in Assets : assets[a] = "unborn"}) > Creators("create")
    /\ op.action = "relationship_create" =>
         Cardinality({l \in Rels : rels[l].state = "unborn"}) > Creators("relationship_create")

\* The handler's get_asset (or get_relationship and get_asset of its source).
OpenWrite(r, u, op) ==
    /\ reqs[r].pc = "idle"
    /\ u \in users \cap Writers
    /\ RoomForChange /\ Room(op)
    /\ op.action # "create" => Live(op.target)
    /\ op.action = "relationship_delete" =>
         LiveRel(op.arg) /\ rels[op.arg].src = op.target
    /\ reqs' = [reqs EXCEPT ![r] = [Idle EXCEPT !.pc = "gate", !.user = u, !.op = op]]
    /\ UNCHANGED <<config, tables, crashes, seen, history>>

\* A path without a gate: it looks its rows up and goes on to its statement.
OpenUngated(r, u, path, op) ==
    /\ reqs[r].pc = "idle"
    /\ u \in users \cap Writers
    /\ Room(op)
    /\ op.action # "create" => Live(op.target)
    /\ reqs' = [reqs EXCEPT ![r] =
                   [Idle EXCEPT !.pc = "write", !.user = u, !.op = op, !.path = path]]
    /\ UNCHANGED <<config, tables, crashes, seen, history>>

\* mutant: the delete handler forgets the gate
ReadGate_SkipsDelete(r) ==
    /\ reqs[r].pc = "gate"
    /\ Goto(r, IF reqs[r].op.action \notin (config.gate \ {"delete"}) THEN "write"
               ELSE IF reqs[r].op.target = Null THEN "insert" ELSE "duplicate")
    /\ UNCHANGED <<config, tables, crashes, seen, history>>

\* requires_approval reads the configuration; what follows acts on that read.
ReadGate(r) ==
    /\ reqs[r].pc = "gate"
    /\ Goto(r, IF reqs[r].op.action \notin config.gate THEN "write"
               ELSE IF reqs[r].op.target = Null THEN "insert" ELSE "duplicate")
    /\ UNCHANGED <<config, tables, crashes, seen, history>>

\* submit's SELECT: same target, same action, still pending.
DuplicateOf(op) == {c \in Changes :
    /\ changes[c].status = "pending"
    /\ changes[c].op.action = op.action
    /\ TargetColumn(c) = op.target}

CheckDuplicate(r) ==
    /\ reqs[r].pc = "duplicate"
    /\ IF DuplicateOf(reqs[r].op) = {} THEN Goto(r, "insert") ELSE Finish(r)
    /\ UNCHANGED <<config, tables, crashes, seen, history>>

\* submit's INSERT; its foreign keys name the target and the submitter.
InsertChange(r) ==
    LET op == reqs[r].op IN
    /\ reqs[r].pc = "insert"
    /\ op.target # Null => ~Deleting(op.target)
    /\ IF reqs[r].user \in users /\ (op.target # Null => Live(op.target))
       THEN \E c \in Changes :
              /\ changes[c].status = "none"
              /\ changes' = [changes EXCEPT ![c] =
                     [status |-> "pending", op |-> op, by |-> reqs[r].user, decider |-> Null]]
       ELSE UNCHANGED changes
    /\ Finish(r)
    /\ UNCHANGED <<config, users, assets, rels, approvals, crashes, seen, history>>

\* What create_asset, update_asset and create_relationship do to the tables;
\* e is the row written.
Create(e) ==
    /\ e \in Assets /\ assets[e] = "unborn"
    /\ assets' = [assets EXCEPT ![e] = "live"]
    /\ UNCHANGED rels
Update(op, e) ==
    /\ e = op.target /\ Live(e)
    /\ UNCHANGED <<assets, rels>>

Link(op, e) ==
    /\ e \in Rels /\ rels[e].state = "unborn"
    /\ Live(op.target) /\ Live(op.arg)
    /\ rels' = [rels EXCEPT ![e] = [state |-> "live", src |-> op.target, dst |-> op.arg]]
    /\ UNCHANGED assets
Unlink(op, e) ==
    /\ e = op.arg /\ e \in Rels
    /\ rels' = [rels EXCEPT ![e].state = "deleted"]
    /\ UNCHANGED assets

Perform(op, e) ==
    \/ op.action = "create" /\ Create(e)
    \/ op.action = "update" /\ Update(op, e)
    \/ op.action = "relationship_create" /\ Link(op, e)
    \/ op.action = "relationship_delete" /\ Unlink(op, e)

\* assets.updated_by references users; the relationship tables do not, and an
\* import leaves the column empty.
WriterKnown(r) ==
    reqs[r].op.action \in {"create", "update"} /\ reqs[r].path # "import" =>
        reqs[r].user \in users

\* Whether a direct write finds its rows; delete_relationship reports 404
\* when the row is gone.
Writable(op) ==
    CASE op.action = "create" -> TRUE
      [] op.action = "relationship_create" -> Live(op.target) /\ Live(op.arg)
      [] op.action = "relationship_delete" -> LiveRel(op.arg)
      [] OTHER -> Live(op.target)

\* The handler goes on to log the row it has written.
ToAudit(r, e) ==
    /\ reqs' = [reqs EXCEPT ![r].pc = "audit", ![r].entity = e]
    /\ unaudited' = unaudited \cup {<<r, e, reqs[r].op.action>>}

\* Whether a path logs what it wrote.  An edit is logged "if diff": if name,
\* description, status or owner of the row it returned differ from those of the
\* row read at the start.  A new value of a metadata field, a tag or the
\* criticality alone shows no difference.
MayLog(r) == reqs[r].path \notin {"copy", "statement"}
MayOmit(r) ==
    \/ reqs[r].path \in {"copy", "statement"}
    \/ reqs[r].path = "form" /\ reqs[r].op.action = "update"

\* A write without a pending change: one committed statement, then the audit
\* row where there is one to write.
WriteDirect(r) ==
    LET op == reqs[r].op IN
    /\ reqs[r].pc = "write"
    /\ op.action # "delete"
    /\ RowsFree(op) /\ WriterKnown(r) /\ Writable(op)
    /\ \E e \in Assets \cup Rels :
         /\ Perform(op, e)
         /\ \/ MayLog(r) /\ ToAudit(r, e)
            \/ MayOmit(r) /\ Finish(r) /\ UNCHANGED unaudited
    /\ direct' = IF reqs[r].path = "form" THEN direct \cup {op.action} ELSE direct
    /\ UNCHANGED <<config, users, changes, approvals, crashes, seen, signed, applied>>

\* The row is gone (404 or 400), or the writer is (foreign key violation).
WriteDirectFails(r) ==
    /\ reqs[r].pc = "write"
    /\ RowsFree(reqs[r].op)
    /\ ~(WriterKnown(r) /\ Writable(reqs[r].op))
    /\ Fail(r)

\* DELETE FROM assets: the row is locked, its ON DELETE actions follow.
BeginDelete(r) ==
    /\ reqs[r].pc = "write"
    /\ reqs[r].op.action = "delete"
    /\ RowsFree(reqs[r].op) /\ Writable(reqs[r].op)
    /\ Goto(r, "cascade")
    /\ UNCHANGED <<config, tables, crashes, seen, history>>

\* mutant: delete_asset on a second pool connection, which waits for the
\* lock of its own transaction
CascadeFree_OtherConnection(r) ==
    \A c \in Changes : TargetColumn(c) = reqs[r].op.target => ~Locked(c)

\* The statement can end once no other transaction holds a pending_changes
\* row whose target_asset_id it must set to NULL.
CascadeFree(r) ==
    \A c \in Changes : TargetColumn(c) = reqs[r].op.target => ~LockedByOther(c, r)

\* mutant: the relationships' foreign keys without ON DELETE CASCADE
Delete_NoCascade(a) ==
    /\ assets' = [assets EXCEPT ![a] = "deleted"]
    /\ UNCHANGED rels

Delete(a) ==
    /\ assets' = [assets EXCEPT ![a] = "deleted"]
    /\ rels' = [l \in Rels |-> IF a \in {rels[l].src, rels[l].dst}
                               THEN [rels[l] EXCEPT !.state = "deleted"] ELSE rels[l]]

EndDirectDelete(r) ==
    LET a == reqs[r].op.target IN
    /\ reqs[r].pc = "cascade" /\ reqs[r].change = Null
    /\ CascadeFree(r)
    /\ Delete(a)
    /\ ToAudit(r, a)
    /\ direct' = direct \cup {"delete"}
    /\ UNCHANGED <<config, users, changes, approvals, crashes, seen, signed, applied>>

\* mutant: an early return before log_audit_event
WriteAudit_Skipped(r) ==
    /\ reqs[r].pc = "audit"
    /\ Finish(r)
    /\ UNCHANGED <<config, tables, crashes, seen, history>>

\* log_audit_event after the commit (entity types are audited by default).
WriteAudit(r) ==
    /\ reqs[r].pc = "audit"
    /\ unaudited' = unaudited \ {<<r, reqs[r].entity, reqs[r].op.action>>}
    /\ Finish(r)
    /\ UNCHANGED <<config, tables, crashes, seen, signed, applied, direct>>

-----------------------------------------------------------------------------
(* Deciding: approve, reject, withdraw *)

\* The router loads the change; the service refuses a copy that is not
\* pending.  The copy's op and submitter never change in the table.
OpenDecision(r, u, c, pc) ==
    /\ reqs[r].pc = "idle"
    /\ u \in users
    /\ changes[c].status = "pending"
    /\ reqs' = [reqs EXCEPT ![r] = [Idle EXCEPT !.pc = pc, !.user = u,
                                   !.op = changes[c].op, !.change = c]]
    /\ UNCHANGED <<config, tables, crashes, seen, history>>

OpenApprove(r, u, c) == u \in Approvers /\ OpenDecision(r, u, c, "config")
\* mutant: reject without the self-approval check
OpenReject_NoSelfCheck(r, u, c) ==
    /\ u \in Approvers
    /\ OpenDecision(r, u, c, "reject")

OpenReject(r, u, c) ==
    /\ u \in Approvers
    /\ OpenDecision(r, u, c, IF changes[c].by = u THEN "selfcheck" ELSE "reject")
OpenWithdraw(r, u, c) ==
    /\ u \in Writers /\ changes[c].by = u
    /\ OpenDecision(r, u, c, "withdraw")

\* mutant: approve without the self-approval check
ReadConfig_NoSelfCheck(r) ==
    /\ reqs[r].pc = "config"
    /\ reqs' = [reqs EXCEPT ![r].pc = "existing", ![r].cfg = config]
    /\ UNCHANGED <<config, tables, crashes, seen, history>>

\* get_config, and the refusal of a self-approval under what it returned.
ReadConfig(r) ==
    /\ reqs[r].pc = "config"
    /\ IF changes[reqs[r].change].by = reqs[r].user /\ ~config.self
       THEN Finish(r)
       ELSE reqs' = [reqs EXCEPT ![r].pc = "existing", ![r].cfg = config]
    /\ UNCHANGED <<config, tables, crashes, seen, history>>

RoleFits(cfg, u) == cfg.role = Null \/ u \in Superadmins \/ Role[u] = cfg.role

\* "Has this approver already weighed in?", then the approver_role gate.
CheckExisting(r) ==
    /\ reqs[r].pc = "existing"
    /\ IF reqs[r].user \in approvals[reqs[r].change] \/ ~RoleFits(reqs[r].cfg, reqs[r].user)
       THEN Finish(r)
       ELSE Goto(r, "lock")
    /\ UNCHANGED <<config, tables, crashes, seen, history>>

\* mutant: the status is not read again under the lock
MayInsertApproval_StaleStatus(r) ==
    /\ reqs[r].user \in users
    /\ reqs[r].user \notin approvals[reqs[r].change]

\* Under the row lock: the change must still be pending, and inserting the
\* approval must violate neither its primary key nor its foreign keys.
MayInsertApproval(r) ==
    /\ changes[reqs[r].change].status = "pending"
    /\ reqs[r].user \in users
    /\ reqs[r].user \notin approvals[reqs[r].change]

AtLock(r) == reqs[r].pc = "lock" /\ ~Locked(reqs[r].change)
\* mutant: off by one in the count of approvals
CountWith_OffByOne(r) == Cardinality(approvals[reqs[r].change] \cup {reqs[r].user}) + 1

CountWith(r) == Cardinality(approvals[reqs[r].change] \cup {reqs[r].user})

RefuseLocked(r) ==
    /\ AtLock(r)
    /\ ~MayInsertApproval(r)
    /\ Fail(r)

\* Fewer approvals than required: the approval and its audit row commit.
PartialApprove(r) ==
    LET c == reqs[r].change IN
    /\ AtLock(r)
    /\ MayInsertApproval(r)
    /\ CountWith(r) < reqs[r].cfg.threshold
    /\ approvals' = [approvals EXCEPT ![c] = @ \cup {reqs[r].user}]
    /\ signed' = [signed EXCEPT ![c] = @ \cup {reqs[r].user}]
    /\ Finish(r)
    /\ UNCHANGED <<config, users, assets, rels, changes, crashes, seen, applied, direct, unaudited>>

\* Enough: keep the lock (and the uncommitted approval) and apply.
ReachThreshold(r) ==
    /\ AtLock(r)
    /\ MayInsertApproval(r)
    /\ CountWith(r) >= reqs[r].cfg.threshold
    /\ Goto(r, "apply")
    /\ UNCHANGED <<config, tables, crashes, seen, history>>

\* UPDATE pending_changes SET status='approved', and COMMIT: the approval,
\* the effect and its audit row become visible with it.
CommitApproval(r) ==
    LET c == reqs[r].change IN
    /\ changes' = [changes EXCEPT ![c].status = "approved", ![c].decider = reqs[r].user]
    /\ approvals' = [approvals EXCEPT ![c] = @ \cup {reqs[r].user}]
    /\ signed' = [signed EXCEPT ![c] = @ \cup {reqs[r].user}]
    /\ applied' = [applied EXCEPT ![c] = @ + 1]
    /\ Finish(r)
    /\ UNCHANGED <<config, users, crashes, seen, direct, unaudited>>

\* The result of delete_relationship is ignored here: a link that is already
\* gone is approved all the same.
Appliable(op) == op.action = "relationship_delete" \/ Writable(op)

ApplyChange(r) ==
    LET op == reqs[r].op IN
    /\ reqs[r].pc = "apply"
    /\ op.action # "delete"
    /\ RowsFree(op) /\ Appliable(op)
    /\ \E e \in Assets \cup Rels : Perform(op, e)
    /\ CommitApproval(r)

\* "Target asset no longer exists", endpoints gone: the exception rolls the
\* transaction back and the change stays pending.
ApplyFails(r) ==
    /\ reqs[r].pc = "apply"
    /\ RowsFree(reqs[r].op) /\ ~Appliable(reqs[r].op)
    /\ Fail(r)

ApplyDelete(r) ==
    /\ reqs[r].pc = "apply"
    /\ reqs[r].op.action = "delete"
    /\ RowsFree(reqs[r].op) /\ Appliable(reqs[r].op)
    /\ Goto(r, "cascade")
    /\ UNCHANGED <<config, tables, crashes, seen, history>>

EndApprovedDelete(r) ==
    /\ reqs[r].pc = "cascade" /\ reqs[r].change # Null
    /\ CascadeFree(r)
    /\ Delete(reqs[r].op.target)
    /\ CommitApproval(r)

\* reject's own configuration read, made only for the submitter.
CheckSelfReject(r) ==
    /\ reqs[r].pc = "selfcheck"
    /\ IF config.self THEN reqs' = [reqs EXCEPT ![r].pc = "reject", ![r].cfg = config]
                      ELSE Finish(r)
    /\ UNCHANGED <<config, tables, crashes, seen, history>>

\* mutant: UPDATE ... WHERE id, without the status
Close_Unconditional(r, status) ==
    LET c == reqs[r].change IN
    /\ ~Locked(c)
    /\ changes' = [changes EXCEPT ![c].status = status, ![c].decider = reqs[r].user]
    /\ Finish(r)
    /\ UNCHANGED <<config, users, assets, rels, approvals, crashes, seen, history>>

\* reject and withdraw end in UPDATE ... WHERE status='pending', which waits
\* for the row and then looks at the status again.
Close(r, status) ==
    LET c == reqs[r].change IN
    /\ ~Locked(c)
    /\ IF changes[c].status = "pending" /\ reqs[r].user \in users
       THEN changes' = [changes EXCEPT ![c].status = status, ![c].decider = reqs[r].user]
       ELSE UNCHANGED changes
    /\ Finish(r)
    /\ UNCHANGED <<config, users, assets, rels, approvals, crashes, seen, history>>

Reject(r) == reqs[r].pc = "reject" /\ Close(r, "rejected")
Withdraw(r) == reqs[r].pc = "withdraw" /\ Close(r, "withdrawn")

-----------------------------------------------------------------------------
(* Failures *)

\* The worker dies: the open transaction rolls back, nothing else runs.
Crash(r) ==
    /\ reqs[r].pc # "idle"
    /\ crashes < MaxCrashes
    /\ crashes' = crashes + 1
    /\ Finish(r)
    /\ UNCHANGED <<config, tables, seen, history>>

\* PostgreSQL aborts one of two transactions that wait for each other: a
\* delete that needs the change row, an approve that needs the asset row.
WaitCycle(r, s) ==
    /\ reqs[r].pc = "cascade"
    /\ reqs[s].pc = "apply"
    /\ r # s
    /\ TargetColumn(reqs[s].change) = reqs[r].op.target
    /\ reqs[r].op.target \in Touches(reqs[s].op)

BreakDeadlock(r) ==
    /\ \E s \in Requests : WaitCycle(r, s) \/ WaitCycle(s, r)
    /\ Fail(r)

-----------------------------------------------------------------------------
\* Every step of a request that has begun.
Step(r) ==
    \/ ReadGate(r) \/ CheckDuplicate(r) \/ InsertChange(r)
    \/ WriteDirect(r) \/ WriteDirectFails(r) \/ BeginDelete(r) \/ EndDirectDelete(r)
    \/ WriteAudit(r)
    \/ ReadConfig(r) \/ CheckExisting(r)
    \/ RefuseLocked(r) \/ PartialApprove(r) \/ ReachThreshold(r)
    \/ ApplyChange(r) \/ ApplyFails(r) \/ ApplyDelete(r) \/ EndApprovedDelete(r)
    \/ CheckSelfReject(r) \/ Reject(r) \/ Withdraw(r)
    \/ BreakDeadlock(r)

Open(r) ==
    \E u \in Users :
        \/ \E op \in Ops : OpenWrite(r, u, op)
        \/ \E b \in Bypasses : OpenUngated(r, u, b[1], b[2])
        \/ \E c \in Changes : OpenApprove(r, u, c) \/ OpenReject(r, u, c) \/ OpenWithdraw(r, u, c)

Next ==
    \/ SaveConfig
    \/ \E u \in Users : DeleteUser(u)
    \/ \E r \in Requests : Open(r) \/ Step(r) \/ Crash(r)

Spec == Init /\ [][Next]_vars

\* Handlers run to their end, row locks are granted in the order of their
\* queue (hence strong fairness) and the deadlock detector runs.
FairSpec == Spec /\ \A r \in Requests : SF_vars(Step(r))
-----------------------------------------------------------------------------
(* Properties *)

\* TypeOK of the tables above is the type invariant.

\* An approved change was applied exactly once and no other change was ever
\* applied, however many approvers reach the threshold at the same time (the
\* comment on the FOR UPDATE in approve).
AppliedIffApproved ==
    \A c \in Changes : applied[c] = IF changes[c].status = "approved" THEN 1 ELSE 0

MayApprove(cfg, u, by) == (u = by => cfg.self) /\ RoleFits(cfg, u)

\* Whoever's approval counts held the permission and was allowed by some
\* configuration that was in force: the submitter counts only where
\* allow_self_approval was on (four eyes), others only with the right role.
ApprovalsAuthorised ==
    \A c \in Changes : \A u \in signed[c] :
        u \in Approvers /\ \E cfg \in seen : MayApprove(cfg, u, changes[c].by)

\* An approved change has its quorum under ONE configuration that was in
\* force, which also allowed its decider: no mixture of an old threshold and
\* a new role, and no approver counted twice.
ApprovedHasQuorum ==
    \A c \in Changes : changes[c].status = "approved" =>
        /\ changes[c].decider \in signed[c]
        /\ \E cfg \in seen : /\ Cardinality(signed[c]) >= cfg.threshold
                            /\ MayApprove(cfg, changes[c].decider, changes[c].by)

\* Nobody decides on their own change, by approval or rejection, unless
\* self-approval has been switched on at some time.
FourEyes ==
    (\A cfg \in seen : ~cfg.self) =>
        \A c \in Changes : changes[c].status \in {"approved", "rejected"} =>
            changes[c].decider # changes[c].by

\* Of the handlers that ask the gate (the asset forms and their JSON API, the
\* relationship handlers, and the bulk updates of registers and of risks), no
\* action that has been gated since the start takes effect without a pending
\* change.  Clones, imports and the statement of applicability, which do not
\* ask, write beside them and are not covered.
GateRespected == \A a \in direct : \E cfg \in seen : a \notin cfg.gate

\* A live relationship joins two live assets, whatever deletes, direct or
\* approved, run while it is being created.
LinksHaveEndpoints ==
    \A l \in Rels : rels[l].state = "live" => Live(rels[l].src) /\ Live(rels[l].dst)

\* Once decided, a change keeps its status and its decider, and collects no
\* further approvals; the deletion of a user only removes approvals.
DecidedIsFinal ==
    [][\A c \in Changes : changes[c].status \in Statuses \ {"pending"} =>
           changes'[c] = changes[c] /\ approvals'[c] \subseteq approvals[c]]_vars

\* The queue with its locks and races implements the one-step queue.
Gate == INSTANCE ApprovalGate WITH
    Changes <- Changes, People <- Users,
    decision <- [c \in Changes |-> changes[c].status],
    votes <- signed, effects <- applied
ImplementsGate == Gate!Spec

\* Every request ends: the locks of approvals and deletes never leave two
\* requests waiting for each other for good.
RequestsFinish == \A r \in Requests : reqs[r].pc # "idle" ~> reqs[r].pc = "idle"

\* "An identical pending change for this asset is already awaiting approval"
\* (submit, and the test that expects 409): at most one of a kind is pending.
NoDuplicatePending ==
    \A c, d \in Changes :
        /\ {changes[c].status, changes[d].status} = {"pending"}
        /\ changes[c].op.action = changes[d].op.action
        /\ TargetColumn(c) # Null /\ TargetColumn(c) = TargetColumn(d)
        => c = d

\* Every committed create, link, unlink and delete of a handler, and every edit
\* whose copies of the row before and after differ in a logged field, has its
\* audit row, or a request that is about to write it; a worker that dies in
\* between loses one.  Edits of metadata, tags or criticality alone, the
\* statement of applicability and the links copied by a clone leave no row of
\* their own, with or without a crash, and are not counted.
WritesAudited ==
    Cardinality({w \in unaudited : ~(reqs[w[1]].pc = "audit" /\ reqs[w[1]].entity = w[2])})
      <= crashes

-----------------------------------------------------------------------------
(* The inductive invariant that WorkflowProofs rests on *)

\* The fields of a request that its place in the handler promises.
RequestOK(r) ==
    /\ reqs[r].pc # "idle" => reqs[r].user \in Users
    /\ reqs[r].pc \in PcsOfWrite => reqs[r].change = Null
    /\ reqs[r].pc \in PcsOfDecision => reqs[r].change \in Changes
    /\ reqs[r].change # Null => changes[reqs[r].change].status # "none"
    /\ reqs[r].pc = "cascade" => reqs[r].op.action = "delete" /\ reqs[r].op.target \in Assets
    /\ reqs[r].pc = "audit" => reqs[r].entity # Null
    /\ reqs[r].path # "form" => reqs[r].op.action # "delete"

Holds(r) == reqs[r].change # Null /\ reqs[r].pc \in {"apply", "cascade"}

\* What a request that decides a change knows of it.  A configuration it has
\* read stays in "seen"; what it has read of the change may be stale until it
\* holds the lock, and is exact from then on.
DecisionOK(r) ==
    LET c == reqs[r].change
        u == reqs[r].user
    IN
    /\ reqs[r].pc \in {"config", "existing", "lock"} \/ Holds(r) => u \in Approvers
    /\ reqs[r].pc = "existing" =>
         reqs[r].cfg \in seen /\ (u = changes[c].by => reqs[r].cfg.self)
    /\ reqs[r].pc = "lock" \/ Holds(r) =>
         reqs[r].cfg \in seen /\ MayApprove(reqs[r].cfg, u, changes[c].by)
    /\ Holds(r) =>
         /\ changes[c].status = "pending"
         /\ u \in users \ signed[c]
         /\ Cardinality(signed[c] \cup {u}) >= reqs[r].cfg.threshold
    /\ reqs[r].pc = "reject" /\ u = changes[c].by => \E cfg \in seen : cfg.self
    /\ reqs[r].path = "form" =>
         (reqs[r].pc = "write" \/ (reqs[r].pc = "cascade" /\ c = Null) =>
            \E cfg \in seen : reqs[r].op.action \notin cfg.gate)

OneHolder ==
    \A r, s \in Requests : Holds(r) /\ Holds(s) /\ reqs[r].change = reqs[s].change => r = s

\* What the tables say of a change.  A user's approval leaves the table only
\* with the user, so nobody alive can vote twice.
ChangeOK(c) ==
    /\ changes[c].status = "none" => signed[c] = {}
    /\ approvals[c] \subseteq signed[c]
    /\ signed[c] \cap users \subseteq approvals[c]
    /\ changes[c].status = "rejected" /\ changes[c].decider = changes[c].by =>
         \E cfg \in seen : cfg.self

IInv ==
    /\ TypeOK
    /\ config \in seen
    /\ \A r \in Requests : RequestOK(r) /\ DecisionOK(r)
    /\ OneHolder
    /\ \A c \in Changes : ChangeOK(c)
    /\ AppliedIffApproved /\ ApprovalsAuthorised /\ ApprovedHasQuorum
    /\ GateRespected

=============================================================================
