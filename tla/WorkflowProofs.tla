--------------------------- MODULE WorkflowProofs ---------------------------
(***************************************************************************)
(* Proofs about Workflow for every set of users, assets, changes, requests *)
(* and configurations: types, the safety of the approval queue (IInv is    *)
(* inductive), the refinement of ApprovalGate and the audit trail.         *)
(***************************************************************************)
EXTENDS Workflow, FiniteSetTheorems, TLAPS

-----------------------------------------------------------------------------
(* Type correctness.  TypeOK alone is not inductive: the end of a DELETE must *)
(* know that it names an asset, a commit that it names a change.              *)

TypeInv == TypeOK /\ \A r \in Requests : RequestOK(r)

StatusKept == \A c \in Changes : changes[c].status # "none" => changes'[c].status # "none"
OthersKept(r) == \A s \in Requests \ {r} : reqs'[s] = reqs[s]

\* The handlers behind the gate may do everything, the other paths delete nothing.
LEMMA PathFacts ==
    /\ "form" \in Paths
    /\ \A p \in Paths \ {"form"} : "delete" \notin PathActions[p]
  BY DEF Paths, PathActions

\* A handler that moves to its next await keeps the rest of its request.
LEMMA GotoFacts ==
    ASSUME TypeOK, NEW r \in Requests, NEW pc \in Pcs, Goto(r, pc)
    PROVE  /\ reqs' \in [Requests -> ReqType]
           /\ OthersKept(r)
           /\ reqs'[r].pc = pc
           /\ reqs'[r].user = reqs[r].user /\ reqs'[r].op = reqs[r].op
           /\ reqs'[r].change = reqs[r].change /\ reqs'[r].cfg = reqs[r].cfg
           /\ reqs'[r].entity = reqs[r].entity /\ reqs'[r].path = reqs[r].path
  <1>1. [reqs[r] EXCEPT !.pc = pc] \in ReqType
    BY DEF TypeOK, ReqType
  <1>2. reqs[r] \in ReqType BY DEF TypeOK
  <1>3. reqs' = [reqs EXCEPT ![r] = [reqs[r] EXCEPT !.pc = pc]]
    BY DEF Goto
  <1>4. reqs'[r] = [reqs[r] EXCEPT !.pc = pc]
    BY <1>3 DEF TypeOK
  <1> QED BY <1>1, <1>2, <1>3, <1>4 DEF TypeOK, OthersKept, ReqType

LEMMA FinishFacts ==
    ASSUME TypeOK, NEW r \in Requests, Finish(r)
    PROVE  /\ reqs' \in [Requests -> ReqType]
           /\ OthersKept(r)
           /\ reqs'[r].pc = "idle" /\ reqs'[r].change = Null /\ reqs'[r].path = "form"
  <1>1. Idle \in ReqType BY PathFacts DEF Idle, ReqType, Pcs
  <1> QED BY <1>1 DEF TypeOK, Finish, OthersKept, Idle

\* One request moves, no change disappears: only that request needs a look.
LEMMA RequestsKept ==
    ASSUME TypeInv, TypeOK', NEW r \in Requests, StatusKept, OthersKept(r), RequestOK(r)'
    PROVE  TypeInv'
  <1>1. ASSUME NEW s \in Requests \ {r} PROVE RequestOK(s)'
    <2>1. reqs'[s] = reqs[s] /\ RequestOK(s) /\ reqs[s] \in ReqType
      BY DEF OthersKept, TypeInv, TypeOK
    <2>2. reqs[s].change # Null => reqs[s].change \in Changes
      BY <2>1 DEF ReqType
    <2> QED BY <2>1, <2>2 DEF RequestOK, StatusKept
  <1> QED BY <1>1 DEF TypeInv

LEMMA IdleOK ==
    ASSUME NEW r \in Requests, reqs'[r].pc = "idle", reqs'[r].change = Null,
           reqs'[r].path = "form"
    PROVE  RequestOK(r)'
  BY DEF RequestOK, PcsOfWrite, PcsOfDecision

\* Most steps read the tables and only move their request on.
OnlyReqs == UNCHANGED <<config, tables, crashes, seen, history>>

LEMMA OnlyReqsType ==
    ASSUME TypeOK, OnlyReqs, reqs' \in [Requests -> ReqType]
    PROVE  TypeOK' /\ StatusKept
  BY DEF TypeOK, OnlyReqs, tables, history, StatusKept

LEMMA FailKeepsType ==
    ASSUME TypeInv, NEW r \in Requests, Fail(r)
    PROVE  TypeInv'
  <1>1. OnlyReqs /\ Finish(r) BY DEF Fail, OnlyReqs
  <1>2. reqs' \in [Requests -> ReqType] /\ OthersKept(r) /\ RequestOK(r)'
    BY <1>1, FinishFacts, IdleOK DEF TypeInv
  <1> QED BY <1>1, <1>2, OnlyReqsType, RequestsKept DEF TypeInv

\* A move within the handler of a write, or within a decision.
LEMMA MoveKeepsType ==
    ASSUME TypeInv, NEW r \in Requests, NEW pc \in Pcs, Goto(r, pc), OnlyReqs,
           \/ reqs[r].pc \in PcsOfWrite /\ pc \in PcsOfWrite \ {"audit"}
           \/ reqs[r].pc \in PcsOfDecision /\ pc \in PcsOfDecision
           \/ /\ reqs[r].pc \in PcsOfWrite \cup PcsOfDecision /\ pc = "cascade"
              /\ reqs[r].op.action = "delete" /\ reqs[r].op.target \in Assets
    PROVE  TypeInv'
  <1>1. /\ reqs' \in [Requests -> ReqType]
        /\ OthersKept(r)
        /\ reqs'[r].pc = pc
        /\ reqs'[r].user = reqs[r].user /\ reqs'[r].op = reqs[r].op
        /\ reqs'[r].change = reqs[r].change /\ reqs'[r].path = reqs[r].path
    BY GotoFacts DEF TypeInv
  <1>2. TypeOK' /\ StatusKept BY <1>1, OnlyReqsType DEF TypeInv
  <1>3. RequestOK(r) BY DEF TypeInv
  <1>4. changes' = changes BY DEF OnlyReqs, tables
  <1>5. RequestOK(r)'
    BY <1>1, <1>3, <1>4 DEF RequestOK, PcsOfWrite, PcsOfDecision
  <1> QED BY <1>1, <1>2, <1>5, RequestsKept

LEMMA AdministrationKeepsType ==
    ASSUME TypeInv, SaveConfig \/ \E u \in Users : DeleteUser(u)
    PROVE  TypeInv'
  <1>1. CASE SaveConfig
    BY <1>1, ConstantsAssumption DEF SaveConfig, TypeInv, TypeOK, RequestOK, tables, history
  <1>2. ASSUME NEW u \in Users, DeleteUser(u) PROVE TypeInv'
    BY <1>2 DEF DeleteUser, TypeInv, TypeOK, RequestOK, history
  <1> QED BY <1>1, <1>2

LEMMA OpenKeepsType ==
    ASSUME TypeInv, NEW r \in Requests, Open(r)
    PROVE  TypeInv'
  <1>1. ASSUME NEW u \in Users, NEW op \in Ops, OpenWrite(r, u, op) PROVE TypeInv'
    <2> DEFINE q == [Idle EXCEPT !.pc = "gate", !.user = u, !.op = op]
    <2>1. /\ q \in ReqType /\ q.pc = "gate" /\ q.user = u /\ q.change = Null
          /\ q.path = "form"
      BY ConstantsAssumption, PathFacts DEF Idle, ReqType, Pcs, PcsOfWrite
    <2>2. reqs' = [reqs EXCEPT ![r] = q] /\ OnlyReqs
      BY <1>1 DEF OpenWrite, OnlyReqs
    <2>3. reqs' \in [Requests -> ReqType] /\ reqs'[r] = q /\ OthersKept(r)
      BY <2>1, <2>2 DEF TypeInv, TypeOK, OthersKept
    <2>4. RequestOK(r)' BY <2>1, <2>3 DEF RequestOK, PcsOfWrite, PcsOfDecision
    <2> QED BY <2>2, <2>3, <2>4, OnlyReqsType, RequestsKept DEF TypeInv
  <1>4. ASSUME NEW u \in Users, NEW b \in Bypasses, OpenUngated(r, u, b[1], b[2])
        PROVE  TypeInv'
    <2> DEFINE q == [Idle EXCEPT !.pc = "write", !.user = u, !.op = b[2], !.path = b[1]]
    <2>1. /\ b[1] \in Paths \ {"form"} /\ b[2] \in OpType
          /\ b[2].action # "delete"
      BY ConstantsAssumption, PathFacts
    <2>2. /\ q \in ReqType /\ q.pc = "write" /\ q.user = u /\ q.change = Null
          /\ q.op = b[2]
      BY <2>1 DEF Idle, ReqType, Pcs, PcsOfWrite
    <2>3. reqs' = [reqs EXCEPT ![r] = q] /\ OnlyReqs
      BY <1>4 DEF OpenUngated, OnlyReqs
    <2>4. reqs' \in [Requests -> ReqType] /\ reqs'[r] = q /\ OthersKept(r)
      BY <2>2, <2>3 DEF TypeInv, TypeOK, OthersKept
    <2>5. RequestOK(r)' BY <2>1, <2>2, <2>4 DEF RequestOK, PcsOfWrite, PcsOfDecision
    <2> QED BY <2>3, <2>4, <2>5, OnlyReqsType, RequestsKept DEF TypeInv
  <1>2. ASSUME NEW u \in Users, NEW c \in Changes, NEW pc \in PcsOfDecision,
               OpenDecision(r, u, c, pc)
        PROVE  TypeInv'
    <2> DEFINE q == [Idle EXCEPT !.pc = pc, !.user = u, !.op = changes[c].op, !.change = c]
    <2>1. changes[c].op \in OpType \cup {NoOp}
      BY DEF TypeInv, TypeOK, ChangeType
    <2>2. q \in ReqType /\ q.pc = pc /\ q.user = u /\ q.change = c /\ q.path = "form"
      BY <2>1, PathFacts DEF Idle, ReqType, Pcs
    <2>3. reqs' = [reqs EXCEPT ![r] = q] /\ OnlyReqs /\ changes[c].status = "pending"
      BY <1>2 DEF OpenDecision, OnlyReqs
    <2>4. reqs' \in [Requests -> ReqType] /\ reqs'[r] = q /\ OthersKept(r)
      BY <2>2, <2>3 DEF TypeInv, TypeOK, OthersKept
    <2>5. changes' = changes BY <2>3 DEF OnlyReqs, tables
    <2>6. RequestOK(r)'
      BY <2>2, <2>3, <2>4, <2>5, ConstantsAssumption DEF RequestOK, PcsOfWrite, PcsOfDecision
    <2> QED BY <2>3, <2>4, <2>6, OnlyReqsType, RequestsKept DEF TypeInv
  <1>3. ASSUME NEW u \in Users, NEW c \in Changes,
               OpenApprove(r, u, c) \/ OpenReject(r, u, c) \/ OpenWithdraw(r, u, c)
        PROVE  TypeInv'
    BY <1>2, <1>3 DEF OpenApprove, OpenReject, OpenWithdraw, PcsOfDecision
  <1> QED BY <1>1, <1>3, <1>4 DEF Open

\* The steps that move on or fail and write no table.
LEMMA ReadStepKeepsType ==
    ASSUME TypeInv, NEW r \in Requests,
           \/ ReadGate(r) \/ CheckDuplicate(r) \/ WriteDirectFails(r) \/ BeginDelete(r)
           \/ CheckExisting(r) \/ RefuseLocked(r) \/ ReachThreshold(r)
           \/ ApplyFails(r) \/ ApplyDelete(r) \/ BreakDeadlock(r)
    PROVE  TypeInv'
  <1>1. CASE ReadGate(r)
    BY <1>1, MoveKeepsType DEF ReadGate, OnlyReqs, Pcs, PcsOfWrite
  <1>2. CASE CheckDuplicate(r)
    <2>1. CASE Goto(r, "insert")
      BY <1>2, <2>1, MoveKeepsType DEF CheckDuplicate, OnlyReqs, Pcs, PcsOfWrite
    <2>2. CASE Finish(r) BY <1>2, <2>2, FailKeepsType DEF CheckDuplicate, Fail
    <2> QED BY <1>2, <2>1, <2>2 DEF CheckDuplicate
  <1>3. CASE WriteDirectFails(r) \/ RefuseLocked(r) \/ ApplyFails(r) \/ BreakDeadlock(r)
    BY <1>3, FailKeepsType DEF WriteDirectFails, RefuseLocked, ApplyFails, BreakDeadlock
  <1>4. CASE BeginDelete(r)
    <2>1. reqs[r].op.target \in Assets BY <1>4 DEF BeginDelete, Writable, Live
    <2> QED BY <1>4, <2>1, MoveKeepsType DEF BeginDelete, OnlyReqs, Pcs, PcsOfWrite
  <1>5. CASE ApplyDelete(r)
    <2>1. reqs[r].op.target \in Assets BY <1>5 DEF ApplyDelete, Appliable, Writable, Live
    <2> QED BY <1>5, <2>1, MoveKeepsType DEF ApplyDelete, OnlyReqs, Pcs, PcsOfDecision
  <1>6. CASE CheckExisting(r)
    <2>1. CASE Goto(r, "lock")
      BY <1>6, <2>1, MoveKeepsType DEF CheckExisting, OnlyReqs, Pcs, PcsOfDecision
    <2>2. CASE Finish(r) BY <1>6, <2>2, FailKeepsType DEF CheckExisting, Fail
    <2> QED BY <1>6, <2>1, <2>2 DEF CheckExisting
  <1>7. CASE ReachThreshold(r)
    BY <1>7, MoveKeepsType DEF ReachThreshold, AtLock, OnlyReqs, Pcs, PcsOfDecision
  <1> QED BY <1>1, <1>2, <1>3, <1>4, <1>5, <1>6, <1>7

\* The two steps that keep the configuration they have read.
LEMMA ConfigStepKeepsType ==
    ASSUME TypeInv, NEW r \in Requests, ReadConfig(r) \/ CheckSelfReject(r)
    PROVE  TypeInv'
  <1>1. OnlyReqs BY DEF ReadConfig, CheckSelfReject, OnlyReqs
  <1>2. CASE Finish(r) BY <1>1, <1>2, FailKeepsType DEF Fail, OnlyReqs
  <1>3. ASSUME NEW pc \in {"existing", "reject"}, reqs[r].pc \in PcsOfDecision,
               reqs' = [reqs EXCEPT ![r].pc = pc, ![r].cfg = config]
        PROVE  TypeInv'
    <2> DEFINE q == [reqs[r] EXCEPT !.pc = pc, !.cfg = config]
    <2>1. /\ q \in ReqType /\ q.pc = pc /\ q.user = reqs[r].user
          /\ q.change = reqs[r].change /\ q.op = reqs[r].op /\ q.path = reqs[r].path
      BY <1>3 DEF TypeInv, TypeOK, ReqType, Pcs, PcsOfDecision
    <2>2. reqs' = [reqs EXCEPT ![r] = q] BY <1>3 DEF TypeInv, TypeOK, ReqType
    <2>3. reqs' \in [Requests -> ReqType] /\ reqs'[r] = q /\ OthersKept(r)
      BY <2>1, <2>2 DEF TypeInv, TypeOK, OthersKept
    <2>4. changes' = changes BY <1>1 DEF OnlyReqs, tables
    <2>5. RequestOK(r)'
      BY <1>3, <2>1, <2>3, <2>4 DEF TypeInv, RequestOK, PcsOfWrite, PcsOfDecision
    <2> QED BY <1>1, <2>3, <2>5, OnlyReqsType, RequestsKept DEF TypeInv
  <1> QED BY <1>2, <1>3 DEF ReadConfig, CheckSelfReject, PcsOfDecision

LEMMA ChangeUpdateType ==
    ASSUME TypeOK, NEW c \in Changes, NEW u \in Users, NEW status \in Statuses,
           changes' = [changes EXCEPT ![c].status = status, ![c].decider = u]
    PROVE  /\ changes' \in [Changes -> ChangeType]
           /\ StatusKept
           /\ changes'[c] = [changes[c] EXCEPT !.status = status, !.decider = u]
           /\ \A d \in Changes \ {c} : changes'[d] = changes[d]
  <1> DEFINE q == [changes[c] EXCEPT !.status = status, !.decider = u]
  <1>1. q \in ChangeType BY DEF TypeOK, ChangeType
  <1>2. changes' = [changes EXCEPT ![c] = q] BY DEF TypeOK, ChangeType
  <1>3. changes' \in [Changes -> ChangeType] /\ changes'[c] = q BY <1>1, <1>2 DEF TypeOK
  <1>4. q.status = status BY DEF TypeOK, ChangeType
  <1>5. \A d \in Changes \ {c} : changes'[d] = changes[d] BY <1>2 DEF TypeOK
  <1> QED BY <1>3, <1>4, <1>5 DEF StatusKept, Statuses

LEMMA InsertChangeKeepsType ==
    ASSUME TypeInv, NEW r \in Requests, InsertChange(r)
    PROVE  TypeInv'
  <1>1. /\ reqs' \in [Requests -> ReqType]
        /\ OthersKept(r) /\ RequestOK(r)'
    BY FinishFacts, IdleOK DEF TypeInv, InsertChange
  <1>2. CASE UNCHANGED changes
    <2>1. OnlyReqs
      BY <1>2 DEF InsertChange, OnlyReqs, tables
    <2> QED BY <1>1, <2>1, OnlyReqsType, RequestsKept DEF TypeInv
  <1>3. ASSUME NEW c \in Changes,
               changes' = [changes EXCEPT ![c] =
                 [status |-> "pending", op |-> reqs[r].op, by |-> reqs[r].user, decider |-> Null]]
        PROVE  TypeInv'
    <2> DEFINE q == [status |-> "pending", op |-> reqs[r].op, by |-> reqs[r].user,
                     decider |-> Null]
    <2>1. q \in ChangeType /\ q.status = "pending"
      BY DEF TypeInv, TypeOK, ReqType, ChangeType, Statuses
    <2>2. changes' \in [Changes -> ChangeType] /\ StatusKept
      BY <1>3, <2>1 DEF TypeInv, TypeOK, StatusKept
    <2>3. TypeOK'
      BY <1>1, <2>2 DEF TypeInv, TypeOK, InsertChange, history
    <2> QED BY <1>1, <2>2, <2>3, RequestsKept
  <1> QED BY <1>2, <1>3 DEF InsertChange

\* What writes an asset or a relationship keeps the types of both tables.
LEMMA PerformType ==
    ASSUME TypeOK, NEW op \in OpType \cup {NoOp}, NEW e, Perform(op, e)
    PROVE  /\ assets' \in [Assets -> {"unborn", "live", "deleted"}]
           /\ rels' \in [Rels -> RelType]
           /\ op.action \in Actions
           /\ e \in Assets \cup Rels
  <1>1. CASE op.action = "create" /\ Create(e)
    BY <1>1 DEF Create, TypeOK, Actions
  <1>2. CASE op.action = "update" /\ Update(op, e)
    BY <1>2 DEF Update, Live, TypeOK, Actions
  <1>3. CASE op.action = "relationship_create" /\ Link(op, e)
    <2>1. [state |-> "live", src |-> op.target, dst |-> op.arg] \in RelType
      BY <1>3 DEF Link, Live, RelType
    <2> QED BY <1>3, <2>1 DEF Link, TypeOK, Actions
  <1>4. CASE op.action = "relationship_delete" /\ Unlink(op, e)
    <2>1. [rels[e] EXCEPT !.state = "deleted"] \in RelType
      BY <1>4 DEF Unlink, TypeOK, RelType
    <2>2. rels' = [rels EXCEPT ![e] = [rels[e] EXCEPT !.state = "deleted"]]
      BY <1>4 DEF Unlink
    <2> QED BY <1>4, <2>1, <2>2 DEF Unlink, TypeOK, Actions
  <1> QED BY <1>1, <1>2, <1>3, <1>4 DEF Perform

LEMMA DeleteType ==
    ASSUME TypeOK, NEW a \in Assets, Delete(a)
    PROVE  /\ assets' \in [Assets -> {"unborn", "live", "deleted"}]
           /\ rels' \in [Rels -> RelType]
  <1>1. \A l \in Rels : [rels[l] EXCEPT !.state = "deleted"] \in RelType
    BY DEF TypeOK, RelType
  <1> QED BY <1>1 DEF Delete, TypeOK

\* The move to the audit record, with the row that was written.
LEMMA ToAuditFacts ==
    ASSUME TypeInv, NEW r \in Requests, NEW e \in Assets \cup Rels,
           reqs[r].pc = "write" \/ (reqs[r].pc = "cascade" /\ reqs[r].change = Null),
           ToAudit(r, e), reqs[r].op.action \in Actions,
           changes' = changes
    PROVE  /\ reqs' \in [Requests -> ReqType]
           /\ OthersKept(r) /\ StatusKept
           /\ RequestOK(r)'
           /\ reqs'[r].pc = "audit" /\ reqs'[r].change = Null
           /\ unaudited' \subseteq Requests \X (Assets \cup Rels) \X Actions
  <1> DEFINE q == [reqs[r] EXCEPT !.pc = "audit", !.entity = e]
  <1>1. /\ q \in ReqType /\ q.pc = "audit" /\ q.entity = e
        /\ q.user = reqs[r].user /\ q.change = reqs[r].change
        /\ q.op = reqs[r].op /\ q.path = reqs[r].path
    BY DEF TypeInv, TypeOK, ReqType, Pcs, PcsOfWrite
  <1>2. reqs' = [reqs EXCEPT ![r] = q] BY DEF ToAudit, TypeInv, TypeOK, ReqType
  <1>3. reqs' \in [Requests -> ReqType] /\ reqs'[r] = q /\ OthersKept(r)
    BY <1>1, <1>2 DEF TypeInv, TypeOK, OthersKept
  <1>4. /\ reqs[r].change = Null /\ reqs[r].user \in Users
        /\ reqs[r].path # "form" => reqs[r].op.action # "delete"
    BY DEF TypeInv, RequestOK, PcsOfWrite
  <1>5. RequestOK(r)'
    BY <1>1, <1>3, <1>4, ConstantsAssumption DEF RequestOK, PcsOfWrite, PcsOfDecision
  <1>6. unaudited' \subseteq Requests \X (Assets \cup Rels) \X Actions
    BY DEF ToAudit, TypeInv, TypeOK
  <1> QED BY <1>1, <1>3, <1>4, <1>5, <1>6 DEF StatusKept

LEMMA DirectWriteKeepsType ==
    ASSUME TypeInv, NEW r \in Requests, WriteDirect(r) \/ EndDirectDelete(r)
    PROVE  TypeInv'
  <1>1. CASE WriteDirect(r)
    <2>1. PICK e \in Assets \cup Rels :
            /\ Perform(reqs[r].op, e)
            /\ ToAudit(r, e) \/ (Finish(r) /\ UNCHANGED unaudited)
      BY <1>1 DEF WriteDirect
    <2>2. reqs[r].op \in OpType \cup {NoOp} BY DEF TypeInv, TypeOK, ReqType
    <2>3. /\ assets' \in [Assets -> {"unborn", "live", "deleted"}]
          /\ rels' \in [Rels -> RelType]
          /\ reqs[r].op.action \in Actions
      BY <2>1, <2>2, PerformType DEF TypeInv
    <2>4. /\ reqs' \in [Requests -> ReqType] /\ OthersKept(r) /\ StatusKept /\ RequestOK(r)'
          /\ unaudited' \subseteq Requests \X (Assets \cup Rels) \X Actions
      <3>1. reqs[r].pc = "write" /\ changes' = changes BY <1>1 DEF WriteDirect
      <3>2. CASE ToAudit(r, e) BY <2>3, <3>1, <3>2, ToAuditFacts
      <3>3. CASE Finish(r) /\ UNCHANGED unaudited
        BY <3>1, <3>3, FinishFacts, IdleOK DEF TypeInv, TypeOK, StatusKept
      <3> QED BY <2>1, <3>2, <3>3
    <2>6. direct' \subseteq Actions
      BY <1>1, <2>3 DEF WriteDirect, TypeInv, TypeOK
    <2>7. TypeOK' BY <1>1, <2>3, <2>4, <2>6 DEF WriteDirect, TypeInv, TypeOK
    <2> QED BY <2>4, <2>7, RequestsKept
  <1>2. CASE EndDirectDelete(r)
    <2> DEFINE a == reqs[r].op.target
    <2>1. a \in Assets /\ reqs[r].op.action \in Actions
      BY <1>2 DEF EndDirectDelete, TypeInv, RequestOK, Actions
    <2>2. /\ assets' \in [Assets -> {"unborn", "live", "deleted"}]
          /\ rels' \in [Rels -> RelType]
      BY <1>2, <2>1, DeleteType DEF EndDirectDelete, TypeInv
    <2>3. /\ reqs' \in [Requests -> ReqType] /\ OthersKept(r) /\ StatusKept /\ RequestOK(r)'
          /\ unaudited' \subseteq Requests \X (Assets \cup Rels) \X Actions
      BY <1>2, <2>1, ToAuditFacts DEF EndDirectDelete
    <2>4. TypeOK' BY <1>2, <2>1, <2>2, <2>3 DEF EndDirectDelete, TypeInv, TypeOK, Actions
    <2> QED BY <2>3, <2>4, RequestsKept
  <1> QED BY <1>1, <1>2

\* The handlers that end here and write to the tables of the queue.
LEMMA EndingKeepsType ==
    ASSUME TypeInv, NEW r \in Requests,
           \/ WriteAudit(r) \/ PartialApprove(r) \/ Reject(r) \/ Withdraw(r) \/ Crash(r)
    PROVE  TypeInv'
  <1>1. Finish(r)
    BY DEF WriteAudit, PartialApprove, Reject, Withdraw, Close, Crash
  <1>2. reqs' \in [Requests -> ReqType] /\ OthersKept(r) /\ RequestOK(r)'
    BY <1>1, FinishFacts, IdleOK DEF TypeInv
  <1>3. CASE WriteAudit(r) \/ Crash(r)
    BY <1>2, <1>3, RequestsKept DEF WriteAudit, Crash, TypeInv, TypeOK, tables, history, StatusKept
  <1>4. CASE PartialApprove(r)
    <2>1. reqs[r].change \in Changes /\ reqs[r].user \in Users
      BY <1>4 DEF PartialApprove, AtLock, TypeInv, RequestOK, PcsOfDecision
    <2>2. /\ approvals' \in [Changes -> SUBSET Users]
          /\ signed' \in [Changes -> SUBSET Users]
      BY <1>4, <2>1 DEF PartialApprove, TypeInv, TypeOK
    <2> QED BY <1>2, <1>4, <2>2, RequestsKept DEF PartialApprove, TypeInv, TypeOK, StatusKept
  <1>5. ASSUME NEW status \in {"rejected", "withdrawn"},
               reqs[r].pc \in {"reject", "withdraw"}, Close(r, status)
        PROVE  TypeInv'
    <2>1. reqs[r].change \in Changes /\ reqs[r].user \in Users
      BY <1>5 DEF TypeInv, RequestOK, PcsOfDecision
    <2>2. changes' \in [Changes -> ChangeType] /\ StatusKept
      <3>1. CASE UNCHANGED changes BY <3>1 DEF TypeInv, TypeOK, StatusKept
      <3>2. CASE ~UNCHANGED changes
        BY <1>5, <2>1, <3>2, ChangeUpdateType DEF Close, TypeInv, Statuses
      <3> QED BY <3>1, <3>2
    <2>3. TypeOK' BY <1>2, <1>5, <2>2 DEF Close, TypeInv, TypeOK, history
    <2> QED BY <1>2, <2>2, <2>3, RequestsKept
  <1> QED BY <1>3, <1>4, <1>5 DEF Reject, Withdraw

LEMMA CommitKeepsType ==
    ASSUME TypeInv, NEW r \in Requests, ApplyChange(r) \/ EndApprovedDelete(r)
    PROVE  TypeInv'
  <1>1. CommitApproval(r) BY DEF ApplyChange, EndApprovedDelete
  <1>2. reqs[r].change \in Changes /\ reqs[r].user \in Users
    BY DEF ApplyChange, EndApprovedDelete, TypeInv, TypeOK, ReqType, RequestOK, PcsOfDecision
  <1>3. reqs' \in [Requests -> ReqType] /\ OthersKept(r) /\ RequestOK(r)'
    BY <1>1, FinishFacts, IdleOK DEF TypeInv, CommitApproval
  <1>4. changes' \in [Changes -> ChangeType] /\ StatusKept
    BY <1>1, <1>2, ChangeUpdateType DEF CommitApproval, TypeInv, Statuses
  <1>5. /\ approvals' \in [Changes -> SUBSET Users]
        /\ signed' \in [Changes -> SUBSET Users]
        /\ applied' \in [Changes -> Nat]
    BY <1>1, <1>2 DEF CommitApproval, TypeInv, TypeOK
  <1>6. /\ assets' \in [Assets -> {"unborn", "live", "deleted"}]
        /\ rels' \in [Rels -> RelType]
    <2>1. CASE ApplyChange(r)
      <3>1. reqs[r].op \in OpType \cup {NoOp} BY DEF TypeInv, TypeOK, ReqType
      <3> QED BY <2>1, <3>1, PerformType DEF ApplyChange, TypeInv
    <2>2. CASE EndApprovedDelete(r)
      <3>1. reqs[r].op.target \in Assets
        BY <2>2 DEF EndApprovedDelete, TypeInv, RequestOK
      <3> QED BY <2>2, <3>1, DeleteType DEF EndApprovedDelete, TypeInv
    <2> QED BY <2>1, <2>2
  <1>7. TypeOK' BY <1>1, <1>3, <1>4, <1>5, <1>6 DEF CommitApproval, TypeInv, TypeOK
  <1> QED BY <1>3, <1>4, <1>7, RequestsKept

LEMMA InitType == Init => TypeInv
  <1> SUFFICES ASSUME Init PROVE TypeInv
    OBVIOUS
  <1>1. Idle \in ReqType /\ NoChange \in ChangeType
    BY PathFacts DEF Idle, NoChange, ReqType, ChangeType, Pcs
  <1>2. TypeOK BY <1>1, ConstantsAssumption DEF Init, TypeOK
  <1>3. \A r \in Requests : RequestOK(r)
    BY DEF Init, RequestOK, Idle, PcsOfWrite, PcsOfDecision
  <1> QED BY <1>2, <1>3 DEF TypeInv

LEMMA NextKeepsType == TypeInv /\ [Next]_vars => TypeInv'
  <1> SUFFICES ASSUME TypeInv, [Next]_vars PROVE TypeInv'
    OBVIOUS
  <1>1. CASE UNCHANGED vars
    BY <1>1 DEF vars, tables, history, TypeInv, TypeOK, RequestOK
  <1>2. CASE SaveConfig \/ \E u \in Users : DeleteUser(u)
    BY <1>2, AdministrationKeepsType
  <1>3. ASSUME NEW r \in Requests, Open(r) PROVE TypeInv'
    BY <1>3, OpenKeepsType
  <1>4. ASSUME NEW r \in Requests, Step(r) PROVE TypeInv'
    BY <1>4, ReadStepKeepsType, ConfigStepKeepsType, InsertChangeKeepsType,
       DirectWriteKeepsType, EndingKeepsType, CommitKeepsType
       DEF Step
  <1>5. ASSUME NEW r \in Requests, Crash(r) PROVE TypeInv'
    BY <1>5, EndingKeepsType
  <1> QED BY <1>1, <1>2, <1>3, <1>4, <1>5 DEF Next

\* Every table and every request keeps its type, whatever interleaves.
THEOREM TypeCorrect == Spec => []TypeOK
  <1>1. TypeInv => TypeOK BY DEF TypeInv
  <1> QED BY <1>1, InitType, NextKeepsType, PTL DEF Spec

-----------------------------------------------------------------------------
(* Frames.  A step moves one request; what the invariant says of the others  *)
(* survives when the rows they hold, the users and "seen" do.                *)

QueueOK ==
    /\ config \in seen
    /\ \A c \in Changes : ChangeOK(c)
    /\ AppliedIffApproved /\ ApprovalsAuthorised /\ ApprovedHasQuorum
    /\ GateRespected

\* The submitter never changes, and a row under lock is written by its holder only.
RowsKept(r) ==
    \A s \in Requests \ {r} : reqs[s].change # Null =>
        LET c == reqs[s].change IN
        /\ changes'[c].by = changes[c].by
        /\ Holds(s) => changes'[c].status = changes[c].status /\ signed'[c] = signed[c]

LEMMA OthersDecide ==
    ASSUME IInv, NEW r \in Requests, OthersKept(r), RowsKept(r),
           users' = users, seen' = seen
    PROVE  \A s \in Requests \ {r} : DecisionOK(s)' /\ (Holds(s)' <=> Holds(s))
  <1> SUFFICES ASSUME NEW s \in Requests \ {r}
               PROVE  DecisionOK(s)' /\ (Holds(s)' <=> Holds(s))
    OBVIOUS
  <1>1. reqs'[s] = reqs[s] BY DEF OthersKept
  <1>2. DecisionOK(s) /\ RequestOK(s) BY DEF IInv
  <1>3. Holds(s)' <=> Holds(s) BY <1>1 DEF Holds
  <1>4. CASE reqs[s].change = Null
    <2>1. reqs[s].pc \notin PcsOfDecision
      BY <1>2, <1>4, ConstantsAssumption DEF RequestOK
    <2> QED BY <1>1, <1>2, <1>4, <2>1 DEF DecisionOK, Holds, PcsOfDecision
  <1>5. CASE reqs[s].change # Null
    BY <1>1, <1>2, <1>3, <1>5 DEF RowsKept, DecisionOK, Holds, MayApprove, RoleFits
  <1> QED BY <1>3, <1>4, <1>5

\* A request that ends, or goes on to its audit row, decides nothing more.
LEMMA LeaverDecides ==
    ASSUME NEW r \in Requests, reqs'[r].pc \in {"idle", "audit"}
    PROVE  DecisionOK(r)' /\ ~Holds(r)'
  BY DEF DecisionOK, Holds

LEMMA LeavingKeepsIInv ==
    ASSUME IInv, TypeInv', NEW r \in Requests, OthersKept(r), RowsKept(r),
           users' = users, seen' = seen,
           reqs'[r].pc \in {"idle", "audit"}, QueueOK'
    PROVE  IInv'
  <1>1. DecisionOK(r)' /\ ~Holds(r)' BY LeaverDecides
  <1>2. \A s \in Requests \ {r} : DecisionOK(s)' /\ (Holds(s)' <=> Holds(s))
    BY OthersDecide
  <1>3. OneHolder'
    BY <1>1, <1>2 DEF OneHolder, IInv, OthersKept
  <1> QED BY <1>1, <1>2, <1>3 DEF IInv, TypeInv, QueueOK

LEMMA QuietFrame ==
    ASSUME IInv, OnlyReqs
    PROVE  QueueOK' /\ (\A r \in Requests : RowsKept(r)) /\ users' = users /\ seen' = seen
  BY DEF IInv, QueueOK, OnlyReqs, tables, history, RowsKept, ChangeOK, AppliedIffApproved,
         ApprovalsAuthorised, ApprovedHasQuorum, GateRespected, MayApprove, RoleFits

\* A step that reads and moves on: it takes no lock that another one holds.
LEMMA QuietKeepsIInv ==
    ASSUME IInv, TypeInv', OnlyReqs, NEW r \in Requests, OthersKept(r), DecisionOK(r)',
           Holds(r)' => \/ Holds(r) /\ reqs'[r].change = reqs[r].change
                        \/ ~Locked(reqs'[r].change)
    PROVE  IInv'
  <1>1. QueueOK' /\ RowsKept(r) /\ users' = users /\ seen' = seen BY QuietFrame
  <1>2. \A s \in Requests \ {r} : DecisionOK(s)' /\ (Holds(s)' <=> Holds(s))
    BY <1>1, OthersDecide
  <1>3. ASSUME NEW s \in Requests \ {r}, Holds(s), Holds(r)'
        PROVE  reqs'[r].change # reqs[s].change
    BY <1>3 DEF IInv, OneHolder, Locked, Holds
  <1>4. OneHolder'
    BY <1>2, <1>3 DEF OneHolder, OthersKept, IInv
  <1> QED BY <1>1, <1>2, <1>4 DEF IInv, TypeInv, QueueOK

LEMMA FailKeepsIInv ==
    ASSUME IInv, TypeInv', NEW r \in Requests, Fail(r)
    PROVE  IInv'
  <1>1. OnlyReqs /\ Finish(r) BY DEF Fail, OnlyReqs
  <1>2. OthersKept(r) /\ reqs'[r].pc = "idle" BY <1>1, FinishFacts DEF IInv
  <1> QED BY <1>1, <1>2, LeaverDecides, QuietKeepsIInv

-----------------------------------------------------------------------------
(* Steps that only read.                                                     *)

\* The votes of users who exist are in the table, so what approve counts
\* there is a lower bound for the people who have signed.
LEMMA QuorumCounted ==
    ASSUME IInv, NEW c \in Changes, NEW u \in Users, NEW n \in Nat,
           Cardinality(approvals[c] \cup {u}) >= n
    PROVE  Cardinality(signed[c] \cup {u}) >= n
  <1> DEFINE A == approvals[c] \cup {u}
             B == signed[c] \cup {u}
  <1>1. A \subseteq B /\ B \subseteq Users
    BY DEF IInv, ChangeOK, TypeOK
  <1>2. IsFiniteSet(B) BY <1>1, ConstantsAssumption, FS_Subset
  <1>3. IsFiniteSet(A) /\ Cardinality(A) <= Cardinality(B) BY <1>1, <1>2, FS_Subset
  <1>4. Cardinality(A) \in Nat /\ Cardinality(B) \in Nat
    BY <1>2, <1>3, FS_CardinalityType
  <1> QED BY <1>3, <1>4

\* The lock step establishes what a holder of the lock knows of its change.
LEMMA ReachThresholdKeepsIInv ==
    ASSUME IInv, TypeInv', NEW r \in Requests, ReachThreshold(r)
    PROVE  IInv'
  <1> DEFINE c == reqs[r].change
             u == reqs[r].user
  <1>1. /\ OnlyReqs /\ Goto(r, "apply") /\ ~Locked(c)
        /\ reqs[r].pc = "lock" /\ MayInsertApproval(r)
        /\ CountWith(r) >= reqs[r].cfg.threshold
    BY DEF ReachThreshold, AtLock, OnlyReqs
  <1>2. c \in Changes /\ u \in Users /\ DecisionOK(r)
    BY <1>1 DEF IInv, RequestOK, PcsOfDecision
  <1>3. reqs[r].cfg \in seen /\ MayApprove(reqs[r].cfg, u, changes[c].by) /\ u \in Approvers
    BY <1>1, <1>2 DEF DecisionOK
  <1>4. reqs[r].cfg.threshold \in Nat BY <1>3 DEF IInv, TypeOK, ConfigType
  <1>5. Cardinality(signed[c] \cup {u}) >= reqs[r].cfg.threshold
    BY <1>1, <1>2, <1>4, QuorumCounted DEF CountWith
  <1>6. changes[c].status = "pending" /\ u \in users \ signed[c]
    BY <1>1, <1>2 DEF MayInsertApproval, IInv, ChangeOK
  <1>7. /\ OthersKept(r)
        /\ reqs'[r].pc = "apply" /\ reqs'[r].user = u
        /\ reqs'[r].change = c /\ reqs'[r].cfg = reqs[r].cfg
    BY <1>1, GotoFacts DEF IInv, Pcs, PcsOfDecision
  <1>8. DecisionOK(r)'
    BY <1>1, <1>3, <1>5, <1>6, <1>7
       DEF DecisionOK, Holds, MayApprove, RoleFits, OnlyReqs, tables, history
  <1> QED BY <1>1, <1>7, <1>8, QuietKeepsIInv

LEMMA ReadStepKeepsIInv ==
    ASSUME IInv, TypeInv', NEW r \in Requests,
           \/ ReadGate(r) \/ CheckDuplicate(r) \/ BeginDelete(r)
           \/ CheckExisting(r) \/ ApplyDelete(r)
    PROVE  IInv'
  <1>1. OnlyReqs
    BY DEF ReadGate, CheckDuplicate, BeginDelete, CheckExisting, ApplyDelete, OnlyReqs
  <1>2. CASE Finish(r) BY <1>1, <1>2, FailKeepsIInv DEF Fail, OnlyReqs
  <1>3. ASSUME NEW pc \in Pcs, Goto(r, pc),
               \/ ReadGate(r) /\ pc \in {"write", "insert", "duplicate"}
                  /\ (pc = "write" => reqs[r].op.action \notin config.gate)
               \/ CheckDuplicate(r) /\ pc = "insert"
               \/ BeginDelete(r) /\ pc = "cascade"
               \/ CheckExisting(r) /\ pc = "lock" /\ RoleFits(reqs[r].cfg, reqs[r].user)
               \/ ApplyDelete(r) /\ pc = "cascade"
        PROVE  IInv'
    <2>1. /\ OthersKept(r)
          /\ reqs'[r].pc = pc /\ reqs'[r].path = reqs[r].path
          /\ reqs'[r].user = reqs[r].user /\ reqs'[r].op = reqs[r].op
          /\ reqs'[r].change = reqs[r].change /\ reqs'[r].cfg = reqs[r].cfg
      BY <1>3, GotoFacts DEF IInv
    <2>2. DecisionOK(r) /\ RequestOK(r) /\ config \in seen BY DEF IInv
    <2>3. UNCHANGED <<config, users, changes, seen, signed>>
      BY <1>1 DEF OnlyReqs, tables, history
    <2>4. CASE ReadGate(r) /\ pc \in {"write", "insert", "duplicate"}
               /\ (pc = "write" => reqs[r].op.action \notin config.gate)
      BY <2>1, <2>2, <2>3, <2>4, <1>1, QuietKeepsIInv
         DEF DecisionOK, Holds
    <2>5. CASE CheckDuplicate(r) /\ pc = "insert"
      BY <2>1, <2>5, <1>1, QuietKeepsIInv DEF DecisionOK, Holds
    <2>6. CASE BeginDelete(r) /\ pc = "cascade"
      <3>1. reqs[r].pc = "write" /\ reqs[r].change = Null
        BY <2>2, <2>6 DEF BeginDelete, RequestOK, PcsOfWrite
      <3>2. DecisionOK(r)' /\ ~Holds(r)'
        BY <2>1, <2>2, <2>3, <2>6, <3>1 DEF DecisionOK, Holds
      <3> QED BY <1>1, <2>1, <3>2, QuietKeepsIInv
    <2>7. CASE CheckExisting(r) /\ pc = "lock" /\ RoleFits(reqs[r].cfg, reqs[r].user)
      <3>1. reqs[r].pc = "existing" BY <2>7 DEF CheckExisting
      <3>2. DecisionOK(r)' /\ ~Holds(r)'
        BY <2>1, <2>2, <2>3, <2>7, <3>1 DEF DecisionOK, Holds, MayApprove, RoleFits
      <3> QED BY <1>1, <2>1, <3>2, QuietKeepsIInv
    <2>8. CASE ApplyDelete(r) /\ pc = "cascade"
      <3>1. reqs[r].pc = "apply" /\ reqs[r].change # Null
        BY <2>2, <2>8, ConstantsAssumption DEF ApplyDelete, RequestOK, PcsOfDecision
      <3>2. Holds(r) BY <3>1 DEF Holds
      <3>3. DecisionOK(r)'
        BY <2>1, <2>2, <2>3, <2>8, <3>1, <3>2 DEF DecisionOK, Holds, MayApprove, RoleFits
      <3> QED BY <1>1, <2>1, <3>2, <3>3, QuietKeepsIInv
    <2> QED BY <1>3, <2>4, <2>5, <2>6, <2>7, <2>8
  <1> QED
    BY <1>2, <1>3 DEF ReadGate, CheckDuplicate, BeginDelete, CheckExisting, ApplyDelete,
                      Pcs, PcsOfWrite, PcsOfDecision

LEMMA ConfigStepKeepsIInv ==
    ASSUME IInv, TypeInv', NEW r \in Requests, ReadConfig(r) \/ CheckSelfReject(r)
    PROVE  IInv'
  <1>1. OnlyReqs BY DEF ReadConfig, CheckSelfReject, OnlyReqs
  <1>2. CASE Finish(r) BY <1>1, <1>2, FailKeepsIInv DEF Fail, OnlyReqs
  <1>3. ASSUME NEW pc \in {"existing", "reject"},
               reqs' = [reqs EXCEPT ![r].pc = pc, ![r].cfg = config],
               \/ /\ reqs[r].pc = "config" /\ pc = "existing"
                  /\ changes[reqs[r].change].by = reqs[r].user => config.self
               \/ pc = "reject" /\ config.self
        PROVE  IInv'
    <2>1. /\ OthersKept(r)
          /\ reqs'[r].pc = pc /\ reqs'[r].cfg = config
          /\ reqs'[r].user = reqs[r].user /\ reqs'[r].change = reqs[r].change
      BY <1>3 DEF IInv, TypeOK, ReqType, OthersKept
    <2>2. UNCHANGED <<config, users, changes, seen, signed>>
      BY <1>1 DEF OnlyReqs, tables, history
    <2>3. DecisionOK(r) /\ config \in seen BY DEF IInv
    <2>4. DecisionOK(r)' /\ ~Holds(r)'
      BY <1>3, <2>1, <2>2, <2>3 DEF DecisionOK, Holds
    <2> QED BY <1>1, <2>1, <2>4, QuietKeepsIInv
  <1> QED BY <1>2, <1>3 DEF ReadConfig, CheckSelfReject

LEMMA OpenKeepsIInv ==
    ASSUME IInv, TypeInv', NEW r \in Requests, Open(r)
    PROVE  IInv'
  <1>1. ASSUME NEW u \in Users, NEW op \in Ops, OpenWrite(r, u, op) PROVE IInv'
    <2>1. OnlyReqs /\ OthersKept(r) /\ reqs'[r].pc = "gate"
      BY <1>1 DEF OpenWrite, OnlyReqs, Idle, IInv, TypeOK, OthersKept
    <2>2. DecisionOK(r)' /\ ~Holds(r)' BY <2>1 DEF DecisionOK, Holds
    <2> QED BY <2>1, <2>2, QuietKeepsIInv
  <1>4. ASSUME NEW u \in Users, NEW b \in Bypasses, OpenUngated(r, u, b[1], b[2])
        PROVE  IInv'
    <2>1. b[1] # "form" BY ConstantsAssumption
    <2>2. OnlyReqs /\ OthersKept(r) /\ reqs'[r].pc = "write" /\ reqs'[r].path = b[1]
      BY <1>4 DEF OpenUngated, OnlyReqs, Idle, IInv, TypeOK, OthersKept
    <2>3. DecisionOK(r)' /\ ~Holds(r)' BY <2>1, <2>2 DEF DecisionOK, Holds
    <2> QED BY <2>2, <2>3, QuietKeepsIInv
  <1>2. ASSUME NEW u \in Users, NEW c \in Changes,
               NEW pc \in {"config", "selfcheck", "reject", "withdraw"},
               pc = "config" => u \in Approvers,
               pc = "reject" => changes[c].by # u,
               OpenDecision(r, u, c, pc)
        PROVE  IInv'
    <2>1. /\ OnlyReqs /\ OthersKept(r)
          /\ reqs'[r].pc = pc /\ reqs'[r].user = u /\ reqs'[r].change = c
      BY <1>2 DEF OpenDecision, OnlyReqs, Idle, IInv, TypeOK, OthersKept
    <2>2. changes' = changes BY <2>1 DEF OnlyReqs, tables
    <2>3. DecisionOK(r)' /\ ~Holds(r)' BY <1>2, <2>1, <2>2 DEF DecisionOK, Holds
    <2> QED BY <2>1, <2>3, QuietKeepsIInv
  <1>3. ASSUME NEW u \in Users, NEW c \in Changes,
               OpenApprove(r, u, c) \/ OpenReject(r, u, c) \/ OpenWithdraw(r, u, c)
        PROVE  IInv'
    BY <1>2, <1>3 DEF OpenApprove, OpenReject, OpenWithdraw
  <1> QED BY <1>1, <1>3, <1>4 DEF Open

-----------------------------------------------------------------------------
(* Steps that write.                                                         *)

LEMMA SaveConfigKeepsIInv ==
    ASSUME IInv, TypeInv', SaveConfig
    PROVE  IInv'
  <1>1. /\ config' \in seen' /\ seen \subseteq seen'
        /\ UNCHANGED <<users, changes, approvals, reqs, signed, applied, direct>>
    BY DEF SaveConfig, tables, history
  <1>2. QueueOK'
    BY <1>1 DEF IInv, QueueOK, ChangeOK, AppliedIffApproved,
                ApprovalsAuthorised, ApprovedHasQuorum, GateRespected, MayApprove, RoleFits
  <1>3. \A r \in Requests : DecisionOK(r)'
    BY <1>1 DEF IInv, DecisionOK, Holds, MayApprove, RoleFits
  <1>4. OneHolder' BY <1>1 DEF IInv, OneHolder, Holds
  <1> QED BY <1>2, <1>3, <1>4 DEF IInv, TypeInv, QueueOK

\* The row locks keep the deletion away from whoever is about to commit.
LEMMA DeleteUserKeepsIInv ==
    ASSUME IInv, TypeInv', NEW u \in Users, DeleteUser(u)
    PROVE  IInv'
  <1>1. /\ users' = users \ {u}
        /\ approvals' = [c \in Changes |-> approvals[c] \ {u}]
        /\ UNCHANGED <<config, changes, reqs, seen, signed, applied, direct>>
    BY DEF DeleteUser, history
  <1>2. QueueOK'
    BY <1>1 DEF IInv, QueueOK, ChangeOK, AppliedIffApproved,
                ApprovalsAuthorised, ApprovedHasQuorum, GateRespected, MayApprove, RoleFits
  <1>3. \A r \in Requests : Holds(r) => reqs[r].user # u
    BY DEF DeleteUser, Holds
  <1>4. \A r \in Requests : DecisionOK(r)'
    BY <1>1, <1>3 DEF IInv, DecisionOK, Holds, MayApprove, RoleFits
  <1>5. OneHolder' BY <1>1 DEF IInv, OneHolder, Holds
  <1> QED BY <1>2, <1>4, <1>5 DEF IInv, TypeInv, QueueOK

LEMMA InsertChangeKeepsIInv ==
    ASSUME IInv, TypeInv', NEW r \in Requests, InsertChange(r)
    PROVE  IInv'
  <1>1. /\ OthersKept(r) /\ reqs'[r].pc = "idle" /\ users' = users /\ seen' = seen
        /\ UNCHANGED <<config, approvals, signed, applied, direct>>
    BY FinishFacts DEF IInv, InsertChange, history
  <1>2. CASE UNCHANGED changes
    <2>1. OnlyReqs BY <1>2 DEF InsertChange, OnlyReqs, tables
    <2> QED BY <1>1, <2>1, QuietFrame, LeavingKeepsIInv
  <1>3. ASSUME NEW c \in Changes, changes[c].status = "none",
               changes' = [changes EXCEPT ![c] =
                 [status |-> "pending", op |-> reqs[r].op, by |-> reqs[r].user, decider |-> Null]]
        PROVE  IInv'
    <2>1. /\ changes'[c].status = "pending"
          /\ \A d \in Changes \ {c} : changes'[d] = changes[d]
      BY <1>3 DEF IInv, TypeOK
    <2>2. signed[c] = {} /\ applied[c] = 0 /\ ChangeOK(c)
      BY <1>3 DEF IInv, ChangeOK, AppliedIffApproved
    <2>3. ChangeOK(c)' BY <1>1, <2>1, <2>2 DEF ChangeOK
    <2>4. \A d \in Changes \ {c} : ChangeOK(d)'
      BY <1>1, <2>1 DEF IInv, ChangeOK
    <2>5. AppliedIffApproved' /\ ApprovedHasQuorum'
      BY <1>1, <2>1, <2>2
         DEF IInv, AppliedIffApproved, ApprovedHasQuorum, MayApprove, RoleFits
    <2>6. ApprovalsAuthorised'
      BY <1>1, <2>1, <2>2 DEF IInv, ApprovalsAuthorised, MayApprove, RoleFits
    <2>7. QueueOK' BY <1>1, <2>3, <2>4, <2>5, <2>6 DEF IInv, QueueOK, GateRespected
    <2>8. RowsKept(r)
      <3>1. \A s \in Requests \ {r} : reqs[s].change # Null =>
               reqs[s].change \in Changes \ {c}
        BY <1>3 DEF IInv, RequestOK, TypeOK, ReqType
      <3> QED BY <1>1, <2>1, <3>1 DEF RowsKept
    <2> QED BY <1>1, <2>7, <2>8, LeavingKeepsIInv
  <1> QED BY <1>2, <1>3 DEF InsertChange

\* Writes without a pending change: where the handler has asked the gate, the
\* invariant's word on the answer is used; the other paths leave "direct" alone.
LEMMA DirectWriteKeepsIInv ==
    ASSUME IInv, TypeInv', NEW r \in Requests, WriteDirect(r) \/ EndDirectDelete(r)
    PROVE  IInv'
  <1>1. /\ UNCHANGED <<config, users, changes, approvals, seen, signed, applied>>
        /\ \/ direct' = direct
           \/ \E a \in Actions : direct' = direct \cup {a} /\ \E cfg \in seen : a \notin cfg.gate
    <2>1. DecisionOK(r) BY DEF IInv
    <2>2. CASE WriteDirect(r)
      <3>1. reqs[r].op \in OpType \cup {NoOp} BY DEF IInv, TypeOK, ReqType
      <3>2. reqs[r].op.action \in Actions
        BY <2>2, <3>1, PerformType DEF WriteDirect, IInv
      <3> QED BY <2>1, <2>2, <3>2 DEF WriteDirect, DecisionOK
    <2>3. CASE EndDirectDelete(r)
      <3>1. reqs[r].op.action = "delete" /\ reqs[r].path = "form"
        BY <2>3 DEF EndDirectDelete, IInv, RequestOK
      <3> QED BY <2>1, <2>3, <3>1 DEF EndDirectDelete, DecisionOK, Actions
    <2> QED BY <2>2, <2>3
  <1>2. OthersKept(r) /\ reqs'[r].pc \in {"idle", "audit"}
    <2>1. (\E e \in Assets \cup Rels : ToAudit(r, e)) \/ Finish(r)
          \/ ToAudit(r, reqs[r].op.target)
      BY DEF WriteDirect, EndDirectDelete
    <2> QED BY <2>1, FinishFacts DEF ToAudit, IInv, TypeOK, ReqType, OthersKept
  <1>3. QueueOK'
    BY <1>1 DEF IInv, QueueOK, ChangeOK, AppliedIffApproved,
                ApprovalsAuthorised, ApprovedHasQuorum, GateRespected, MayApprove, RoleFits
  <1>4. RowsKept(r) BY <1>1 DEF RowsKept
  <1> QED BY <1>1, <1>2, <1>3, <1>4, LeavingKeepsIInv

LEMMA EndingKeepsIInv ==
    ASSUME IInv, TypeInv', NEW r \in Requests, WriteAudit(r) \/ Crash(r)
    PROVE  IInv'
  <1>1. /\ UNCHANGED <<config, users, changes, approvals, seen, signed, applied, direct>>
        /\ Finish(r)
    BY DEF WriteAudit, Crash, tables, history
  <1>2. OthersKept(r) /\ reqs'[r].pc = "idle" BY <1>1, FinishFacts DEF IInv
  <1>3. QueueOK'
    BY <1>1 DEF IInv, QueueOK, ChangeOK, AppliedIffApproved,
                ApprovalsAuthorised, ApprovedHasQuorum, GateRespected, MayApprove, RoleFits
  <1>4. RowsKept(r) BY <1>1 DEF RowsKept
  <1> QED BY <1>1, <1>2, <1>3, <1>4, LeavingKeepsIInv

\* An approval below the threshold touches a row that nobody holds.
LEMMA PartialApproveKeepsIInv ==
    ASSUME IInv, TypeInv', NEW r \in Requests, PartialApprove(r)
    PROVE  IInv'
  <1> DEFINE c == reqs[r].change
             u == reqs[r].user
  <1>1. /\ reqs[r].pc = "lock" /\ ~Locked(c)
        /\ changes[c].status = "pending" /\ u \in users
        /\ UNCHANGED <<config, users, changes, seen, applied, direct>>
        /\ approvals' = [approvals EXCEPT ![c] = approvals[c] \cup {u}]
        /\ signed' = [signed EXCEPT ![c] = signed[c] \cup {u}]
        /\ Finish(r)
    BY DEF PartialApprove, AtLock, MayInsertApproval
  <1>2. c \in Changes /\ DecisionOK(r) BY <1>1 DEF IInv, RequestOK, PcsOfDecision
  <1>3. u \in Approvers /\ reqs[r].cfg \in seen /\ MayApprove(reqs[r].cfg, u, changes[c].by)
    BY <1>1, <1>2 DEF DecisionOK
  <1>4. /\ approvals'[c] = approvals[c] \cup {u} /\ signed'[c] = signed[c] \cup {u}
        /\ \A d \in Changes \ {c} : approvals'[d] = approvals[d] /\ signed'[d] = signed[d]
    BY <1>1, <1>2 DEF IInv, TypeOK
  <1>5. \A d \in Changes : ChangeOK(d)'
    BY <1>1, <1>4 DEF IInv, ChangeOK
  <1>6. ApprovalsAuthorised'
    BY <1>1, <1>3, <1>4 DEF IInv, ApprovalsAuthorised, MayApprove, RoleFits
  <1>7. ApprovedHasQuorum' /\ AppliedIffApproved' /\ GateRespected'
    BY <1>1, <1>4
       DEF IInv, ApprovedHasQuorum, AppliedIffApproved, GateRespected, MayApprove, RoleFits
  <1>8. QueueOK' BY <1>1, <1>5, <1>6, <1>7 DEF IInv, QueueOK
  <1>9. RowsKept(r)
    <2>1. \A s \in Requests : Holds(s) => reqs[s].change \in Changes \ {c}
      BY <1>1 DEF Locked, Holds, IInv, TypeOK, ReqType
    <2> QED BY <1>1, <1>4, <2>1 DEF RowsKept
  <1>10. OthersKept(r) /\ reqs'[r].pc = "idle" BY <1>1, FinishFacts DEF IInv
  <1> QED BY <1>1, <1>8, <1>9, <1>10, LeavingKeepsIInv

\* The commit of an approval: the row was locked since the quorum was counted.
LEMMA CommitKeepsIInv ==
    ASSUME IInv, TypeInv', NEW r \in Requests, ApplyChange(r) \/ EndApprovedDelete(r)
    PROVE  IInv'
  <1> DEFINE c == reqs[r].change
             u == reqs[r].user
  <1>1. CommitApproval(r) /\ UNCHANGED <<config, users, seen, direct>>
    BY DEF ApplyChange, EndApprovedDelete, CommitApproval
  <1>2. Holds(r) /\ c \in Changes /\ u \in Users
    BY ConstantsAssumption
       DEF ApplyChange, EndApprovedDelete, Holds, IInv, TypeOK, ReqType, RequestOK, PcsOfDecision
  <1>3. /\ u \in Approvers /\ reqs[r].cfg \in seen
        /\ MayApprove(reqs[r].cfg, u, changes[c].by)
        /\ changes[c].status = "pending" /\ u \in users \ signed[c]
        /\ Cardinality(signed[c] \cup {u}) >= reqs[r].cfg.threshold
    BY <1>2 DEF IInv, DecisionOK
  <1>4. \A d \in Changes \ {c} : changes'[d] = changes[d]
    BY <1>1, <1>2, ChangeUpdateType DEF CommitApproval, IInv, Statuses
  <1>5. /\ changes'[c].status = "approved" /\ changes'[c].decider = u
        /\ changes'[c].by = changes[c].by
    <2>1. changes'[c] = [changes[c] EXCEPT !.status = "approved", !.decider = u]
      BY <1>1, <1>2, ChangeUpdateType DEF CommitApproval, IInv, Statuses
    <2>2. changes[c] \in ChangeType BY <1>2 DEF IInv, TypeOK
    <2> QED BY <2>1, <2>2 DEF ChangeType
  <1>7. /\ approvals'[c] = approvals[c] \cup {u} /\ signed'[c] = signed[c] \cup {u}
        /\ applied'[c] = applied[c] + 1
        /\ \A d \in Changes \ {c} : /\ approvals'[d] = approvals[d] /\ signed'[d] = signed[d]
                                    /\ applied'[d] = applied[d]
    BY <1>1, <1>2 DEF CommitApproval, IInv, TypeOK
  <1>8. AppliedIffApproved'
    <2>1. applied[c] = 0 BY <1>2, <1>3 DEF IInv, AppliedIffApproved
    <2> QED BY <1>4, <1>5, <1>7, <2>1 DEF IInv, AppliedIffApproved
  <1>9. ApprovalsAuthorised'
    BY <1>1, <1>3, <1>4, <1>5, <1>7 DEF IInv, ApprovalsAuthorised, MayApprove, RoleFits
  <1>10. ApprovedHasQuorum'
    <2>1. ASSUME NEW d \in Changes \ {c}, changes'[d].status = "approved"
          PROVE  /\ changes'[d].decider \in signed'[d]
                 /\ \E cfg \in seen : /\ Cardinality(signed'[d]) >= cfg.threshold
                                     /\ MayApprove(cfg, changes'[d].decider, changes'[d].by)
      BY <1>4, <1>7, <2>1 DEF IInv, ApprovedHasQuorum
    <2>2. Cardinality(signed'[c]) >= reqs[r].cfg.threshold BY <1>3, <1>7
    <2>3. MayApprove(reqs[r].cfg, changes'[c].decider, changes'[c].by) BY <1>3, <1>5
    <2>4. changes'[c].decider \in signed'[c] BY <1>5, <1>7
    <2> QED BY <1>1, <1>3, <2>1, <2>2, <2>3, <2>4 DEF ApprovedHasQuorum, MayApprove, RoleFits
  <1>11. \A d \in {c} : ChangeOK(d)'
    <2>1. ChangeOK(c) BY <1>2 DEF IInv
    <2>2. users' = users BY <1>1
    <2> QED BY <1>2, <1>5, <1>7, <2>1, <2>2 DEF ChangeOK
  <1>12. \A d \in Changes \ {c} : ChangeOK(d)'
    BY <1>1, <1>4, <1>7 DEF IInv, ChangeOK
  <1>13. QueueOK'
    <2>1. UNCHANGED <<config, seen, direct>> BY <1>1
    <2> QED BY <1>8, <1>9, <1>10, <1>11, <1>12, <2>1 DEF IInv, QueueOK, GateRespected
  <1>14. RowsKept(r)
    <2>1. \A s \in Requests \ {r} : Holds(s) => reqs[s].change \in Changes \ {c}
      BY <1>2 DEF OneHolder, Holds, IInv, TypeOK, ReqType
    <2>2. \A s \in Requests \ {r} : reqs[s].change # Null => reqs[s].change \in Changes
      BY DEF IInv, TypeOK, ReqType
    <2> QED BY <1>4, <1>5, <1>7, <2>1, <2>2 DEF RowsKept
  <1>15. OthersKept(r) /\ reqs'[r].pc = "idle"
    BY <1>1, FinishFacts DEF IInv, CommitApproval
  <1> QED BY <1>1, <1>13, <1>14, <1>15, LeavingKeepsIInv

\* Rejection and withdrawal: the conditional UPDATE of an unlocked row.
LEMMA CloseKeepsIInv ==
    ASSUME IInv, TypeInv', NEW r \in Requests, Reject(r) \/ Withdraw(r)
    PROVE  IInv'
  <1> DEFINE c == reqs[r].change
             u == reqs[r].user
  <1>1. PICK status \in {"rejected", "withdrawn"} :
          Close(r, status) /\ reqs[r].pc = IF status = "rejected" THEN "reject" ELSE "withdraw"
    BY DEF Reject, Withdraw
  <1>2. /\ ~Locked(c) /\ Finish(r)
        /\ UNCHANGED <<config, users, approvals, seen, signed, applied, direct>>
    BY <1>1 DEF Close, history
  <1>3. c \in Changes /\ u \in Users /\ DecisionOK(r)
    BY <1>1 DEF IInv, RequestOK, PcsOfDecision
  <1>4. OthersKept(r) /\ reqs'[r].pc = "idle" BY <1>2, FinishFacts DEF IInv
  <1>5. CASE UNCHANGED changes
    <2>1. QueueOK'
      BY <1>2, <1>5 DEF IInv, QueueOK, ChangeOK, AppliedIffApproved,
                  ApprovalsAuthorised, ApprovedHasQuorum, GateRespected, MayApprove, RoleFits
    <2>2. RowsKept(r) BY <1>2, <1>5 DEF RowsKept
    <2> QED BY <1>2, <1>4, <2>1, <2>2, LeavingKeepsIInv
  <1>6. CASE ~UNCHANGED changes
    <2>1. /\ changes' = [changes EXCEPT ![c].status = status, ![c].decider = u]
          /\ changes[c].status = "pending"
      BY <1>1, <1>6 DEF Close
    <2>2. \A d \in Changes \ {c} : changes'[d] = changes[d]
      BY <1>3, <2>1, ChangeUpdateType DEF IInv, Statuses
    <2>4. /\ changes'[c].status = status /\ changes'[c].decider = u
          /\ changes'[c].by = changes[c].by
      <3>1. changes'[c] = [changes[c] EXCEPT !.status = status, !.decider = u]
        BY <1>3, <2>1, ChangeUpdateType DEF IInv, Statuses
      <3>2. changes[c] \in ChangeType BY <1>3 DEF IInv, TypeOK
      <3> QED BY <3>1, <3>2 DEF ChangeType
    <2>5. \A d \in {c} : ChangeOK(d)'
      <3>1. ChangeOK(c) BY <1>3 DEF IInv
      <3>2. reqs[r].pc = "reject" /\ u = changes[c].by => \E cfg \in seen : cfg.self
        BY <1>3 DEF DecisionOK
      <3>3. status = "rejected" => reqs[r].pc = "reject" BY <1>1
      <3> QED BY <1>2, <2>4, <3>1, <3>2, <3>3 DEF ChangeOK
    <2>6. \A d \in Changes \ {c} : ChangeOK(d)' BY <1>2, <2>2 DEF IInv, ChangeOK
    <2>7. AppliedIffApproved' /\ ApprovedHasQuorum'
      <3>1. changes[c].status # "approved" BY <2>1
      <3> QED
        BY <1>2, <2>2, <2>4, <3>1
           DEF IInv, AppliedIffApproved, ApprovedHasQuorum, MayApprove, RoleFits
    <2>8. ApprovalsAuthorised'
      BY <1>2, <2>2, <2>4 DEF IInv, ApprovalsAuthorised, MayApprove, RoleFits
    <2>9. QueueOK' BY <1>2, <2>5, <2>6, <2>7, <2>8 DEF IInv, QueueOK, GateRespected
    <2>10. RowsKept(r)
      <3>1. \A s \in Requests : Holds(s) => reqs[s].change # c
        BY <1>2 DEF Locked, Holds
      <3>2. \A s \in Requests : reqs[s].change # Null => reqs[s].change \in Changes
        BY DEF IInv, TypeOK, ReqType
      <3> QED BY <1>2, <2>2, <2>4, <3>1, <3>2 DEF RowsKept
    <2> QED BY <1>2, <1>4, <2>9, <2>10, LeavingKeepsIInv
  <1> QED BY <1>5, <1>6

-----------------------------------------------------------------------------
(* IInv is an invariant, and what follows from it.                           *)

LEMMA InitIInv == Init => IInv
  <1> SUFFICES ASSUME Init PROVE IInv
    OBVIOUS
  <1>1. TypeInv BY InitType
  <1>2. \A r \in Requests : reqs[r] = Idle BY DEF Init
  <1>3. \A r \in Requests : reqs[r].pc = "idle" BY <1>2 DEF Idle
  <1>4. (\A r \in Requests : DecisionOK(r)) /\ OneHolder
    BY <1>3 DEF DecisionOK, Holds, OneHolder
  <1>5. \A c \in Changes : /\ changes[c].status = "none" /\ signed[c] = {}
                           /\ approvals[c] = {} /\ applied[c] = 0
    BY DEF Init, NoChange
  <1>6. QueueOK
    BY <1>5 DEF Init, QueueOK, ChangeOK, AppliedIffApproved, ApprovalsAuthorised,
                ApprovedHasQuorum, GateRespected
  <1> QED BY <1>1, <1>4, <1>6 DEF IInv, TypeInv, QueueOK

LEMMA NextKeepsIInv == IInv /\ [Next]_vars => IInv'
  <1> SUFFICES ASSUME IInv, [Next]_vars PROVE IInv'
    OBVIOUS
  <1>1. TypeInv BY DEF IInv, TypeInv
  <1>2. TypeInv' BY <1>1, NextKeepsType
  <1>3. CASE UNCHANGED vars
    <2>1. UNCHANGED <<config, users, changes, approvals, reqs, seen, signed, applied, direct>>
      BY <1>3 DEF vars, tables, history
    <2>2. QueueOK'
      BY <2>1 DEF IInv, QueueOK, ChangeOK, AppliedIffApproved,
                  ApprovalsAuthorised, ApprovedHasQuorum, GateRespected, MayApprove, RoleFits
    <2>3. \A r \in Requests : DecisionOK(r)'
      BY <2>1 DEF IInv, DecisionOK, Holds, MayApprove, RoleFits
    <2>4. OneHolder' BY <2>1 DEF IInv, OneHolder, Holds
    <2> QED BY <1>2, <2>2, <2>3, <2>4 DEF IInv, TypeInv, QueueOK
  <1>4. CASE SaveConfig BY <1>2, <1>4, SaveConfigKeepsIInv
  <1>5. ASSUME NEW u \in Users, DeleteUser(u) PROVE IInv'
    BY <1>2, <1>5, DeleteUserKeepsIInv
  <1>6. ASSUME NEW r \in Requests, Open(r) PROVE IInv'
    BY <1>2, <1>6, OpenKeepsIInv
  <1>7. ASSUME NEW r \in Requests, Crash(r) PROVE IInv'
    BY <1>2, <1>7, EndingKeepsIInv
  <1>8. ASSUME NEW r \in Requests, Step(r) PROVE IInv'
    <2>1. CASE WriteDirectFails(r) \/ RefuseLocked(r) \/ ApplyFails(r) \/ BreakDeadlock(r)
      BY <1>2, <2>1, FailKeepsIInv DEF WriteDirectFails, RefuseLocked, ApplyFails, BreakDeadlock
    <2>2. CASE ~(WriteDirectFails(r) \/ RefuseLocked(r) \/ ApplyFails(r) \/ BreakDeadlock(r))
      BY <1>2, <1>8, <2>2, ReadStepKeepsIInv, ConfigStepKeepsIInv, ReachThresholdKeepsIInv,
         InsertChangeKeepsIInv, DirectWriteKeepsIInv, EndingKeepsIInv,
         PartialApproveKeepsIInv, CommitKeepsIInv, CloseKeepsIInv
         DEF Step
    <2> QED BY <2>1, <2>2
  <1> QED BY <1>3, <1>4, <1>5, <1>6, <1>7, <1>8 DEF Next

THEOREM Invariance == Spec => []IInv
  BY InitIInv, NextKeepsIInv, PTL DEF Spec

\* However many approvers reach the threshold at once, an approved change is
\* applied exactly once and nothing else from the queue ever is.
THEOREM AppliedExactlyOnce == Spec => []AppliedIffApproved
  <1>1. IInv => AppliedIffApproved BY DEF IInv
  <1> QED BY <1>1, Invariance, PTL

\* Every approval that was committed came from somebody entitled to give it.
THEOREM OnlyAuthorisedApprovals == Spec => []ApprovalsAuthorised
  <1>1. IInv => ApprovalsAuthorised BY DEF IInv
  <1> QED BY <1>1, Invariance, PTL

\* An approved change has the distinct approvers that one configuration asked for.
THEOREM QuorumBehindApproval == Spec => []ApprovedHasQuorum
  <1>1. IInv => ApprovedHasQuorum BY DEF IInv
  <1> QED BY <1>1, Invariance, PTL

\* While self-approval stays off, nobody approves or rejects their own change.
THEOREM FourEyesHolds == Spec => []FourEyes
  <1>1. IInv => FourEyes
    <2> SUFFICES ASSUME IInv, \A cfg \in seen : ~cfg.self, NEW c \in Changes,
                        changes[c].status \in {"approved", "rejected"},
                        changes[c].decider = changes[c].by
                 PROVE  FALSE
      BY DEF FourEyes
    <2>1. CASE changes[c].status = "approved"
      BY <2>1 DEF IInv, ApprovedHasQuorum, MayApprove
    <2>2. CASE changes[c].status = "rejected"
      BY <2>2 DEF IInv, ChangeOK
    <2> QED BY <2>1, <2>2
  <1> QED BY <1>1, Invariance, PTL

\* Through a handler that asks the gate, an action that was gated all along never
\* took effect outside the queue, also while clones, imports and the statement of
\* applicability, which do not ask, write to the same rows.
THEOREM GateHolds == Spec => []GateRespected
  <1>1. IInv => GateRespected BY DEF IInv
  <1> QED BY <1>1, Invariance, PTL

-----------------------------------------------------------------------------
(* Action properties: the decision is final, and the queue implements its    *)
(* abstract specification.                                                   *)

TablesStill ==
    /\ UNCHANGED <<changes, signed, applied>>
    /\ \A c \in Changes : approvals'[c] \subseteq approvals[c]

Writes(r) ==
    \/ InsertChange(r) \/ PartialApprove(r) \/ Reject(r) \/ Withdraw(r)
    \/ ApplyChange(r) \/ EndApprovedDelete(r)

LEMMA StillOrWrites ==
    ASSUME IInv, [Next]_vars
    PROVE  TablesStill \/ \E r \in Requests : Writes(r)
  <1>1. CASE UNCHANGED vars BY <1>1 DEF TablesStill, vars, tables, history
  <1>2. CASE SaveConfig BY <1>2 DEF SaveConfig, TablesStill, tables, history
  <1>3. ASSUME NEW u \in Users, DeleteUser(u) PROVE TablesStill
    BY <1>3 DEF DeleteUser, TablesStill, history
  <1>4. ASSUME NEW r \in Requests, Open(r) PROVE TablesStill
    BY <1>4 DEF Open, OpenWrite, OpenUngated, OpenApprove, OpenReject, OpenWithdraw,
                OpenDecision, TablesStill, tables, history
  <1>5. ASSUME NEW r \in Requests, Crash(r) PROVE TablesStill
    BY <1>5 DEF Crash, TablesStill, tables, history
  <1>6. ASSUME NEW r \in Requests, Step(r) PROVE TablesStill \/ Writes(r)
    <2>1. CASE ReadGate(r) \/ CheckDuplicate(r) \/ BeginDelete(r) \/ ReadConfig(r)
               \/ CheckExisting(r) \/ ReachThreshold(r) \/ ApplyDelete(r) \/ CheckSelfReject(r)
      BY <2>1 DEF ReadGate, CheckDuplicate, BeginDelete, ReadConfig, CheckExisting,
                  ReachThreshold, ApplyDelete, CheckSelfReject, TablesStill, tables, history
    <2>2. CASE WriteDirectFails(r) \/ RefuseLocked(r) \/ ApplyFails(r) \/ BreakDeadlock(r)
      BY <2>2 DEF WriteDirectFails, RefuseLocked, ApplyFails, BreakDeadlock, Fail,
                  TablesStill, tables, history
    <2>3. CASE WriteDirect(r) \/ EndDirectDelete(r) \/ WriteAudit(r)
      BY <2>3 DEF WriteDirect, EndDirectDelete, WriteAudit, TablesStill, tables
    <2> QED BY <1>6, <2>1, <2>2, <2>3 DEF Step, Writes
  <1> QED BY <1>1, <1>2, <1>3, <1>4, <1>5, <1>6 DEF Next

\* What each writer finds and leaves in the queue.
LEMMA CommitFacts ==
    ASSUME IInv, NEW r \in Requests, ApplyChange(r) \/ EndApprovedDelete(r)
    PROVE  \E c \in Changes, u \in Users :
             /\ changes[c].status = "pending" /\ u \notin signed[c]
             /\ changes'[c].status = "approved"
             /\ \A d \in Changes \ {c} : changes'[d] = changes[d]
             /\ approvals' = [approvals EXCEPT ![c] = @ \cup {u}]
             /\ signed' = [signed EXCEPT ![c] = @ \cup {u}]
             /\ applied' = [applied EXCEPT ![c] = @ + 1]
  <1> DEFINE c == reqs[r].change
             u == reqs[r].user
  <1>1. CommitApproval(r) BY DEF ApplyChange, EndApprovedDelete
  <1>2. Holds(r) /\ c \in Changes /\ u \in Users
    BY ConstantsAssumption
       DEF ApplyChange, EndApprovedDelete, Holds, IInv, TypeOK, ReqType, RequestOK, PcsOfDecision
  <1>3. changes[c].status = "pending" /\ u \notin signed[c]
    BY <1>2 DEF IInv, DecisionOK
  <1>4. \A d \in Changes \ {c} : changes'[d] = changes[d]
    BY <1>1, <1>2, ChangeUpdateType DEF CommitApproval, IInv, Statuses
  <1>5. changes'[c].status = "approved"
    <2>1. changes'[c] = [changes[c] EXCEPT !.status = "approved", !.decider = u]
      BY <1>1, <1>2, ChangeUpdateType DEF CommitApproval, IInv, Statuses
    <2>2. changes[c] \in ChangeType BY <1>2 DEF IInv, TypeOK
    <2> QED BY <2>1, <2>2 DEF ChangeType
  <1> QED BY <1>1, <1>2, <1>3, <1>4, <1>5 DEF CommitApproval

LEMMA CloseFacts ==
    ASSUME IInv, NEW r \in Requests, Reject(r) \/ Withdraw(r)
    PROVE  /\ UNCHANGED <<approvals, signed, applied>>
           /\ \/ UNCHANGED changes
              \/ \E c \in Changes :
                   /\ changes[c].status = "pending"
                   /\ changes'[c].status \in {"rejected", "withdrawn"}
                   /\ \A d \in Changes \ {c} : changes'[d] = changes[d]
  <1> DEFINE c == reqs[r].change
             u == reqs[r].user
  <1>1. PICK status \in {"rejected", "withdrawn"} :
          Close(r, status) /\ reqs[r].pc \in {"reject", "withdraw"}
    BY DEF Reject, Withdraw
  <1>2. c \in Changes /\ u \in Users BY <1>1 DEF IInv, RequestOK, PcsOfDecision
  <1>3. UNCHANGED <<approvals, signed, applied>> BY <1>1 DEF Close, history
  <1>4. CASE ~UNCHANGED changes
    <2>1. /\ changes' = [changes EXCEPT ![c].status = status, ![c].decider = u]
          /\ changes[c].status = "pending"
      BY <1>1, <1>4 DEF Close
    <2>2. \A d \in Changes \ {c} : changes'[d] = changes[d]
      BY <1>2, <2>1, ChangeUpdateType DEF IInv, Statuses
    <2>3. changes'[c].status = status
      <3>1. changes'[c] = [changes[c] EXCEPT !.status = status, !.decider = u]
        BY <1>2, <2>1, ChangeUpdateType DEF IInv, Statuses
      <3>2. changes[c] \in ChangeType BY <1>2 DEF IInv, TypeOK
      <3> QED BY <3>1, <3>2 DEF ChangeType
    <2> QED BY <1>2, <1>3, <2>1, <2>2, <2>3
  <1> QED BY <1>3, <1>4

LEMMA InsertFacts ==
    ASSUME IInv, NEW r \in Requests, InsertChange(r)
    PROVE  /\ UNCHANGED <<approvals, signed, applied>>
           /\ \/ UNCHANGED changes
              \/ \E c \in Changes :
                   /\ changes[c].status = "none"
                   /\ changes'[c].status = "pending"
                   /\ \A d \in Changes \ {c} : changes'[d] = changes[d]
  <1>1. ASSUME NEW c \in Changes, changes[c].status = "none",
               changes' = [changes EXCEPT ![c] =
                 [status |-> "pending", op |-> reqs[r].op, by |-> reqs[r].user, decider |-> Null]]
        PROVE  /\ changes'[c].status = "pending"
               /\ \A d \in Changes \ {c} : changes'[d] = changes[d]
    BY <1>1 DEF IInv, TypeOK
  <1> QED BY <1>1 DEF InsertChange, history

LEMMA PartialFacts ==
    ASSUME IInv, NEW r \in Requests, PartialApprove(r)
    PROVE  /\ UNCHANGED <<changes, applied>>
           /\ \E c \in Changes, u \in Users :
                /\ changes[c].status = "pending" /\ u \notin signed[c]
                /\ approvals' = [approvals EXCEPT ![c] = @ \cup {u}]
                /\ signed' = [signed EXCEPT ![c] = @ \cup {u}]
  <1>1. reqs[r].change \in Changes /\ reqs[r].user \in Users
    BY DEF PartialApprove, AtLock, IInv, RequestOK, PcsOfDecision
  <1>2. reqs[r].user \notin signed[reqs[r].change]
    BY <1>1 DEF PartialApprove, MayInsertApproval, IInv, ChangeOK
  <1> QED BY <1>1, <1>2 DEF PartialApprove, MayInsertApproval

\* A decided change keeps its status and decider and gains no approval.
THEOREM DecisionsAreFinal == Spec => DecidedIsFinal
  <1> DEFINE Final == \A c \in Changes : changes[c].status \in Statuses \ {"pending"} =>
                        changes'[c] = changes[c] /\ approvals'[c] \subseteq approvals[c]
  <1>1. ASSUME IInv, [Next]_vars PROVE Final
    <2>1. CASE TablesStill BY <2>1 DEF TablesStill
    <2>2. ASSUME NEW r \in Requests, Writes(r) PROVE Final
      <3>1. CASE InsertChange(r) BY <1>1, <3>1, InsertFacts DEF Statuses
      <3>2. CASE PartialApprove(r) BY <1>1, <3>2, PartialFacts DEF Statuses, IInv, TypeOK
      <3>3. CASE Reject(r) \/ Withdraw(r) BY <1>1, <3>3, CloseFacts DEF Statuses
      <3>4. CASE ApplyChange(r) \/ EndApprovedDelete(r)
        BY <1>1, <3>4, CommitFacts DEF Statuses, IInv, TypeOK
      <3> QED BY <2>2, <3>1, <3>2, <3>3, <3>4 DEF Writes
    <2> QED BY <1>1, <2>1, <2>2, StillOrWrites
  <1> QED BY <1>1, Invariance, PTL DEF Spec, DecidedIsFinal

\* Every step of the handlers is a step of ApprovalGate or leaves its state alone.
THEOREM QueueImplementsGate == Spec => ImplementsGate
  <1> DEFINE D == [c \in Changes |-> changes[c].status]
  <1>1. Init => Gate!Init BY DEF Init, Gate!Init, NoChange
  <1>2. ASSUME IInv, [Next]_vars PROVE [Gate!Next]_(Gate!gateVars)
    <2> USE DEF Gate!gateVars, Gate!Next
    <2>1. CASE TablesStill BY <2>1 DEF TablesStill
    <2>2. ASSUME NEW r \in Requests, Writes(r) PROVE [Gate!Next]_(Gate!gateVars)
      <3>1. CASE UNCHANGED <<changes, signed, applied>> BY <3>1
      <3>2. CASE InsertChange(r) /\ ~UNCHANGED changes
        <4>1. PICK c \in Changes :
                 /\ changes[c].status = "none" /\ changes'[c].status = "pending"
                 /\ \A d \in Changes \ {c} : changes'[d] = changes[d]
          BY <1>2, <3>2, InsertFacts
        <4>2. UNCHANGED <<signed, applied>> BY <1>2, <3>2, InsertFacts
        <4>3. D' = [D EXCEPT ![c] = "pending"] BY <4>1
        <4> QED BY <4>1, <4>2, <4>3 DEF Gate!Submit
      <3>3. CASE PartialApprove(r)
        <4>1. UNCHANGED <<changes, applied>> BY <1>2, <3>3, PartialFacts
        <4>2. PICK c \in Changes, u \in Users :
                 /\ changes[c].status = "pending" /\ u \notin signed[c]
                 /\ signed' = [signed EXCEPT ![c] = @ \cup {u}]
          BY <1>2, <3>3, PartialFacts
        <4> QED BY <4>1, <4>2 DEF Gate!Vote
      <3>4. CASE (Reject(r) \/ Withdraw(r)) /\ ~UNCHANGED changes
        <4>1. PICK c \in Changes :
                 /\ changes[c].status = "pending"
                 /\ changes'[c].status \in {"rejected", "withdrawn"}
                 /\ \A d \in Changes \ {c} : changes'[d] = changes[d]
          BY <1>2, <3>4, CloseFacts
        <4>2. UNCHANGED <<signed, applied>> BY <1>2, <3>4, CloseFacts
        <4>3. D' = [D EXCEPT ![c] = changes'[c].status] BY <4>1
        <4> QED BY <4>1, <4>2, <4>3 DEF Gate!Drop
      <3>5. CASE ApplyChange(r) \/ EndApprovedDelete(r)
        <4>1. PICK c \in Changes, u \in Users :
                 /\ changes[c].status = "pending" /\ u \notin signed[c]
                 /\ changes'[c].status = "approved"
                 /\ \A d \in Changes \ {c} : changes'[d] = changes[d]
                 /\ signed' = [signed EXCEPT ![c] = @ \cup {u}]
                 /\ applied' = [applied EXCEPT ![c] = @ + 1]
          BY <1>2, <3>5, CommitFacts
        <4>2. D' = [D EXCEPT ![c] = "approved"] BY <4>1
        <4> QED BY <4>1, <4>2 DEF Gate!Approve
      <3> QED BY <1>2, <2>2, <3>1, <3>2, <3>3, <3>4, <3>5, InsertFacts, CloseFacts DEF Writes
    <2> QED BY <1>2, <2>1, <2>2, StillOrWrites
  <1> QED BY <1>1, <1>2, Invariance, PTL DEF Spec, ImplementsGate, Gate!Spec

-----------------------------------------------------------------------------
(* Referential integrity of the relationship table.                          *)

LEMMA PerformKeepsLinks ==
    ASSUME TypeOK, LinksHaveEndpoints, NEW op \in OpType \cup {NoOp},
           NEW e \in Assets \cup Rels, Perform(op, e)
    PROVE  LinksHaveEndpoints'
  <1>1. CASE Create(e) BY <1>1 DEF Create, LinksHaveEndpoints, Live, TypeOK
  <1>2. CASE Update(op, e) BY <1>2 DEF Update, LinksHaveEndpoints, Live
  <1>3. CASE Link(op, e)
    <2>1. /\ rels'[e].src = op.target /\ rels'[e].dst = op.arg /\ assets' = assets
          /\ \A l \in Rels \ {e} : rels'[l] = rels[l]
      BY <1>3 DEF Link, TypeOK
    <2> QED BY <1>3, <2>1 DEF Link, LinksHaveEndpoints, Live
  <1>4. CASE Unlink(op, e)
    <2>1. /\ assets' = assets
          /\ \A l \in Rels : rels'[l] = rels[l] \/ rels'[l].state = "deleted"
      BY <1>4 DEF Unlink, TypeOK, RelType
    <2> QED BY <2>1 DEF LinksHaveEndpoints, Live
  <1> QED BY <1>1, <1>2, <1>3, <1>4 DEF Perform

LEMMA DeleteKeepsLinks ==
    ASSUME TypeOK, LinksHaveEndpoints, NEW a \in Assets, Delete(a)
    PROVE  LinksHaveEndpoints'
  <1>1. assets' = [assets EXCEPT ![a] = "deleted"] BY DEF Delete
  <1>2. ASSUME NEW l \in Rels, rels'[l].state = "live"
        PROVE  rels'[l] = rels[l] /\ a \notin {rels[l].src, rels[l].dst}
    <2>1. [rels[l] EXCEPT !.state = "deleted"].state = "deleted" BY DEF TypeOK, RelType
    <2> QED BY <1>2, <2>1 DEF Delete
  <1> QED BY <1>1, <1>2 DEF LinksHaveEndpoints, Live, TypeOK

\* No interleaving of creates, deletes and approvals leaves a live link that
\* dangles: the endpoint rows are share-locked by the insert, and a delete
\* takes the links with it.
THEOREM LinksStayWhole == Spec => []LinksHaveEndpoints
  <1>1. Init => LinksHaveEndpoints
    BY ConstantsAssumption DEF Init, LinksHaveEndpoints, Live
  <1>2. ASSUME TypeInv, LinksHaveEndpoints, [Next]_vars PROVE LinksHaveEndpoints'
    <2>1. CASE UNCHANGED <<assets, rels>> BY <1>2, <2>1 DEF LinksHaveEndpoints, Live
    <2>2. ASSUME NEW r \in Requests, WriteDirect(r) \/ ApplyChange(r)
          PROVE  LinksHaveEndpoints'
      <3>1. PICK e \in Assets \cup Rels : Perform(reqs[r].op, e)
        BY <2>2 DEF WriteDirect, ApplyChange
      <3>2. reqs[r].op \in OpType \cup {NoOp} BY <1>2 DEF TypeInv, TypeOK, ReqType
      <3> QED BY <1>2, <3>1, <3>2, PerformKeepsLinks DEF TypeInv
    <2>3. ASSUME NEW r \in Requests, EndDirectDelete(r) \/ EndApprovedDelete(r)
          PROVE  LinksHaveEndpoints'
      <3>1. reqs[r].op.target \in Assets
        BY <1>2, <2>3 DEF EndDirectDelete, EndApprovedDelete, TypeInv, RequestOK
      <3> QED BY <1>2, <2>3, <3>1, DeleteKeepsLinks
             DEF EndDirectDelete, EndApprovedDelete, TypeInv
    <2>4. CASE SaveConfig \/ UNCHANGED vars
      BY <2>1, <2>4 DEF SaveConfig, vars, tables
    <2>5. ASSUME NEW u \in Users, DeleteUser(u) PROVE LinksHaveEndpoints'
      BY <2>1, <2>5 DEF DeleteUser
    <2>6. ASSUME NEW r \in Requests, Open(r) \/ Crash(r) PROVE LinksHaveEndpoints'
      BY <2>1, <2>6 DEF Open, OpenWrite, OpenUngated, OpenApprove, OpenReject, OpenWithdraw,
                        OpenDecision, Crash, tables
    <2>7. ASSUME NEW r \in Requests, Step(r) PROVE LinksHaveEndpoints'
      <3>1. CASE ReadGate(r) \/ CheckDuplicate(r) \/ BeginDelete(r) \/ ReadConfig(r)
               \/ CheckExisting(r) \/ ReachThreshold(r) \/ ApplyDelete(r) \/ CheckSelfReject(r)
        BY <2>1, <3>1 DEF ReadGate, CheckDuplicate, BeginDelete, ReadConfig, CheckExisting,
                    ReachThreshold, ApplyDelete, CheckSelfReject, tables
      <3>2. CASE WriteDirectFails(r) \/ RefuseLocked(r) \/ ApplyFails(r) \/ BreakDeadlock(r)
        BY <2>1, <3>2 DEF WriteDirectFails, RefuseLocked, ApplyFails, BreakDeadlock, Fail, tables
      <3>3. CASE InsertChange(r) \/ WriteAudit(r) \/ PartialApprove(r)
                 \/ Reject(r) \/ Withdraw(r)
        BY <2>1, <3>3 DEF InsertChange, WriteAudit, PartialApprove, Reject, Withdraw, Close, tables
      <3> QED BY <2>2, <2>3, <2>7, <3>1, <3>2, <3>3 DEF Step
    <2> QED BY <1>2, <2>2, <2>3, <2>4, <2>5, <2>6, <2>7 DEF Next
  <1> QED BY <1>1, <1>2, InitType, NextKeepsType, PTL DEF Spec

-----------------------------------------------------------------------------
(* The audit trail of direct writes, for every set of users, rows, requests  *)
(* and crashes.  A write that has no audit row is either covered by a request *)
(* that is about to log it, or was lost with one worker, and each worker that *)
(* dies loses no more than one.                                              *)

\* A request is about to log write w: the row and the action, which tells two
\* writes of a request identity to one row apart.
Covered(w) ==
    /\ reqs[w[1]].pc = "audit" /\ reqs[w[1]].entity = w[2] /\ reqs[w[1]].op.action = w[3]
Lost == {w \in unaudited : ~Covered(w)}

AuditInv == IsFiniteSet(unaudited) /\ Cardinality(Lost) <= crashes

\* What a request in "audit" would log.
Due(r) == <<r, reqs[r].entity, reqs[r].op.action>>

Waits(r) == reqs[r].pc = "audit" => reqs'[r] = reqs[r]

LEMMA LostFinite ==
    ASSUME IsFiniteSet(unaudited)
    PROVE  IsFiniteSet(Lost) /\ Cardinality(Lost) \in Nat
  BY FS_Subset, FS_CardinalityType DEF Lost

\* Nothing is lost that was not lost before.
LEMMA NoneLost ==
    ASSUME TypeOK, AuditInv, IsFiniteSet(unaudited'), Lost' \subseteq Lost, crashes' = crashes
    PROVE  AuditInv'
  <1>1. /\ Cardinality(Lost') \in Nat /\ Cardinality(Lost) \in Nat
        /\ Cardinality(Lost') <= Cardinality(Lost)
    BY LostFinite, FS_Subset, FS_CardinalityType DEF AuditInv
  <1> QED BY <1>1 DEF AuditInv, TypeOK

\* A step that leaves alone the log and the requests that are about to write to it.
LEMMA QuietKeepsAudit ==
    ASSUME TypeOK, AuditInv, UNCHANGED <<unaudited, crashes>>,
           \A s \in Requests : Waits(s)
    PROVE  AuditInv'
  <1>1. \A w \in unaudited : w[1] \in Requests
    BY DEF TypeOK
  <1>2. Lost' \subseteq Lost
    BY <1>1 DEF Lost, Covered, Waits
  <1> QED BY <1>2, NoneLost DEF AuditInv

\* A request that is not at its audit row goes anywhere.
LEMMA MovingKeepsAudit ==
    ASSUME TypeOK, AuditInv, NEW r \in Requests, reqs[r].pc # "audit",
           UNCHANGED <<unaudited, crashes>>, OthersKept(r)
    PROVE  AuditInv'
  BY QuietKeepsAudit DEF OthersKept, Waits

\* A direct write commits and its request goes on to log it.
LEMMA WriteKeepsAudit ==
    ASSUME TypeInv, AuditInv, NEW r \in Requests, NEW e \in Assets \cup Rels,
           NEW action \in Actions, reqs[r].op.action = action, reqs[r].pc # "audit",
           ToAudit(r, e), crashes' = crashes
    PROVE  AuditInv'
  <1>1. IsFiniteSet(unaudited')
    BY FS_AddElement DEF AuditInv, ToAudit
  <1>2. /\ reqs \in [Requests -> ReqType] /\ reqs[r] \in ReqType
        /\ \A w \in unaudited : w[1] \in Requests
    BY DEF TypeInv, TypeOK
  <1>3. /\ reqs'[r].pc = "audit" /\ reqs'[r].entity = e /\ reqs'[r].op.action = action
        /\ \A s \in Requests \ {r} : reqs'[s] = reqs[s]
    BY <1>2 DEF ReqType, ToAudit
  <1>4. Lost' \subseteq Lost
    BY <1>2, <1>3 DEF Lost, Covered, ToAudit
  <1> QED BY <1>1, <1>4, NoneLost DEF TypeInv

\* The audit row is written.
LEMMA LogKeepsAudit ==
    ASSUME TypeInv, AuditInv, NEW r \in Requests, WriteAudit(r)
    PROVE  AuditInv'
  <1>1. /\ unaudited' = unaudited \ {Due(r)} /\ crashes' = crashes /\ OthersKept(r)
        /\ reqs[r].pc = "audit"
    BY FinishFacts DEF WriteAudit, Due, TypeInv
  <1>2. IsFiniteSet(unaudited')
    BY <1>1, FS_Subset DEF AuditInv
  <1>3. \A w \in unaudited : w[1] \in Requests /\ w = <<w[1], w[2], w[3]>>
    BY DEF TypeInv, TypeOK
  <1>4. ASSUME NEW w \in unaudited', ~Covered(w)' PROVE ~Covered(w)
    <2>1. w \in unaudited /\ w # Due(r)
      BY <1>1
    <2>2. CASE w[1] = r
      BY <1>3, <2>1, <2>2 DEF Covered, Due
    <2>3. CASE w[1] # r
      BY <1>1, <1>3, <1>4, <2>1, <2>3 DEF Covered, OthersKept
    <2> QED BY <2>2, <2>3
  <1>5. Lost' \subseteq Lost
    BY <1>1, <1>4 DEF Lost
  <1> QED BY <1>1, <1>2, <1>5, NoneLost DEF TypeInv

\* A worker that dies takes with it at most the one write its request was to log.
LEMMA CrashKeepsAudit ==
    ASSUME TypeInv, AuditInv, NEW r \in Requests, Crash(r)
    PROVE  AuditInv'
  <1>1. unaudited' = unaudited /\ crashes' = crashes + 1 /\ OthersKept(r)
    BY FinishFacts DEF Crash, TypeInv, history
  <1>2. \A w \in unaudited : w[1] \in Requests /\ w = <<w[1], w[2], w[3]>>
    BY DEF TypeInv, TypeOK
  <1>3. ASSUME NEW w \in unaudited, Covered(w), ~Covered(w)' PROVE w = Due(r)
    <2>1. w[1] = r
      BY <1>1, <1>2, <1>3 DEF Covered, OthersKept
    <2> QED BY <1>2, <1>3, <2>1 DEF Covered, Due
  <1>4. Lost' \subseteq Lost \cup {Due(r)}
    BY <1>1, <1>3 DEF Lost
  <1>5. /\ IsFiniteSet(Lost \cup {Due(r)}) /\ Cardinality(Lost) \in Nat
        /\ Cardinality(Lost \cup {Due(r)}) \in {Cardinality(Lost), Cardinality(Lost) + 1}
    BY LostFinite, FS_AddElement DEF AuditInv
  <1>6. /\ Cardinality(Lost') \in Nat /\ Cardinality(Lost') <= Cardinality(Lost \cup {Due(r)})
    BY <1>4, <1>5, FS_Subset, FS_CardinalityType
  <1>7. crashes \in Nat /\ Cardinality(Lost) <= crashes /\ IsFiniteSet(unaudited)
    BY DEF AuditInv, TypeInv, TypeOK
  <1> QED BY <1>1, <1>5, <1>6, <1>7 DEF AuditInv

\* Steps of a request that has begun.
LEMMA StepKeepsAudit ==
    ASSUME TypeInv, AuditInv, NEW r \in Requests, Step(r)
    PROVE  AuditInv'
  <1>0. TypeOK BY DEF TypeInv
  <1>1. CASE WriteAudit(r) BY <1>1, LogKeepsAudit
  <1>2. CASE WriteDirect(r)
    <2>1. PICK e \in Assets \cup Rels :
            /\ Perform(reqs[r].op, e)
            /\ ToAudit(r, e) \/ (Finish(r) /\ UNCHANGED unaudited)
      BY <1>2 DEF WriteDirect
    <2>2. reqs[r].op.action \in Actions BY <2>1 DEF Perform, Actions
    <2>3. reqs[r].pc # "audit" /\ crashes' = crashes BY <1>2 DEF WriteDirect
    <2>4. CASE Finish(r) /\ UNCHANGED unaudited
      BY <1>0, <2>3, <2>4, FinishFacts, MovingKeepsAudit
    <2> QED BY <2>1, <2>2, <2>3, <2>4, WriteKeepsAudit
  <1>3. CASE EndDirectDelete(r)
    <2>1. /\ reqs[r].op.target \in Assets /\ reqs[r].op.action = "delete"
          /\ reqs[r].pc # "audit" /\ crashes' = crashes
      BY <1>3 DEF EndDirectDelete, TypeInv, RequestOK
    <2>2. "delete" \in Actions BY DEF Actions
    <2> QED BY <1>3, <2>1, <2>2, WriteKeepsAudit DEF EndDirectDelete
  <1>4. CASE \/ ReadGate(r) \/ CheckDuplicate(r) \/ InsertChange(r) \/ BeginDelete(r)
             \/ ReadConfig(r) \/ CheckExisting(r) \/ ReachThreshold(r) \/ ApplyDelete(r)
             \/ CheckSelfReject(r)
    <2>1. reqs[r].pc # "audit" /\ UNCHANGED <<unaudited, crashes>>
      BY <1>4 DEF ReadGate, CheckDuplicate, InsertChange, BeginDelete, ReadConfig, CheckExisting,
            ReachThreshold, ApplyDelete, CheckSelfReject, AtLock, history
    <2>2. OthersKept(r)
      BY <1>0, <1>4 DEF ReadGate, CheckDuplicate, InsertChange, BeginDelete, ReadConfig, CheckExisting,
            ReachThreshold, ApplyDelete, CheckSelfReject, Goto, Finish, OthersKept, TypeOK
    <2> QED BY <1>0, <2>1, <2>2, MovingKeepsAudit
  <1>5. CASE \/ WriteDirectFails(r) \/ RefuseLocked(r) \/ ApplyFails(r) \/ BreakDeadlock(r)
             \/ PartialApprove(r) \/ ApplyChange(r) \/ EndApprovedDelete(r)
             \/ Reject(r) \/ Withdraw(r)
    <2>1. reqs[r].pc # "audit"
      BY <1>5 DEF WriteDirectFails, RefuseLocked, ApplyFails, BreakDeadlock, WaitCycle, AtLock,
            PartialApprove, ApplyChange, EndApprovedDelete, Reject, Withdraw
    <2>2. Finish(r) /\ UNCHANGED <<unaudited, crashes>>
      BY <1>5 DEF WriteDirectFails, RefuseLocked, ApplyFails, BreakDeadlock, Fail, PartialApprove,
            ApplyChange, EndApprovedDelete, CommitApproval, Reject, Withdraw, Close, history
    <2>3. OthersKept(r) BY <1>0, <2>2, FinishFacts
    <2> QED BY <1>0, <2>1, <2>2, <2>3, MovingKeepsAudit
  <1> QED BY <1>1, <1>2, <1>3, <1>4, <1>5 DEF Step

LEMMA NextKeepsAudit == TypeInv /\ AuditInv /\ [Next]_vars => AuditInv'
  <1> SUFFICES ASSUME TypeInv, AuditInv, [Next]_vars PROVE AuditInv'
    OBVIOUS
  <1>0. TypeOK BY DEF TypeInv
  <1>1. CASE SaveConfig \/ (\E u \in Users : DeleteUser(u)) \/ UNCHANGED vars
    <2>1. UNCHANGED <<unaudited, crashes, reqs>>
      BY <1>1 DEF SaveConfig, DeleteUser, vars, history
    <2> QED BY <1>0, <2>1, QuietKeepsAudit DEF Waits
  <1>2. ASSUME NEW r \in Requests, Open(r) PROVE AuditInv'
    <2>1. reqs[r].pc # "audit" /\ UNCHANGED <<unaudited, crashes>>
      BY <1>2 DEF Open, OpenWrite, OpenUngated, OpenApprove, OpenReject, OpenWithdraw,
                  OpenDecision, history
    <2>2. OthersKept(r)
      BY <1>0, <1>2 DEF Open, OpenWrite, OpenUngated, OpenApprove, OpenReject, OpenWithdraw, OpenDecision,
                        OthersKept, TypeOK
    <2> QED BY <1>0, <2>1, <2>2, MovingKeepsAudit
  <1> QED BY <1>1, <1>2, StepKeepsAudit, CrashKeepsAudit DEF Next

\* Every committed write that a handler logs (an edit only if it shows a difference
\* in a logged field) has its audit row or a request that is about to write it, but
\* for one for each worker that died between the two.
THEOREM TrailLosesOnePerCrash == Spec => []WritesAudited
  <1>1. Init => AuditInv
    BY FS_EmptySet DEF Init, AuditInv, Lost
  <1>2. TypeInv /\ AuditInv => WritesAudited
    <2> SUFFICES ASSUME TypeInv, AuditInv PROVE WritesAudited
      OBVIOUS
    <2> DEFINE L == {w \in unaudited : ~(reqs[w[1]].pc = "audit" /\ reqs[w[1]].entity = w[2])}
    <2>1. L \subseteq Lost
      BY DEF Lost, Covered
    <2>2. /\ Cardinality(L) \in Nat /\ Cardinality(Lost) \in Nat
          /\ Cardinality(L) <= Cardinality(Lost)
      BY <2>1, LostFinite, FS_Subset, FS_CardinalityType DEF AuditInv
    <2>3. crashes \in Nat /\ Cardinality(Lost) <= crashes
      BY DEF AuditInv, TypeInv, TypeOK
    <2> HIDE DEF L
    <2>4. Cardinality(L) <= crashes
      BY <2>2, <2>3
    <2> QED BY <2>4 DEF WritesAudited, L
  <1> QED BY <1>1, <1>2, InitType, NextKeepsType, NextKeepsAudit, PTL DEF Spec
=============================================================================
