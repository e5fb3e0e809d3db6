----------------------------- MODULE MCWorkflow -----------------------------
(* Small instances of Workflow: roles, configurations and operations. *)
EXTENDS Workflow

CONSTANTS ed, ad1, ad2, ad3, a1, a2, l1

MCRole == [u \in Users |-> CASE u = ed -> "editor" [] OTHER -> "admin"]

Cfg(gate, threshold, role, self) ==
    [gate |-> gate, threshold |-> threshold, role |-> role, self |-> self]
GateAll == Cfg(Actions, 1, Null, FALSE)
GateTwo == Cfg(Actions, 2, Null, FALSE)
GateSelf == Cfg(Actions, 1, Null, TRUE)
GateNone == Cfg({}, 1, Null, FALSE)
GateAdmin == Cfg(Actions, 2, "admin", FALSE)

Op(action, target, arg) == [action |-> action, target |-> target, arg |-> arg]
CreateOp == Op("create", Null, Null)
UpdateOp == Op("update", a1, Null)
UpdateOther == Op("update", a2, Null)
DeleteOther == Op("delete", a2, Null)
LinkOp == Op("relationship_create", a2, a1)
UnlinkOp == Op("relationship_delete", a2, l1)

NoRel == [state |-> "unborn", src |-> Null, dst |-> Null]
NoRels == [l \in Rels |-> NoRel]

OnOff == {GateAll, GateNone}
JustAll == {GateAll}
QuorumConfigs == {GateTwo, GateAdmin, GateSelf}
CreateOrUpdate == {CreateOp, UpdateOther}
UpdateOnly == {UpdateOp}
TableOps == {LinkOp, UnlinkOp, DeleteOther, UpdateOther}
NoBypass == {}
TableBypasses == {<<"import", LinkOp>>}
=============================================================================
