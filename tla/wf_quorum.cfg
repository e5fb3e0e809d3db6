SPECIFICATION Spec
CONSTANTS
  ed = ed
  ad1 = ad1
  ad2 = ad2
  ad3 = ad3
  a1 = a1
  a2 = a2
  l1 = l1
  Null = Null
  Users = {ed, ad1, ad2, ad3}
  Superadmins = {ad3}
  Role <- MCRole
  Deletable = {ad1}
  Assets = {a1, a2}
  Rels = {}
  Changes = {c1}
  InitAssets = {a2}
  InitRels <- NoRels
  Requests = {r1, r2}
  Configs <- QuorumConfigs
  InitConfig <- GateTwo
  Ops <- CreateOrUpdate
  Bypasses <- NoBypass
  MaxCrashes = 1
INVARIANTS
  AppliedIffApproved ApprovalsAuthorised ApprovedHasQuorum FourEyes
PROPERTIES
  DecidedIsFinal ImplementsGate
