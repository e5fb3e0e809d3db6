SPECIFICATION Spec
CONSTANTS
  ed = ed
  ad1 = ad1
  ad2 = ad2
  ad3 = ad3
  a1 = a1
  a2 = a2
  l1 = l1
  Null = Null
  Users = {ed, ad1}
  Superadmins = {}
  Role <- MCRole
  Deletable = {}
  Assets = {a1}
  Rels = {}
  Changes = {c1, c2}
  InitAssets = {a1}
  InitRels <- NoRels
  Requests = {r1, r2}
  Configs <- JustAll
  InitConfig <- GateAll
  Ops <- UpdateOnly
  Bypasses <- NoBypass
  MaxCrashes = 0
INVARIANTS
  NoDuplicatePending
