SPECIFICATION FairSpec
CONSTANTS
  ed = ed
  ad1 = ad1
  ad2 = ad2
  ad3 = ad3
  a1 = a1
  a2 = a2
  l1 = l1
  Null = Null
  Users = {ed, ad1}
  Superadmins = {}
  Role <- MCRole
  Deletable = {}
  Assets = {a1, a2}
  Rels = {l1}
  Changes = {c1}
  InitAssets = {a1, a2}
  InitRels <- NoRels
  Requests = {r1, r2}
  Configs <- OnOff
  InitConfig <- GateAll
  Ops <- TableOps
  Bypasses <- TableBypasses
  MaxCrashes = 1
INVARIANTS
  GateRespected LinksHaveEndpoints WritesAudited
PROPERTIES
  RequestsFinish
