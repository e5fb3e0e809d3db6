SPECIFICATION FairSpec
CONSTANTS
  etl = etl
  oth = oth
  a = a
  b = b
  e1 = e1
  e2 = e2
  h = h
  system = system
  device = device
  Null = Null
  Syncs = {s1, s2}
  Editors = {p1}
  Sources = {etl, oth}
  Refs = {a, b}
  EdgeRefs = {e1, e2}
  Names = {h}
  Bearers <- MCBearers
  Types = {system, device}
  Posts <- MCPosts
  InitAssets <- MCAssets
  InitEdges <- MCEdges
INVARIANTS
  IdsHold
PROPERTIES
  OwnRowsOnly AppliesPayload RequestsEnd
CHECK_DEADLOCK FALSE
