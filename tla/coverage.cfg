SPECIFICATION FairSpec
CONSTANTS
  f = f
  g = g
  r1 = r1
  r2 = r2
  r3 = r3
  c = c
  p = p
  Null = Null
  Frameworks = {f, g}
  Requirements = {r1, r2, r3}
  Controls = {c}
  Others = {p}
  Universe <- MCUniverse
  InitLinks <- MCInitLinks
  Names = {"soc", "iso"}
  InitNames <- MCNames
  Renamable = {g}
  Deletable = {g}
  Gradings = {"ineffective"}
  Workers = {w1}
  MaxEdits = 2
  MaxDay = 1
  MaxCrashes = 1
CHECK_DEADLOCK FALSE
INVARIANTS FiguresAddUp ViewsAgree
PROPERTIES EffectiveMonotone CapturedDaily
