SPECIFICATION FairSpec
CONSTANTS
  g = g
  h = h
  x = x
  y = y
  u = u
  v = v
  w = w
  s1 = s1
  s2 = s2
  None = None
  Zero = Zero
  Values = {u, v, w}
  Refused = {w}
  ASGs = {g, h}
  LBs = {x, y}
  Parent <- TwoParents
  History <- Growth
  Slots = {s1}
  MaxFaults = 2
  MaxGlitches = 2
INVARIANTS ManagedGoneFirst
PROPERTIES ApplyDone EventuallyBuilt
