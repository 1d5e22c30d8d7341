SPECIFICATION Spec
CONSTANTS
  g = g
  h = h
  x = x
  y = y
  u = u
  v = v
  w = w
  s1 = s1
  s2 = s2
  None = None
  Zero = Zero
  Values = {u, v, w}
  Refused = {}
  ASGs = {g}
  LBs = {x, y}
  Parent <- OneParent
  History <- DropLB
  Slots = {s1}
  MaxFaults = 0
  MaxGlitches = 0
INVARIANTS LBsDeletedFirst
