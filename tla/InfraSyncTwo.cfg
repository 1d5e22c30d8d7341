SPECIFICATION Spec
CONSTANTS
  g = g
  h = h
  x = x
  y = y
  u = u
  v = v
  w = w
  s1 = s1
  s2 = s2
  None = None
  Zero = Zero
  Values = {u, v, w}
  Refused = {}
  ASGs = {g}
  LBs = {x}
  Parent <- OneLB
  History <- FlipOne
  Slots = {s1, s2}
  MaxFaults = 1
  MaxGlitches = 1
SYMMETRY SlotSymmetry
INVARIANTS TypeOK
PROPERTIES OnlyOutdatedDeleted KeepsPromise
