SPECIFICATION FairSpec
CONSTANTS
  a1 = a1
  v1 = v1
  v2 = v2
  i1 = i1
  i2 = i2
  u1 = u1
  k1 = k1
  s1 = s1
  g = g
  x = x
  small = small
  large = large
  wrong = wrong
  None = None
  Zero = Zero
  Manual = manual
  CpuMode = cpu
  Slots = {s1}
  Values = {v1, v2, manual, cpu}
  Images = {i1, i2}
  Users = {u1}
  Keys = {k1}
  Apps = {a1}
  DeployImages = {i2}
  PageSize = 30
  MaxVersions = 9
  MaxFaults = 1
  MaxDeploys = 1
  MaxRemoves = 0
  ASGs = {g}
  LBs = {x}
  Parent <- OneLB
  Sizes = {small, large, wrong}
  Refused = {wrong}
  MaxLapses = 1
  MaxGlitches = 0
  History <- Rotation
  Clusters <- Rebuilt
INVARIANTS AppsLast
PROPERTIES NoChangesIsDone EventuallyDone
