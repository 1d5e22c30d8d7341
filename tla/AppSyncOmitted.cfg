SPECIFICATION Spec
CONSTANTS
  a1 = a1
  a2 = a2
  v1 = v1
  v2 = v2
  v3 = v3
  i1 = i1
  i2 = i2
  i3 = i3
  u1 = u1
  k1 = k1
  s1 = s1
  s2 = s2
  Manual = manual
  CpuMode = cpu
  None = None
  Values = {v1, v2, manual, cpu}
  Images = {i1, i2, i3}
  Users = {u1}
  Keys = {k1}
  Apps = {a1}
  Slots = {s1}
  History <- ToCpu
  DeployImages = {i2}
  PageSize = 30
  MaxVersions = 5
  MaxFaults = 0
  MaxDeploys = 0
  MaxRemoves = 0
PROPERTIES PlannedIsSpelledOut
CHECK_DEADLOCK FALSE
