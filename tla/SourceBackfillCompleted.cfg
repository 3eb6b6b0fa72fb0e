\* One cancel while a second request records its snapshot.
SPECIFICATION Spec
CONSTANTS
  s1 = s1
  u1 = u1
  s2 = s2
  v1 = v1
  v2 = v2
  Sources = {s1}
  Videos = {v1, v2}
  Settings <- CompletedSettings
  LimitCount = 1
  Recent = {}
  Results = {"indexed", "failed"}
  Users = {u1}
  None = None
INVARIANTS
  CompletedMeansFinished
CHECK_DEADLOCK FALSE
