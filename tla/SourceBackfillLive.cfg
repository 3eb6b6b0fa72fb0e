\* A review-first source and an automatic one list the same videos, one of which the first
\* source's filters reject, without faults; one source with a fault at any statement.  Under
\* fairness.
\* Deadlock checking is off: when the requests are over the system rests.
SPECIFICATION FairSpec
CONSTANTS
  s1 = s1
  u1 = u1
  s2 = s2
  v1 = v1
  v2 = v2
  Sources = {s1, s2}
  Videos = {v1, v2}
  Settings <- LiveSettings
  LimitCount = 1
  Recent = {}
  Results = {"indexed", "failed", "error", "missing"}
  Users = {u1}
  None = None
INVARIANTS
  ReviewFirstHolds
PROPERTIES
  RequestsFinish
CHECK_DEADLOCK FALSE
