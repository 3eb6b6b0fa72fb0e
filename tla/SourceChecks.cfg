\* Two requests for one automatic source with an upload still queued; one request of a
\* source that changes its policy, a user's controls and one fault in both; checks of a
\* source added without history, by everyone, and by the scheduler alone with faults;
\* and three tasks that check while claims go stale, or while the server restarts.
\* Deadlock checking is off: the requests end, and a source that is not due rests.
SPECIFICATION ChecksSpec
CONSTANTS
  s1 = s1
  s2 = s2
  u1 = u1
  v1 = v1
  v2 = v2
  c1 = c1
  c2 = c2
  c3 = c3
  Sources = {s1}
  Videos = {v1, v2}
  Settings <- CheckSettings
  LimitCount = 1
  Recent = {}
  Results = {"indexed", "failed", "missing"}
  Users = {u1}
  None = None
INVARIANTS
  ChecksDoNotPileUp
  BackfillsAreSound
PROPERTIES
  HistoryStaysExcluded
  DecisionsAndResultsStand
CHECK_DEADLOCK FALSE
