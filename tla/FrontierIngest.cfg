\* Two workers race for two targets, each claim of which can be taken over once; or two
\* recordings and a worker overlap in every way.  Deadlock checking is off: when every
\* target is completed or out of attempts and every recording has ended, nothing remains.
SPECIFICATION IngestSpec
CONSTANTS
  video = video
  channel = channel
  other = other
  Targets = {video, channel, other}
  Workers = {w1, w2}
  Enqueuers = {r1, r2}
  Requests <- MCRequests
  Policy <- MCPolicy
  MaxAttempts = 2
  None = None
  Links <- MCLinks
  Reports <- MCReports
  MaxSeedDepth = 1
  Settings <- MCSettings
SYMMETRY MCSymmetry
INVARIANTS
  TypeOK
  SummaryMatchesEvidence
  AttemptsAreFenced
  CrawlIsComplete
PROPERTIES
  OwnersAreRespected
  ImplementsFencedTask
CHECK_DEADLOCK FALSE
