\* One request at a time starts runs of a workflow or changes it, another reads
\* pages; one statement fails or the server stops once.
\* Deadlock checking is off: with every run recorded and nobody reading, all rests.
SPECIFICATION FairSpec
CONSTANTS
  asr = asr
  ocr = ocr
  h1 = h1
  h2 = h2
  Workflows = {w1}
  Stages = {asr, ocr}
  Saved <- AsrOnly
  Overrides <- AllOrNone
  Definitions <- TwoDefinitions
  Edits <- PlanEdits
  Handlers = {h1, h2}
  Starting = {h1}
  Overriding = {h1}
  NumVideos = 1
  MaxRuns = 2
  MaxVersions = 2
  MaxFaults = 1
INVARIANTS
  OneRunAtATime
PROPERTIES
  RunsKeepTheirRecord
  RunsEnd
CHECK_DEADLOCK FALSE
