\* Three runs of one video, in the settings of MCMediaLifecycle.
\* Deadlock checking is off: every run starts at most once.
SPECIFICATION Spec
SYMMETRY MediaSymmetry
CONSTANTS
  r1 = r1 r2 = r2 r3 = r3 a1 = a1 a2 = a2 v1 = v1
  None = None
  ScenesHeight = 1 DetailHeight = 2
  Runs = {r1, r2, r3}
  Settings <- AllSettings
  ExtractNeed <- SceneVideo
  AudioPaths = {a1, a2} VideoPaths = {v1}
  MaxDownloads = 4
INVARIANTS
  UnneededMediaIsReleased
  ReleasedMediaServed
  RecordsAreTrue
PROPERTIES ReadersKeepTheirMedia
CHECK_DEADLOCK FALSE
