CONSTANTS
  j1 = j1
  j2 = j2
  j3 = j3
  j4 = j4
  None = None
  Jobs = {j1, j2, j3, j4}
  Settings <- Cases
  FaceFootage <- Footage
  VoiceFootage <- Recordings
  TextFootage <- Pages
  ScenesIn <- Lengths
  StartsAtZero = {1}
  Similarity <- Alike
  MinSimilarity = 5
  SampleInterval = 2
  MaxGap = 3
  Slack = 1
  Answers <- Replies
SPECIFICATION Spec
CHECK_DEADLOCK FALSE
INVARIANTS
  StoredRowsAreSound
  ExportsResolve
  SnapshotIsOneAnswer
