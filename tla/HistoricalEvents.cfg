\* Two extractions at once.  Two acts besides them are enough to merge a merged event, to
\* replace a preferred reading and to change the text between a merge and an extraction.
SPECIFICATION Spec
CONSTANTS
  x1 = x1
  x2 = x2
  war = war
  peace = peace
  Events = {1, 2, 3}
  Claims = {1, 2, 3}
  Suggestions = {1, 2}
  Texts <- BothOrLast
  Label <- LabelOf
  Dated <- IsDate
  Labels = {war, peace}
  Names = {war}
  Starts <- NoneOrTwo
  Extractions = {x1, x2}
  Manual = Manual
  Gone = Gone
  None = None
  MaxActs = 2
SYMMETRY Overlapping
INVARIANTS
  EventsAreSound
  ReadersSeeClaims
PROPERTIES
  ReviewedStays
