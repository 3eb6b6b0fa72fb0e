\* Two mention groups and two people that evidence may join in a ring; eight ids are
\* enough for the identities of four units, one redirect and one split.
SPECIFICATION Spec
CONSTANTS
  g1 = g1
  g2 = g2
  p1 = p1
  p2 = p2
  Units = {g1, g2, p1, p2}
  People = {p1, p2}
  Key <- KeyOf
  EntityType <- PersonType
  NameKey <- OneName
  Edges <- NamedTwice
  Identities = {1, 2, 3, 4, 5, 6, 7, 8}
  None = None
  MaxActs = 3
INVARIANTS
  KeptApart
  RegistryIsSound
PROPERTIES
  ConfirmedStays
  Idempotent
