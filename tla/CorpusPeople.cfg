\* Every track may be matched, corrected and named in every order; two acts of researchers
\* or new runs.
SPECIFICATION PeopleSpec
CONSTANTS
  Faces = {11, 12}
  Voices = {13, 14, 15}
  VideoOf <- MCVideoOf
  RunOf <- MCRunOf
  AlikeSets <- MCAlikeSets
  Seen <- MCSeen
  Says <- MCSays
  Announces <- MCAnnounces
  ada = ada
  bob = bob
  Keys = {ada, bob}
  People = {1, 2, 3}
  None = None
  MaxActs = 2
INVARIANT
  OneFacePerson
PROPERTIES
  PlacementsStand
  ReviewsStand
CHECK_DEADLOCK FALSE
