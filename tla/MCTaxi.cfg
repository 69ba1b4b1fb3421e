SPECIFICATION Spec
CONSTANTS
  None = None
  Heading <- MCHeading
  Position <- MCPosition
  Runway <- MCRunway
  MAX_ATTACH_DISTANCE_M = 3
  Request <- MCRequest
  Feature <- MCFeature
  Answer <- MCAnswer
INVARIANTS
  ShortestRoute
  NoRouteOnlyWhereUnserved
  EveryCrossingAnnounced
  NearerEndAnnounced
  TaxiwaysSpoken
  ExactNameWins
  ThresholdOfDesignator
PROPERTIES
  Answered
CHECK_DEADLOCK FALSE
