SPECIFICATION Spec
CONSTANTS
  None = None
  SoundsLike <- NoProcedures
  Session = {departure, drill}
  Drill = {drill}
  Runway <- R25L
  Hold <- MCHold
  Utterance <- MCUtterance
  cache_ttl_seconds = 1
  MaxVersion = 2
  MaxTime = 2

INVARIANT DefaultStands
CHECK_DEADLOCK FALSE
