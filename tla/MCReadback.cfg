SPECIFICATION Spec
CONSTANTS
  None = None
  SoundsLike <- MCSoundsLike
  Clearance <- MCClearance
  MistakenFor <- MCMistakenFor
INVARIANTS
  RightReadbackAccepted
  WrongReadbackCorrected
