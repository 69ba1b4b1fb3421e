SPECIFICATION Spec
CONSTANTS
  None = None
  Flow <- MCSchema
  MAX_FLOW_STACK_DEPTH = 2
  Utterance <- MCUtterance
  MaydayCall = {"mayday"}
  CancelCall = {"cancel"}
  GreetingCall = {"greeting"}
  EmergencyFlow = "emergency-v1"
  EmergencyEntry = "MAYDAY_DECLARED"
  Reading <- MCGroundReading
  MaxTime = 1
INVARIANTS
  PositionInv
  UnreachableIsNeverReached
  LostStateWasReported
PROPERTY ImplementsTrainingSession
