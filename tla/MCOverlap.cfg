SPECIFICATION OverlapSpec
CONSTANTS
  None = None
  Flow <- MCWaits
  MAX_FLOW_STACK_DEPTH = 5
  Utterance = {"request", "garbled", "mayday", "cancel"}
  MaydayCall = {"mayday"}
  CancelCall = {"cancel"}
  GreetingCall = {"greeting"}
  EmergencyFlow = "emergency-v1"
  EmergencyEntry = "MAYDAY_DECLARED"
  Reading <- MCAirborneReading
  MaxTime = 1
  Transmission = {r1, r2}
INVARIANTS
  RowResumable
  DistressWhileSuspended
PROPERTIES
  StrandedOnlyAfterFlowChange
