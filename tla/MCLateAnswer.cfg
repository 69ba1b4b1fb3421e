SPECIFICATION OverlapSpec
CONSTANTS
  None = None
  Flow <- MCShipped
  MAX_FLOW_STACK_DEPTH = 5
  Utterance <- MCUtterance
  MaydayCall = {"mayday"}
  CancelCall = {"cancel"}
  GreetingCall = {"greeting"}
  EmergencyFlow = "emergency-v1"
  EmergencyEntry = "MAYDAY_DECLARED"
  Reading = {}
  MaxTime = 0
  Transmission = {r1, r2}
PROPERTY EmergencyRunsToItsEnd
