SPECIFICATION MCSpec
CONSTANTS
  None = None
  Flow <- MCDescent
  MAX_FLOW_STACK_DEPTH = 5
  Utterance <- MCPilotSays
  MaydayCall = {"mayday"}
  CancelCall = {"cancel"}
  GreetingCall = {"greeting"}
  EmergencyFlow = "emergency-v1"
  EmergencyEntry = "MAYDAY_DECLARED"
  Reading <- MCDescentReading
  MaxTime = 4
INVARIANT OncePerSession
PROPERTY HeldWhileWaiting
