SPECIFICATION HSpec
CONSTANTS
  Sid = {s1, s2}
  Obj = {o1, o2, o3, o4}
  Request = {r1, r2}
  None = None
  SESSION_TTL = 1
  SWEEP_INTERVAL = 2
  Durable = TRUE
  SqlFails = FALSE
  MaxTurns = 1
  MaxTime = 4
SYMMETRY Interchangeable
INVARIANTS TypeOK Mirrored OneObject
PROPERTIES ImplementsDirectory KeepsSavedTurns IdleStaysTerminated
