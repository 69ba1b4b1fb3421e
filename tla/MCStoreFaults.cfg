SPECIFICATION HSpec
CONSTANTS
  Sid = {s1}
  Obj = {o1, o2, o3}
  Request = {r1, r2}
  None = None
  SESSION_TTL = 2
  SWEEP_INTERVAL = 2
  Durable = TRUE
  SqlFails = TRUE
  MaxTurns = 1
  MaxTime = 7
SYMMETRY Interchangeable
PROPERTIES ServesUnexpired FoundWithoutSql
