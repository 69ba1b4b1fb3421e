SPECIFICATION Spec
CONSTANTS
  None = None
  Broken = Broken
  Files <- MCFiles
  Content <- MCContent
  Initial <- MCInitial
  Reload = {r1, r2}
  Reader = {q}
  Wanted <- MCWanted
  MaxEdits = 2
INVARIANTS
  ReloadedIsDisk
  LatestServed
PROPERTY ReloadTakesEffect
