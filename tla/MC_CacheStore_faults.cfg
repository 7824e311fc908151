SPECIFICATION Spec
CONSTANTS
  A = A
  B = B
  C = C
  D = D
  bad = bad
  i1 = i1
  i2 = i2
  NoCap = NoCap
  Caps = {A, C}
  Rejects = {bad}
  Names = {"site", "blog"}
  Paths <- MCPaths
  SecurityJson = "security.json"
  Covered <- MCCovered
  Name <- MCName
  Files <- MCFiles
  Isolates = {i1}
  Slots = 2
  PackageUrl = C
  Faults = {"evict", "cache", "fetch", "restart"}
INVARIANTS DropsOnlyDamaged
PROPERTIES OnlyRestoreRejects
