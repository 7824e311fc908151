SPECIFICATION SerialSpec
CONSTANTS
  A = A
  B = B
  C = C
  D = D
  bad = bad
  i1 = i1
  i2 = i2
  NoCap = NoCap
  Caps = {A, B}
  Rejects = {}
  Names = {"site", "blog"}
  Paths <- MCPaths
  SecurityJson = "security.json"
  Covered <- MCCovered
  Name <- MCName
  Files <- MCFiles
  Isolates = {i1, i2}
  Slots = 1
  PackageUrl = NoCap
  Faults = {"restart"}
INVARIANTS DropsOnlyDamaged
