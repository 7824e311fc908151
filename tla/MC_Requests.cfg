SPECIFICATION MCSpec
CONSTANTS
  None = None
  s1 = s1
  s2 = s2
  SortedNames <- MCNames
  SortedIds <- MCIds
  Strip <- MCStrip
  Index <- MCIndex
  DataSegment = "data"
  Introspect <- MCIntrospect
  Packages <- MCPackages
  Paths <- MCPaths
  Methods = {"GET", "HEAD", "POST"}
  Scope <- MCScope
  Outside <- MCOutside
  Slots = {s1, s2}
  MaxModels = 2
INVARIANTS TypeOK Precedence DependencyContent ReactorsAgree LengthIsBody GeneratedReachable HandlerOfItsPackage OneImport
SYMMETRY Swap
CHECK_DEADLOCK FALSE
