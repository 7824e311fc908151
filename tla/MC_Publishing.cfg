SPECIFICATION MCSpec
CONSTANTS
  None = None
  k1 = k1
  k2 = k2
  c1 = c1
  c2 = c2
  p1 = p1
  p2 = p2
  Content <- MCContent
  Join <- MCJoin
  Marker = "layer/.tombstones"
  Order <- MCOrder
  ReadOrders <- MCReads
  EditSet <- MCEdits
  Keys = {k1, k2}
  Caps = {c1, c2}
  Procs = {p1, p2}
  Starts <- MCStarts
  MaxEdits = 1
  MaxRuns = 3
INVARIANTS TypeOK ServedAsSealed ServedAsSigned ArchivesVerify OpensWhatWasWrapped RunAgainRepairs
CHECK_DEADLOCK FALSE
