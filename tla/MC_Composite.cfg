SPECIFICATION CompositeSpec
CONSTANTS
  page = page
  style = style
  g = g
  h = h
  None = None
  Marker = Marker
  Paths = {page, style}
  Top = 2
  Caps <- MCCaps
  Stores <- MCStores
  Indexes <- MCIndexes
  Wants <- MCWants
  Rewrites = 1
INVARIANTS TypeOK OverlayResult StoreTypeOK PlanCorrect LoadedAsPlanned
SYMMETRY Swap
CHECK_DEADLOCK FALSE
