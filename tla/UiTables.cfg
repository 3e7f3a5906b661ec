SPECIFICATION TablesSpec
CONSTANTS
  c1 = c1  c2 = c2  c3 = c3  g1 = g1  g2 = g2  a1 = a1  a2 = a2
  Tables = {"columns", "alerts"}
  Columns <- MCColumns
  Groups <- MCGroups
  Default <- MCDefault
  Mapping <- MCMapping
  Saved <- MCSaved
  Filters <- MCFilters
  MaxSaves = 3
  MaxWork = 3
  Alerts = {a1, a2}
  MaxGets = 2
  AlertCalls = {1, 2}
INVARIANTS TablesTypeOK ToggleMovesMarked OrderMovesMarked SavedIsServed ColumnsOfTheirGroup FreshSaveAccepted AlertsShownAreServed
CHECK_DEADLOCK FALSE
