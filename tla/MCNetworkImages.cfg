SPECIFICATION Spec
CONSTANTS
  Hits <- MCHits
  Cells = {c1, c2}
  Elsewhere = Elsewhere
  None = None
  MaxLoads = 3
INVARIANTS
  IndexStaysValid
  CellsShowTheirRow
