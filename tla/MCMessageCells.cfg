\* Two cells for four messages, two fetches in flight.
SPECIFICATION CellSpec
CONSTANTS
  own = own
  pic = pic
  pic2 = pic2
  bad = bad
  NoMessage = NoMessage
  Messages = {own, pic, pic2, bad}
  Kind <- MCKind
  Own <- MCOwn
  c1 = c1
  c2 = c2
  TableCells = {c1, c2}
  Fetches <- MCFetches
SYMMETRY CellSymmetry
INVARIANTS
  CellsKeepSender
  CellsGetContent
