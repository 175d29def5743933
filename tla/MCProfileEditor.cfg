SPECIFICATION FairSpec
CONSTANTS
  Texts = {old, new}
  Default = old
  Missing = Missing
  Torn = Torn
  Nothing = Nothing
  Jobs = {j1, j2}
  MaxLoads = 1
INVARIANTS
  ModeIsConsistent
  LoneSaveLands
  SpinnerCoversSave
PROPERTIES
  SavesFinish
