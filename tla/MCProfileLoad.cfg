SPECIFICATION Spec
CONSTANTS
  Texts = {old, new}
  Default = old
  Missing = Missing
  Torn = Torn
  Nothing = Nothing
  Jobs = {j1, j2}
  MaxLoads = 1
PROPERTIES
  LoadAlwaysCallsBack
