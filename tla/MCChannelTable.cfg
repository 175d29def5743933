\* The list of two channels with one queued snapshot; the fairness serves the
\* last two properties.
SPECIFICATION TableFairSpec
CONSTANTS
  Ids <- MCIds
  Names <- MCNames
  NameOf <- MCNameOf
  Activity <- MCActivity
  None = None
  MaxQueue = 1
  MaxSaves = 3
  MaxReloads = 2
INVARIANTS
  FreshTableIsExact
PROPERTIES
  HitsWhatIsShown
  RemovedChannelsLeave
  ExactPassSettles
