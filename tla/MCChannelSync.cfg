SPECIFICATION Spec
CONSTANTS
  Ids <- MCIds
  Names <- MCNames
  NameOf <- MCNameOf
  MaxQueue = 2
  MaxSaves = 5
INVARIANTS
  NoInsertStranded
  ExactPassMirrors
  PassDoesItsPart
PROPERTIES
  OnlyStaleRowsLeave
  ImplementsChannelCache
