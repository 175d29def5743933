SPECIFICATION FairSpec
CONSTANTS
  Docs <- MCDocs
  Channels <- MCChannels
  Contents <- MCContents
  None = None
  ChannelOf <- MCChannelOf
  ContentOf <- MCContentOf
  Listeners = {l1, l2}
  MaxQueue = 1
  MaxSaves = 2
INVARIANTS
  CacheIsSound
  ShownWhereSent
  EqualCountsMeanComplete
  WholePassStoresAll
PROPERTIES
  MessagesStayPut
  ImplementsMessageCache
  WholePassSettles
