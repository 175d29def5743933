--------------------------- MODULE MCMessageSync ---------------------------
EXTENDS MessageSync

\* Three messages: two texts in one channel, one of them in another one too.
MCDocs == {1, 2, 3}
MCChannels == {"a", "b"}
MCContents == {"hello", "bye"}
MCChannelOf == [d \in MCDocs |-> IF d = 3 THEN "b" ELSE "a"]
MCContentOf == [d \in MCDocs |-> IF d = 2 THEN "bye" ELSE "hello"]
=============================================================================
