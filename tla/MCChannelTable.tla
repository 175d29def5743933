--------------------------- MODULE MCChannelTable ---------------------------
EXTENDS ChannelTable

\* Documents of different names; the activity orders them against the ids.
MCIds == {1, 2}
MCNames == {"general", "random"}
MCNameOf == [i \in MCIds |-> IF i = 1 THEN "general" ELSE "random"]
MCActivity == [i \in MCIds |-> 10 - i]
=============================================================================
