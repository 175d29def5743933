--------------------------- MODULE MCChannelSync ---------------------------
EXTENDS ChannelSync

\* Three documents, two of which were given the same name by their creators.
MCIds == {1, 2, 3}
MCNames == {"general", "random"}
MCNameOf == [i \in MCIds |-> IF i = 3 THEN "random" ELSE "general"]
=============================================================================
