-------------------------- MODULE MCNetworkImages --------------------------
EXTENDS NetworkImages

\* The server answers with two pictures.
MCHits == <<"u1", "u2">>
=============================================================================
