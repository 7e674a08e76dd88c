--------------------------- MODULE MCOutputLines ---------------------------
EXTENDS OutputLines, TLC

CONSTANTS s1, s2

MCServers == {s1, s2}

\* Room for two lines in one piece, and for pieces of different lengths.
MCLength == s1 :> 4 @@ s2 :> 2
=============================================================================
