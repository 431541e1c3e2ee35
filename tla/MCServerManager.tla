--------------------------- MODULE MCServerManager ----------------------------
EXTENDS ServerManager

CONSTANTS c1, c2, s1, s2, w1, w2
=============================================================================
