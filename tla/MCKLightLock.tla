----------------------------- MODULE MCKLightLock -----------------------------
EXTENDS KLightLock, TLC

CONSTANTS g1, g2, g3, h1, Thread, Process

MCRank2 == g1 :> 0 @@ g2 :> 1
MCRank == g1 :> 0 @@ g2 :> 1 @@ g3 :> 2
=============================================================================
