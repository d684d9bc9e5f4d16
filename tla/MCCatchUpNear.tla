---------------------------- MODULE MCCatchUpNear ----------------------------
\* The setting of CatchUpNear is one that HonestIsSafe speaks of.
EXTENDS MCCatchUp

ASSUME NearSetting == NearPeers
=============================================================================
