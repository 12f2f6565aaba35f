------------------------- MODULE MCSyncConnections -------------------------
(* SyncConnections for TLC: the world thread and two others, names for two *)
(* dynamic connections and a limit of two (MAX_SYNC_CONNECTIONS is 32).    *)
EXTENDS SyncConnections
CONSTANTS s, d1, d2, world, t1, t2
MCCaller == {world, t1, t2}
MCDynamic == {d1, d2}
=============================================================================
