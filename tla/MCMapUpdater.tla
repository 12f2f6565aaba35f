---------------------------- MODULE MCMapUpdater ----------------------------
(* MapUpdater for TLC: two workers, a continent, a dungeon map with two    *)
(* instances, ticks of one or two units and a cycle of four.               *)
EXTENDS MapUpdater
CONSTANTS w1, w2, world, dungeon, inst1, inst2
MCThread == {w1, w2}
MCBaseMap == {world, dungeon}
MCInstance == {inst1, inst2}
MCCategory == [m \in MCBaseMap |-> IF m = world THEN 0 ELSE 2]
MCOwner == [i \in MCInstance |-> dungeon]
MCDiff == {1, 2}
=============================================================================
