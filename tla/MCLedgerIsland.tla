---------------------------- MODULE MCLedgerIsland ----------------------------
\* The engine and its planner, their properties and a turn's accounts on the island.
EXTENDS GameProperties, PlannedTurn, IslandWorld
=============================================================================
