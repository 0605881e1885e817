----------------------------- MODULE MCCoreRack -----------------------------
(* One page with two consoles and three games: two of a light core that     *)
(* differ in their devices, and one of a core that runs in a worker and     *)
(* leaves no room beside it.                                                *)
EXTENDS CoreRack

MCGames == {[rom |-> "duck", core |-> "nes", devices |-> "pad"],
            [rom |-> "duck", core |-> "nes", devices |-> "gun"],
            [rom |-> "disc", core |-> "psx", devices |-> "pad"]}
MCWeight == [nes |-> 1, psx |-> 2]
=============================================================================
