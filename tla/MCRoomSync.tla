----------------------------- MODULE MCRoomSync -----------------------------
(***************************************************************************)
(* Constants for model-checking RoomSync: every value costs one, so a peer *)
(* or the room is at its limit with one or two keys.                       *)
(***************************************************************************)
EXTENDS RoomSync, TLC

MCCost == [v \in Values |-> 1]

Symmetry == Permutations(Peers) \cup Permutations(Sids) \cup Permutations(Values)
=============================================================================
