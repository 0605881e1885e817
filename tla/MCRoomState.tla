----------------------------- MODULE MCRoomState -----------------------------
(***************************************************************************)
(* Constants for model-checking RoomState: a value is its own cost, and    *)
(* the largest one breaks a structural cap.                                *)
(***************************************************************************)
EXTENDS RoomState, TLC

MCValues == 1..3
MCCost   == [v \in MCValues |-> v]
MCTooBig == {3}

Symmetry == Permutations(Peers)
=============================================================================
