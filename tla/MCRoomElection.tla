--------------------------- MODULE MCRoomElection ---------------------------
(***************************************************************************)
(* Constants and symmetry for model-checking RoomElection.                 *)
(***************************************************************************)
EXTENDS RoomElection, TLC

Symmetry == Permutations(Peers) \cup Permutations(Sids)
=============================================================================
