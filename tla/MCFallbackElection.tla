------------------------- MODULE MCFallbackElection -------------------------
(***************************************************************************)
(* Constants for model-checking FallbackElection: the first delays of      *)
(* RoomConnection.js's two tables, in milliseconds.                        *)
(***************************************************************************)
EXTENDS FallbackElection, TLC

MCFastDelays == <<500, 1000, 2000>>
MCSlowDelays == <<5000, 10000, 20000>>

Symmetry == Permutations(Clients)
=============================================================================
