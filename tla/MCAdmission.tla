----------------------------- MODULE MCAdmission -----------------------------
(* Constants for model-checking Admission.                                  *)
EXTENDS Admission, TLC

Symmetry == Permutations(Sockets) \cup Permutations(RoomIds)
             \cup Permutations(Addresses)
=============================================================================
