------------------------------ MODULE MCSaveRam ------------------------------
(* Two consoles; two games of one worker core, and one that runs on the main
   thread and has no card.  Nothing distinguishes the first two.              *)
EXTENDS SaveRam, TLC

CONSTANTS c1, c2, ga, gb, plain, worker_core, main_core

MCCore == (ga :> worker_core) @@ (gb :> worker_core) @@ (plain :> main_core)
MCSymmetry == Permutations({ga, gb})
==============================================================================
