------------------------------ MODULE MCPacer ------------------------------
(***************************************************************************)
(* An instance of Pacer for TLC: three writes, of which one has the time   *)
(* for two tries and a hold, and the others end up waiting for it.         *)
(***************************************************************************)
EXTENDS Pacer

CONSTANTS w1, w2, w3

MCPatience == [w \in Writers |-> CASE w = w1 -> 4 [] w = w2 -> 3 [] OTHER -> 1]
=============================================================================
