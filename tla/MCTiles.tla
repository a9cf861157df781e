-------------------------------- MODULE MCTiles --------------------------------
(* Tiles for TLC: the instances are alike. *)
EXTENDS Tiles, TLC

CONSTANTS a, b
Alike == Permutations(Instances)
================================================================================
