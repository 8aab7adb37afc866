------------------------- MODULE MCAccountLifecycle -------------------------
(* Instances of AccountLifecycle for TLC are given by the bounds alone.     *)
EXTENDS AccountLifecycle
=============================================================================
