---------------------------- MODULE MCLocalQueue ----------------------------
(***************************************************************************)
(* LocalQueue for TLC.  Operations, and thieves, are interchangeable; the  *)
(* properties are safety properties, so symmetry is sound.                 *)
(***************************************************************************)
EXTENDS LocalQueue, TLC

Symmetry == Permutations(Ops) \cup Permutations(Thieves)
=============================================================================
