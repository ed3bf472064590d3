---------------------------- MODULE MCThreadPool ----------------------------
(***************************************************************************)
(* The pool with operations that are interchangeable.                      *)
(***************************************************************************)
EXTENDS ThreadPool, TLC

Symmetry == Permutations(Ops)
=============================================================================
