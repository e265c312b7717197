------------------------------ MODULE MCSocket -------------------------------
(***************************************************************************)
(* TLC instance of GlobalSocket: the worker threads are interchangeable.   *)
(***************************************************************************)
EXTENDS GlobalSocket, TLC

Symmetry == Permutations(Workers)
==============================================================================
