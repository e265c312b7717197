------------------------------- MODULE MCWrite -------------------------------
(***************************************************************************)
(* TLC instance of WriteQueue: sockets and worker threads are              *)
(* interchangeable.                                                        *)
(***************************************************************************)
EXTENDS WriteQueue, TLC

Symmetry == Permutations(Workers) \cup Permutations(Slots)
==============================================================================
