------------------------------ MODULE MCPoolArena ------------------------------
(***************************************************************************)
(* Model checking PoolArena.  Size classes: 1 small, two elements on a page *)
(* (4 KB); 2 small, one element on two pages (16 KB); 3 normal, six pages,  *)
(* too large for a thread cache.                                            *)
(***************************************************************************)
EXTENDS PoolArena, TLC

MCRunPages == <<1, 2, 6>>
MCElems == <<2, 1>>

Symmetry == Permutations(Thread) \cup Permutations(Buf)
================================================================================
