------------------------------ MODULE MCKernel ------------------------------
(***************************************************************************)
(* Instances of module Kernel for TLC.                                     *)
(***************************************************************************)
EXTENDS Kernel, TLC

\* The applications other than the start-up one are interchangeable.
Symmetry == Permutations(Procs \ {Idle, First})

=============================================================================
