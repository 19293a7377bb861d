-------------------------- MODULE MCInstrumentation ---------------------------
(***************************************************************************)
(* Instrumentation for TLC.  Nothing tells two instances of a class apart, *)
(* nor two threads that connect.                                           *)
(***************************************************************************)
EXTENDS Instrumentation, TLC

Symmetry == Permutations(Instances) \cup Permutations(Threads)

=============================================================================
