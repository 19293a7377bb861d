-------------------------------- MODULE MCSpan --------------------------------
(* The span ids of a small instance of Span, as model values for TLC. *)
EXTENDS Span

CONSTANTS own, parent, id1
===============================================================================
