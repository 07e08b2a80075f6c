------------------------------ MODULE MCFeed ------------------------------
(* Model checking of Feed. *)
EXTENDS Feed, TLC

\* No property of Feed is a liveness property.
Symmetry == Permutations(Procs)
=============================================================================
