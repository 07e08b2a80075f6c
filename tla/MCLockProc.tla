---------------------------- MODULE MCLockProc -----------------------------
(* Model checking of LockProc. *)
EXTENDS LockProc, TLC

\* Sound for the safety runs only.
Symmetry == Permutations(Procs)
=============================================================================
