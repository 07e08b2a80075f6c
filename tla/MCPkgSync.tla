----------------------------- MODULE MCPkgSync -----------------------------
(* Model checking of PkgSync. *)
EXTENDS PkgSync, TLC

\* Sound for the safety runs only.
Symmetry == Permutations(Procs)

\* The safety properties promise nothing after a race, so TLC goes no further than the
\* state in which one has happened.  LockRecovered, which promises something still, is
\* also checked without this, by PkgSyncOverlap.cfg.
NotYetRaced == ~raced
=============================================================================
