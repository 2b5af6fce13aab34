-------------------------- MODULE MCBackgroundJobs --------------------------
(* Model checking of BackgroundJobs: the tool calls are interchangeable. *)
EXTENDS BackgroundJobs, TLC
Symmetry == Permutations(Host)
=============================================================================
