------------------------------ MODULE MCLocalSd ------------------------------
(* Small instances of LocalSd for TLC. *)
EXTENDS LocalSd, TLC

CONSTANTS r1, r2, r3

Plain == [force |-> FALSE, keep |-> FALSE, sim |-> FALSE, skip |-> FALSE]

\* A full build, lock harness runs that force or keep the lock, simulations.
MixedOptions ==
    {Plain,
     [Plain EXCEPT !.skip = TRUE, !.force = TRUE],
     [Plain EXCEPT !.skip = TRUE, !.keep = TRUE],
     [Plain EXCEPT !.sim = TRUE],
     [Plain EXCEPT !.sim = TRUE, !.force = TRUE]}

\* Harness runs and simulations as they are started by default.
UnforcedHarness == {[Plain EXCEPT !.skip = TRUE]}
OwnKey == [r \in Runs |-> r]

Symmetry == Permutations(Runs)
=============================================================================
