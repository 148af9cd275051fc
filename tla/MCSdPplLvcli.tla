---------------------------- MODULE MCSdPplLvcli ----------------------------
(* Small instances of SdPplLvcli for TLC. *)
EXTENDS SdPplLvcli, TLC

CONSTANTS r1, r2, c1, c2

Plain == [copyOnFail |-> FALSE, forceWorktree |-> FALSE, sharedZip |-> FALSE]
PlainOnly == {Plain}
EveryOption == [copyOnFail : BOOLEAN, forceWorktree : BOOLEAN, sharedZip : BOOLEAN]
FewOptions == {[Plain EXCEPT !.forceWorktree = TRUE],
               [Plain EXCEPT !.copyOnFail = TRUE, !.sharedZip = TRUE]}

OneClone == [r \in Runs |-> c1]
OwnClone == [r \in Runs |-> IF r = r1 THEN c1 ELSE c2]

Symmetry == Permutations(Runs)

\* Two runs change places together with their clones.
PairSymmetry ==
    {(r1 :> r[1]) @@ (r2 :> r[2]) @@ (c1 :> OwnClone[r[1]]) @@ (c2 :> OwnClone[r[2]]) :
        r \in {<<r1, r2>>, <<r2, r1>>}}
=============================================================================
