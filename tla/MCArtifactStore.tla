-------------------------- MODULE MCArtifactStore --------------------------
(* Small instances of ArtifactStore for TLC.                               *)
EXTENDS ArtifactStore, TLC

Symmetry == Permutations(Threads) \cup Permutations(Artifacts)
=============================================================================
