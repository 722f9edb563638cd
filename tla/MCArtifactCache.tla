--------------------------- MODULE MCArtifactCache ---------------------------
(* ArtifactCache with interchangeable clients. *)
EXTENDS ArtifactCache, TLC

MCSymmetry == Permutations(Clients)
=============================================================================
