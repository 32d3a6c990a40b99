-------------------------- MODULE MCEmbeddingMode ---------------------------
(* Instances of EmbeddingMode for TLC.                                     *)
EXTENDS EmbeddingMode, TLC

Symmetry == Permutations(Repos) \union Permutations(Slots)
=============================================================================
