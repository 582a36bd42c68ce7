---------------------------- MODULE MCFatChains -----------------------------
(* FatChains with two clusters to a FAT block. *)
EXTENDS FatChains, TLC

BlockOf == [c \in Clusters |-> c \div 2]
FilesSymmetry == Permutations(Files)
=============================================================================
