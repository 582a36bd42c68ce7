----------------------------- MODULE MCFatTable -----------------------------
(* FatTable on three clusters: two share a block, one spans two blocks. *)
EXTENDS FatTable

BlockOf == [c \in Clusters |-> IF c < MaxCluster THEN 1 ELSE 2]
=============================================================================
