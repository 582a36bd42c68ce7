----------------------------- MODULE MCNodeTable -----------------------------
(* NodeTable on a small instance; files and slots are interchangeable. *)
EXTENDS NodeTable, TLC

Symmetry == {f @@ s : f \in Permutations(Files), s \in Permutations(Slots)}
=============================================================================
