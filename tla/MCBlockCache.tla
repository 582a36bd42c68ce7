---------------------------- MODULE MCBlockCache ----------------------------
(* BlockCache where the contents of one block change. *)
EXTENDS BlockCache

ContentsOf == [b \in Blocks |-> IF b = 1 THEN {0, 1} ELSE {0}]
=============================================================================
