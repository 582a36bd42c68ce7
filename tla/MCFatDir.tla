------------------------------ MODULE MCFatDir ------------------------------
\* FatDir with three names, one of them without a long name, and a root that
\* starts empty, with a slot left, full, or with directories.
EXTENDS FatDir

MCWidth == [n \in Names |-> CASE n = "a" -> 1 [] n = "bb" -> 2 [] OTHER -> 3]
AFile(n) == [name |-> n, dir |-> FALSE]
ADir(n) == [name |-> n, dir |-> TRUE]
MCStarts == {<<>>, <<AFile("bb"), ADir("a")>>, <<AFile("ccc"), AFile("a")>>, <<ADir("a"), ADir("bb")>>}
=============================================================================
