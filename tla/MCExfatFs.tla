------------------------------ MODULE MCExfatFs -----------------------------
\* ExfatFs with two names, sets of three and four entries, and a root that
\* starts empty, with files, chained and contiguous, or with directories.
EXTENDS ExfatFs

MCWidth == [n \in Names |-> IF n = "a" THEN 3 ELSE 4]
Item(n, dir, len, contig) == [name |-> n, dir |-> dir, len |-> len, contig |-> contig]
MCStarts == {<<>>, <<Item("a", FALSE, 2, FALSE)>>, <<Item("a", FALSE, 2, TRUE)>>,
             <<Item("a", FALSE, 1, FALSE), Item("bb", FALSE, 0, FALSE)>>,
             <<Item("a", TRUE, 1, TRUE)>>,
             <<Item("bb", TRUE, 1, FALSE), Item("a", TRUE, 1, FALSE)>>}
=============================================================================
