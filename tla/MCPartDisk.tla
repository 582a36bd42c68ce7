----------------------------- MODULE MCPartDisk -----------------------------
\* Extents for devices of 10 and 12 blocks: the usable area of two entries is
\* 4 .. 6 or 4 .. 8, of one entry 3 .. 7 or 3 .. 9.
EXTENDS PartDisk

MCExtents == {<<3, 1>>, <<4, 2>>, <<6, 1>>}
MCExtendedAt == {<<2, 6>>}
MCLayouts == {[align |-> 1, sizes |-> <<1, 1, 0>>], [align |-> 2, sizes |-> <<1, 0>>],
              [align |-> 2, sizes |-> <<1, 1, 1, 1>>]}
====
