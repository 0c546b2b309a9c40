--------------------------- MODULE MCCollections ---------------------------
\* Instances of Collections for TLC: two threads, two links.
EXTENDS Collections, TLC

CONSTANTS w1, w2, l1, l2

MCWorkers == {w1, w2}
MCLinks == {l1, l2}

\* Threads are interchangeable, and so are links.
MCSymmetry == Permutations(MCWorkers) \cup Permutations(MCLinks)

=============================================================================
