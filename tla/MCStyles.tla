------------------------------- MODULE MCStyles -------------------------------
\* Instances of Styles for TLC: two threads, one contract, one style at first.
EXTENDS Styles, TLC

CONSTANTS n1, x1

\* n1 stands in the repository, the other names are new.
Seeded == <<[name |-> n1, text |-> x1]>>

\* Threads are interchangeable.
StylesSymmetry == Permutations(Threads)

===============================================================================
