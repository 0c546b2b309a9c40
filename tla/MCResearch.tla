------------------------------ MODULE MCResearch ------------------------------
\* Instances of Research for TLC: one run, two threads, two collections.
EXTENDS Research, TLC

\* Threads are interchangeable, and so are collections.
ResearchSymmetry == Permutations(Workers) \cup Permutations(Slugs)

ApproveReject == {"approve", "reject"}

=============================================================================
