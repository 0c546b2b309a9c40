------------------------------- MODULE MCRuns -------------------------------
(* Instance of Runs for TLC: the second start shares only the budget with    *)
(* the first, whose run three calls may be about.                            *)
EXTENDS Runs, TLC

CONSTANTS s1, s2

OfTheFirst == [c \in Calls |-> s1]

Symmetry == Permutations(Calls)
=============================================================================
