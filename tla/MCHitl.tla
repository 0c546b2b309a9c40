------------------------------- MODULE MCHitl -------------------------------
(***************************************************************************)
(* Instances of Hitl for TLC: one run with two gates, two or three API     *)
(* threads.  Workers are interchangeable.                                  *)
(***************************************************************************)
EXTENDS Hitl, TLC

WorkerSymmetry == Permutations(Workers)

\* Reviewers send one of two opposite decisions; "regenerate" takes the same
\* path as "reject".
ApproveReject == {"approve", "reject"}
ApproveOnly == {"approve"}

=============================================================================
