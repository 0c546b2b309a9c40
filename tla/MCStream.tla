------------------------------ MODULE MCStream ------------------------------
(* Instance of Stream for TLC: the global stream and the log of one run, a  *)
(* thread that logs for the run and one that publishes decisions.           *)
EXTENDS Stream

TwoThreads == {"logger", "decider"}
TwoClients == {"global", "log"}

TwoTopics == [logger |-> "r1", decider |-> "delta"]
\* A connection falls behind on two rows, and a decision comes before, between or
\* behind them: one queued behind another, one refused, one that overfills the queue.
FewEvents == [logger |-> 2, decider |-> 1]

TwoViews == [global |-> "all", log |-> "r1"]
=============================================================================
