------------------------------ MODULE MCSettings ------------------------------
\* Instances of Settings for TLC: two threads, two models, one agent.
EXTENDS Settings, TLC

\* Threads are interchangeable.
SettingsSymmetry == Permutations(Threads)

P(f, v) == [field |-> f, value |-> v]

TwoModels == {"m1", "m2"}

\* One key has its row, the other two have none.
OneRow == {[k \in Keys |-> IF k = "node_config" THEN [NoDoc EXCEPT !.enabled = Set] ELSE None]}

\* A cap and a model in one PATCH, in the order the handler writes them; a switch that
\* is set, and one that is cleared.
SomeRequests == {<<P("cap_usd", Set), P("model", "m2")>>, <<P("enabled", Unset)>>}

=============================================================================
