------------------------------ MODULE RunOrder ------------------------------
(***************************************************************************)
(* What the pipeline promises about the order of one run: the nodes run in *)
(* the locked order, the only way back is from the quality check to the    *)
(* renderer, and that at most MaxRegen times before the run goes on.  A    *)
(* node may wait for a reviewer or fail; an operator may send a run that   *)
(* is not moving back to any place it has already passed.                  *)
(***************************************************************************)
EXTENDS Integers

CONSTANTS Last,      \* number of nodes
          Render,    \* place of the renderer
          Check,     \* place of the quality check, between Render and Last
          MaxRegen   \* regenerations between two replays

VARIABLES place,   \* the node to run next; Last + 1 is the end
          mode,    \* moving, waiting for a reviewer, stopped by a failure, at the end
          done,    \* nodes that have run
          regens   \* regenerations since the start or the last replay

orderVars == <<place, mode, done, regens>>

OrderTypeOK ==
    /\ place \in 1 .. Last + 1
    /\ mode \in {"ready", "paused", "raised", "ended"}
    /\ done \subseteq 1 .. Last
    /\ regens \in 0 .. MaxRegen

OrderInit ==
    /\ place = 1 /\ mode = "ready"
    /\ done = {} /\ regens = 0

Arrive(q) ==
    /\ place' = q
    /\ mode' = IF q = Last + 1 THEN "ended" ELSE "ready"

Advance ==
    /\ mode = "ready"
    /\ Arrive(place + 1)
    /\ done' = done \cup {place}
    /\ UNCHANGED regens

Regenerate ==
    /\ mode = "ready" /\ place = Check
    /\ regens < MaxRegen
    /\ Arrive(Render)
    /\ done' = done \cup {place}
    /\ regens' = regens + 1

\* The node waits for a reviewer, or fails; a node that had waited waits again.
Halt ==
    /\ mode = "ready"
    /\ mode' \in {"paused", "raised"}
    /\ UNCHANGED <<place, done, regens>>

Continue ==
    /\ mode = "paused"
    /\ mode' = "ready"
    /\ UNCHANGED <<place, done, regens>>

\* The run goes on behind a node that has run; behind the quality check, that
\* may be the regeneration its verdict asked for.
SendBack ==
    /\ mode # "ready"
    /\ \E k \in done : Arrive(k + 1) \/ (k = Check /\ Arrive(Render))
    /\ regens' = 0
    /\ UNCHANGED done

OrderNext == Advance \/ Regenerate \/ Halt \/ Continue \/ SendBack

OrderSpec == OrderInit /\ [][OrderNext]_orderVars

=============================================================================
