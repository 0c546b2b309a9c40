-------------------------------- MODULE Runs --------------------------------
(***************************************************************************)
(* Runs as the API sees them (api/app/runs.py, routers/runs.py): a request *)
(* to start one is checked against the monthly budget, the graph executes  *)
(* on a thread of its own, and what the screen shows is derived from the   *)
(* newest checkpoint.  Decisions and replays put further threads to work   *)
(* on the same run; each continues from the checkpoint it loaded and       *)
(* writes its own next to it, so the last writer is the one that is shown. *)
(*                                                                         *)
(* A run is named after the request that starts it.  Its graph is Steps    *)
(* nodes in a line, each of which buys one model call and writes one cost  *)
(* row of price 1; node Gate waits for a decision.  What the nodes make is *)
(* the subject of Pipeline, which row of the queue a decision claims that  *)
(* of Hitl.  A decision or a replay is named, too, and is about one run.   *)
(***************************************************************************)
EXTENDS Integers, FiniteSets

CONSTANTS Starts,     \* requests to start a run
          Calls,      \* decisions and replays
          Of,         \* the run that each of them is about
          Steps,      \* number of nodes
          Gate,       \* the node that waits for a decision
          Cap,        \* GLOBAL_MONTHLY_CAP
          MaxFaults,  \* bound: failures of the database, a model or the process
          MaxMonths   \* bound: month changes

ASSUME RunsAssumption ==
    /\ Starts \cap Calls = {}
    /\ Of \in [Calls -> Starts]
    /\ Steps \in Nat \ {0} /\ Gate \in 1 .. Steps
    /\ Cap \in Nat /\ MaxFaults \in Nat /\ MaxMonths \in Nat

Workers == Starts \cup Calls
RunOf(w) == IF w \in Starts THEN w ELSE Of[w]
Nodes == 1 .. Steps

\* What a checkpoint says of the run: the nodes visited, the node to execute, and
\* what was appended to errors.
Values == [visited : SUBSET Nodes, next : 1 .. Steps + 1, errors : SUBSET {"cost", "start"}]

\* The newest checkpoint: whether there is one, its values, whether an interrupt
\* hangs on it, and the workers that would continue from exactly this one.
Newest == [exists : BOOLEAN, values : Values, waiting : BOOLEAN, base : SUBSET Workers]

\* A worker: the node it has to replay, the values it loaded or wrote last, and
\* whether it carries the answer of a decision.
Job == [node : 0 .. Steps, mem : Values, answered : BOOLEAN]

VARIABLES req,     \* start requests: idle, arrived, admitted, started, answered, refused
          late,    \* history: requests that arrived when the month was spent
          rows,    \* model_calls of this month
          ckpt,    \* the newest checkpoint of each run
          pc,      \* workers: idle, launched, checked, rewound, working, escaped, ended
          job,
          unpaid,  \* history: runs of which a node returned without its cost row
          mixed,   \* history: runs two threads worked on at once
          broken,  \* history: runs with a thread that died or left no record of its failure
          faults, months

vars == <<req, late, rows, ckpt, pc, job, unpaid, mixed, broken, faults, months>>

Fresh == [visited |-> {}, next |-> 1, errors |-> {}]
NoJob == [node |-> 0, mem |-> Fresh, answered |-> FALSE]

Init ==
    /\ req = [q \in Starts |-> "idle"]
    /\ late = {}
    /\ rows = 0
    /\ ckpt = [r \in Starts |-> [exists |-> FALSE, values |-> Fresh, waiting |-> FALSE, base |-> {}]]
    /\ pc = [w \in Workers |-> "idle"]
    /\ job = [w \in Workers |-> NoJob]
    /\ unpaid = {} /\ mixed = {} /\ broken = {}
    /\ faults = 0 /\ months = 0

Busy(w) == pc[w] \in {"launched", "rewound", "working", "escaped"}
BusyOn(r) == {w \in Workers : Busy(w) /\ RunOf(w) = r}

\* Of the spend matters only whether it has reached the cap.
Spent(n) == IF n < Cap THEN n + 1 ELSE n

Fault == faults < MaxFaults /\ faults' = faults + 1

-----------------------------------------------------------------------------
(* What the Runs screen shows.                                              *)

\* A plausible bug: a visited last node is looked at first.
DeriveStatusVisitedFirst(r) ==
    CASE ckpt[r].waiting -> "awaiting_approval"
      [] ~ ckpt[r].waiting /\ ckpt[r].values.visited = Nodes -> "complete"
      [] OTHER -> IF ckpt[r].values.errors # {} THEN "failed" ELSE "running"

DeriveStatus(r) ==
    CASE ckpt[r].waiting -> "awaiting_approval"
      [] ~ ckpt[r].waiting /\ ckpt[r].values.errors # {} -> "failed"
      [] OTHER -> IF ckpt[r].values.visited = Nodes THEN "complete" ELSE "running"

Listed(r) == ckpt[r].exists

-----------------------------------------------------------------------------
(* POST /api/runs.                                                          *)

requests == <<req, late>>
history == <<unpaid, mixed, broken>>
graph == <<ckpt, pc, job>>

\* The request comes in.  An unknown design type or an invalid brief is refused
\* before the budget is looked at.
Arrive(q) ==
    /\ req[q] = "idle"
    /\ req' = [req EXCEPT ![q] = "arrived"]
    /\ late' = IF rows >= Cap THEN late \cup {q} ELSE late
    /\ UNCHANGED <<rows, graph, history, faults, months>>

RefuseBody(q) ==
    /\ req[q] = "arrived"
    /\ req' = [req EXCEPT ![q] = "refused"]
    /\ UNCHANGED <<late, rows, graph, history, faults, months>>

\* A plausible bug: the cap itself may still be spent.
CheckBudgetInclusive(q) ==
    /\ req[q] = "arrived"
    /\ req' = [req EXCEPT ![q] = IF rows > Cap THEN "refused" ELSE "admitted"]
    /\ UNCHANGED <<late, rows, graph, history, faults, months>>

\* The sum over model_calls of this month decides.
CheckBudget(q) ==
    /\ req[q] = "arrived"
    /\ req' = [req EXCEPT ![q] = IF rows >= Cap THEN "refused" ELSE "admitted"]
    /\ UNCHANGED <<late, rows, graph, history, faults, months>>

\* SpendUnavailable: 503 rather than a guess.
SpendUnavailable(q) ==
    /\ req[q] = "arrived"
    /\ Fault
    /\ req' = [req EXCEPT ![q] = "refused"]
    /\ UNCHANGED <<late, rows, graph, history, months>>

\* The client, the flags, the node configuration and the contract are read, and
\* the thread is started.
Launch(q) ==
    /\ req[q] = "admitted"
    /\ req' = [req EXCEPT ![q] = "started"]
    /\ pc' = [pc EXCEPT ![q] = "launched"]
    /\ UNCHANGED <<late, rows, ckpt, job, history, faults, months>>

\* A missing key or an unreadable configuration is a failure of the request.
LaunchFails(q) ==
    /\ req[q] = "admitted"
    /\ Fault
    /\ req' = [req EXCEPT ![q] = "refused"]
    /\ UNCHANGED <<late, rows, graph, history, months>>

\* The audit row is written after the start; when that fails the answer is an
\* error, and the run goes on.
AuditStart(q) ==
    /\ req[q] = "started"
    /\ req' = [req EXCEPT ![q] = "answered"]
    /\ UNCHANGED <<late, rows, graph, history, faults, months>>

-----------------------------------------------------------------------------
(* The threads.                                                             *)

\* w writes a new checkpoint of its run; only w would continue from it.  With that a
\* replay is past its own node.
Writes(w, v) ==
    /\ ckpt' = [ckpt EXCEPT ![RunOf(w)] =
                  [exists |-> TRUE, values |-> v, waiting |-> FALSE, base |-> {w}]]
    /\ job' = [job EXCEPT ![w] = [job[w] EXCEPT !.node = 0, !.mem = v]]

Joins(w) == mixed' = IF BusyOn(RunOf(w)) # {} THEN mixed \cup {RunOf(w)} ELSE mixed

\* w is done; its local variables are gone.
Ends(w) == pc' = [pc EXCEPT ![w] = "ended"] /\ job' = [job EXCEPT ![w] = NoJob]

\* The new thread writes the initial state, unless the checkpointer is down.
Begin(w) ==
    /\ w \in Starts /\ pc[w] = "launched"
    /\ Writes(w, Fresh)
    /\ pc' = [pc EXCEPT ![w] = "working"]
    /\ UNCHANGED <<requests, rows, history, faults, months>>

\* A decision resumes a gate that waits.  The interrupt hangs on the checkpoint
\* until the node behind it has written another one.
Decide(w) ==
    /\ pc[w] = "idle"
    /\ ckpt[RunOf(w)].waiting
    /\ pc' = [pc EXCEPT ![w] = "working"]
    /\ job' = [job EXCEPT ![w] = [NoJob EXCEPT !.mem = ckpt[RunOf(w)].values, !.answered = TRUE]]
    /\ ckpt' = [ckpt EXCEPT ![RunOf(w)].base = @ \cup {w}]
    /\ Joins(w)
    /\ UNCHANGED <<requests, rows, unpaid, broken, faults, months>>

\* A replay reads the history: the run must exist and the node be visited.  The
\* set of replays in flight belongs to the RunService, and each request has its
\* own, so that the check of it never refuses.
CheckReplay(w, n) ==
    /\ pc[w] = "idle"
    /\ ckpt[RunOf(w)].exists /\ n \in ckpt[RunOf(w)].values.visited
    /\ pc' = [pc EXCEPT ![w] = "checked"]
    /\ job' = [job EXCEPT ![w] = [NoJob EXCEPT !.node = n]]
    /\ UNCHANGED <<requests, rows, ckpt, history, faults, months>>

\* A plausible bug: the replay is placed behind the next node instead of before it.
RewindSkips(w) ==
    LET v == ckpt[RunOf(w)].values
    IN  /\ pc[w] = "checked"
        /\ Writes(w, [v EXCEPT !.next = job[w].node + 2])
        /\ pc' = [pc EXCEPT ![w] = "rewound"]
        /\ Joins(w)
        /\ UNCHANGED <<requests, rows, unpaid, broken, faults, months>>

\* update_state writes the recorded output again, as that node.
Rewind(w) ==
    LET v == ckpt[RunOf(w)].values
    IN  /\ pc[w] = "checked"
        /\ Writes(w, [v EXCEPT !.next = job[w].node + 1])
        /\ pc' = [pc EXCEPT ![w] = "rewound"]
        /\ Joins(w)
        /\ UNCHANGED <<requests, rows, unpaid, broken, faults, months>>

\* invoke(None) goes on from whatever checkpoint is the newest by now.
Continue(w) ==
    /\ pc[w] = "rewound"
    /\ pc' = [pc EXCEPT ![w] = "working"]
    /\ job' = [job EXCEPT ![w].mem = ckpt[RunOf(w)].values]
    /\ ckpt' = [ckpt EXCEPT ![RunOf(w)].base = @ \cup {w}]
    /\ UNCHANGED <<requests, rows, history, faults, months>>

Waits(w) == job[w].mem.next = Gate /\ ~ job[w].answered

\* The node returns: its output, and the error when its cost row failed, are
\* checkpointed together.
NodeReturns(w) ==
    LET v == job[w].mem
        after == [v EXCEPT !.visited = @ \cup {v.next}, !.next = v.next + 1]
    IN  /\ pc[w] = "working" /\ v.next \in Nodes /\ ~ Waits(w)
        /\ \/ /\ rows' = Spent(rows)
              /\ Writes(w, after)
              /\ UNCHANGED <<unpaid, faults>>
           \/ /\ Fault
              /\ Writes(w, [after EXCEPT !.errors = @ \cup {"cost"}])
              /\ unpaid' = unpaid \cup {RunOf(w)}
              /\ UNCHANGED rows
        /\ UNCHANGED <<requests, pc, mixed, broken, months>>

\* The node interrupts.  A quality check has bought its call before; when the row
\* of that call fails, the error is lost with the output (it is bought again).
\* The interrupt is shown when nobody wrote another checkpoint in the meantime.
NodePauses(w) ==
    LET r == RunOf(w)
    IN  /\ pc[w] = "working" /\ Waits(w)
        /\ rows' \in {rows, Spent(rows)}
        /\ ckpt' = [ckpt EXCEPT ![r].waiting = @ \/ w \in ckpt[r].base]
        /\ Ends(w)
        /\ UNCHANGED <<requests, history, faults, months>>

RunsOut(w) ==
    /\ pc[w] = "working" /\ job[w].mem.next > Steps
    /\ Ends(w)
    /\ UNCHANGED <<requests, rows, ckpt, history, faults, months>>

\* An exception leaves the graph, or the checkpointer is down.  Only the thread
\* of the start goes on to record it; a decision and a replay answer with it.
Raises(w) ==
    /\ pc[w] \in {"launched", "rewound", "working"}
    /\ Fault
    /\ \/ /\ w \in Starts
          /\ pc' = [pc EXCEPT ![w] = "escaped"]
          /\ UNCHANGED <<job, broken>>
       \/ /\ w \in Calls
          /\ Ends(w)
          /\ broken' = broken \cup {RunOf(w)}
    /\ UNCHANGED <<requests, rows, ckpt, unpaid, mixed, months>>

\* A plausible bug: the failure is printed and the thread ends.
RecordFailurePrintsOnly(w) ==
    /\ pc[w] = "escaped"
    /\ Ends(w)
    /\ UNCHANGED <<requests, rows, ckpt, history, faults, months>>

RecordFailure(w) ==
    LET r == RunOf(w)
        v == [ckpt[r].values EXCEPT !.errors = @ \cup {"start"}]
    IN  /\ pc[w] = "escaped"
        /\ ckpt' = [ckpt EXCEPT ![r] = [exists |-> TRUE, values |-> v, waiting |-> FALSE, base |-> {}]]
        /\ Ends(w)
        /\ UNCHANGED <<requests, rows, history, faults, months>>

\* What made the thread fail keeps the failure from being recorded, too.
RecordIsLost(w) ==
    /\ pc[w] = "escaped"
    /\ Ends(w)
    /\ broken' = broken \cup {RunOf(w)}
    /\ UNCHANGED <<requests, rows, ckpt, unpaid, mixed, faults, months>>

-----------------------------------------------------------------------------
(* The process and the calendar.                                            *)

\* The process dies with its threads; checkpoints and rows stay.
Crash ==
    /\ Fault
    /\ \E w \in Workers : Busy(w)
    /\ broken' = broken \cup {r \in Starts : BusyOn(r) # {}}
    /\ pc' = [w \in Workers |-> IF pc[w] = "idle" THEN "idle" ELSE "ended"]
    /\ job' = [w \in Workers |-> NoJob]
    /\ req' = [q \in Starts |-> IF req[q] \in {"arrived", "admitted"} THEN "refused"
                                ELSE IF req[q] = "started" THEN "answered" ELSE req[q]]
    /\ UNCHANGED <<late, rows, ckpt, unpaid, mixed, months>>

\* A new month begins with nothing spent.
MonthTurns ==
    /\ months < MaxMonths
    /\ months' = months + 1
    /\ rows' = 0
    /\ late' = {}
    /\ UNCHANGED <<req, graph, history, faults>>

StartRun(q) ==
    \/ Arrive(q) \/ RefuseBody(q) \/ CheckBudget(q) \/ SpendUnavailable(q)
    \/ Launch(q) \/ LaunchFails(q) \/ AuditStart(q)

Work(w) ==
    \/ Begin(w) \/ Rewind(w) \/ Continue(w) \/ NodeReturns(w) \/ NodePauses(w)
    \/ RunsOut(w) \/ Raises(w) \/ RecordFailure(w) \/ RecordIsLost(w)

Next ==
    \/ \E q \in Starts : StartRun(q)
    \/ \E w \in Calls : Decide(w) \/ \E n \in Nodes : CheckReplay(w, n)
    \/ \E w \in Workers : Work(w)
    \/ Crash
    \/ MonthTurns

Spec == Init /\ [][Next]_vars

-----------------------------------------------------------------------------
(* Properties.                                                              *)

\* Type invariant.
TypeOK ==
    /\ req \in [Starts -> {"idle", "arrived", "admitted", "started", "answered", "refused"}]
    /\ late \subseteq Starts
    /\ rows \in 0 .. Cap
    /\ ckpt \in [Starts -> Newest]
    /\ pc \in [Workers -> {"idle", "launched", "checked", "rewound", "working", "escaped", "ended"}]
    /\ job \in [Workers -> Job]
    /\ unpaid \subseteq Starts /\ mixed \subseteq Starts /\ broken \subseteq Starts
    /\ faults \in 0 .. MaxFaults
    /\ months \in 0 .. MaxMonths

\* "Silently starting a run when the budget cap is already exceeded" does not
\* happen: however long its checks take, and whatever other runs spend meanwhile,
\* a request that arrived in a month already spent starts nothing in that month.
NoStartPastTheCap == \A q \in late : req[q] \notin {"admitted", "started"}

\* A replay was placed behind nodes that the newest checkpoint does not have: it was
\* checked against a newer one, which a thread that had loaded an older one replaced.
Gap(r) == ~ (1 .. ckpt[r].values.next - 1 \subseteq ckpt[r].values.visited)

\* A run that nobody works on is shown as waiting, failed or complete, never as "a
\* zombie running row": whatever threads overlapped on it, and whichever wrote
\* last.  Excepted are runs whose thread died with the process, whose failure could
\* not be recorded, or whose decision or replay raised (it answers with the error),
\* and the run whose last replay jumped over nodes that are not visited any more,
\* which three calls have to overlap for.
SettledRunIsNotRunning ==
    \A r \in Starts :
        Listed(r) /\ BusyOn(r) = {} /\ r \notin broken /\ ~ Gap(r)
          => DeriveStatus(r) # "running"

\* A model call whose node returned without entering it in the budget is not hidden
\* behind a green row: the run is never shown as complete, also after replays, failures and
\* decisions, as long as one thread at a time worked on it.
UnloggedSpendIsShown ==
    \A r \in unpaid \ mixed : Listed(r) => DeriveStatus(r) # "complete"

=============================================================================
