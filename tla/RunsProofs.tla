------------------------------ MODULE RunsProofs ------------------------------
(***************************************************************************)
(* Proofs about Runs, for any number of runs, calls, nodes, faults and     *)
(* months and any cap.  The cap is checked once, some time after a request *)
(* came in: it holds because within a month the spend never shrinks, so    *)
(* that a request that came too late is still too late when it is checked. *)
(* What the screen shows of a run at rest follows from who works on it: as *)
(* long as it neither waits nor failed nor visited all, one of its threads *)
(* carries the newest checkpoint on.                                       *)
(*                                                                         *)
(* The second half is about Stream, which carries the log rows of runs and *)
(* the decisions to the screens, for any number of connections, publishing *)
(* threads and events and any queue limit.                                 *)
(***************************************************************************)
EXTENDS Runs, Stream, TLAPS, FiniteSetTheorems

\* A request came in late in this month: its spend has reached the cap.
LateIsSpent == late # {} => rows >= Cap

IndInv == TypeOK /\ LateIsSpent /\ NoStartPastTheCap

-----------------------------------------------------------------------------
(* Types.                                                                  *)

LEMMA WorkerFacts ==
    ASSUME TypeOK, NEW w \in Workers
    PROVE  /\ RunOf(w) \in Starts /\ job[w] \in Job /\ job[w].mem \in Values
           /\ job[w].mem.next \in 1 .. Steps + 1 /\ job[w].mem.visited \subseteq Nodes
           /\ job[w].node \in 0 .. Steps
           /\ ckpt[RunOf(w)] \in Newest /\ ckpt[RunOf(w)].values \in Values
  <1>1. RunOf(w) \in Starts
    BY RunsAssumption DEF RunOf, Workers
  <1> QED BY <1>1 DEF TypeOK, Job, Newest, Values

\* Before and after its work a worker holds nothing.
LEMMA NoJobType == Fresh \in Values /\ NoJob \in Job
  <1>1. Fresh \in Values
    BY RunsAssumption DEF Fresh, Values
  <1> QED BY <1>1, RunsAssumption DEF NoJob, Job

LEMMA SpentType ==
    ASSUME rows \in 0 .. Cap
    PROVE  Spent(rows) \in 0 .. Cap /\ Spent(rows) >= rows
  BY RunsAssumption DEF Spent

\* A worker writes its next checkpoint.
LEMMA WritesType ==
    ASSUME TypeOK, NEW w \in Workers, NEW v \in Values, Writes(w, v)
    PROVE  ckpt' \in [Starts -> Newest] /\ job' \in [Workers -> Job]
  <1>1. ckpt \in [Starts -> Newest] /\ job \in [Workers -> Job] /\ job[w] \in Job
    BY DEF TypeOK
  <1>2. [exists |-> TRUE, values |-> v, waiting |-> FALSE, base |-> {w}] \in Newest
    BY DEF Newest
  <1>0. 0 \in 0 .. Steps
    BY RunsAssumption
  <1>3. [job[w] EXCEPT !.node = 0, !.mem = v] \in Job
    BY <1>0, <1>1 DEF Job
  <1>4. RunOf(w) \in Starts
    BY WorkerFacts
  <1> QED BY <1>1, <1>2, <1>3, <1>4 DEF Writes

\* A worker joins those that continue from the newest checkpoint.
LEMMA JoinsBase ==
    ASSUME TypeOK, NEW w \in Workers, NEW r \in Starts,
           ckpt' = [ckpt EXCEPT ![r].base = @ \cup {w}]
    PROVE  ckpt' \in [Starts -> Newest]
  <1>1. ckpt \in [Starts -> Newest] /\ ckpt[r] \in Newest
    BY DEF TypeOK
  <1>2. [ckpt[r] EXCEPT !.base = @ \cup {w}] \in Newest
    BY <1>1 DEF Newest
  <1> QED BY <1>1, <1>2

PcType == pc \in [Workers -> {"idle", "launched", "checked", "rewound", "working", "escaped", "ended"}]
HistoryType == unpaid \subseteq Starts /\ mixed \subseteq Starts /\ broken \subseteq Starts

\* A fault stays within its bound.
LEMMA FaultType ==
    ASSUME faults \in 0 .. MaxFaults, Fault
    PROVE  faults' \in 0 .. MaxFaults
  BY RunsAssumption DEF Fault

\* The steps of one thread.
LEMMA WorkType ==
    ASSUME TypeOK, NEW w \in Workers, Work(w)
    PROVE  /\ ckpt' \in [Starts -> Newest] /\ job' \in [Workers -> Job]
           /\ PcType' /\ HistoryType' /\ rows' \in 0 .. Cap /\ faults' \in 0 .. MaxFaults
           /\ UNCHANGED <<req, late, months>> /\ rows' >= rows
  <1>0. /\ ckpt \in [Starts -> Newest] /\ job \in [Workers -> Job]
        /\ PcType /\ HistoryType /\ rows \in 0 .. Cap /\ faults \in 0 .. MaxFaults
        /\ RunOf(w) \in Starts /\ job[w].mem \in Values
        /\ ckpt[RunOf(w)].values \in Values
    BY WorkerFacts DEF TypeOK, PcType, HistoryType
  <1>1. CASE Begin(w)
    <2>1. Fresh \in Values /\ Writes(w, Fresh)
      BY <1>1, NoJobType DEF Begin
    <2>2. ckpt' \in [Starts -> Newest] /\ job' \in [Workers -> Job]
      BY <2>1, WritesType
    <2>3. /\ pc' = [pc EXCEPT ![w] = "working"]
          /\ UNCHANGED <<req, late, rows, unpaid, mixed, broken, faults, months>>
      BY <1>1 DEF Begin, requests, history
    <2> QED BY <1>0, <2>2, <2>3 DEF PcType, HistoryType
  <1>2. CASE Rewind(w)
    <2> DEFINE v == [ckpt[RunOf(w)].values EXCEPT !.next = job[w].node + 1]
    <2>1. job[w].node + 1 \in 1 .. Steps + 1
      BY WorkerFacts, RunsAssumption
    <2>2. v \in Values /\ Writes(w, v)
      BY <1>0, <1>2, <2>1 DEF Values, Rewind
    <2>3. ckpt' \in [Starts -> Newest] /\ job' \in [Workers -> Job]
      BY <2>2, WritesType
    <2>4. mixed' \subseteq Starts
      BY <1>0, <1>2 DEF Rewind, Joins, HistoryType
    <2>5. /\ pc' = [pc EXCEPT ![w] = "rewound"]
          /\ UNCHANGED <<req, late, rows, unpaid, broken, faults, months>>
      BY <1>2 DEF Rewind, requests
    <2> QED BY <1>0, <2>3, <2>4, <2>5 DEF PcType, HistoryType
  <1>3. CASE Continue(w)
    <2>1. ckpt' \in [Starts -> Newest]
      BY <1>0, <1>3, JoinsBase DEF Continue
    <2>2. [job[w] EXCEPT !.mem = ckpt[RunOf(w)].values] \in Job
      BY <1>0 DEF Job
    <2>3. job' \in [Workers -> Job]
      BY <1>0, <1>3, <2>2 DEF Continue
    <2> QED BY <1>0, <1>3, <2>1, <2>3 DEF Continue, requests, history, PcType, HistoryType
  <1>4. CASE NodeReturns(w)
    <2> DEFINE m == job[w].mem
               after == [m EXCEPT !.visited = @ \cup {m.next}, !.next = m.next + 1]
               lost == [after EXCEPT !.errors = @ \cup {"cost"}]
    <2>1. m.next \in Nodes /\ m.visited \subseteq Nodes /\ m.next + 1 \in 1 .. Steps + 1
      BY <1>4, WorkerFacts, RunsAssumption DEF NodeReturns, Nodes
    <2>2. after \in Values
      BY <1>0, <2>1 DEF Values
    <2>3. lost \in Values
      BY <2>2 DEF Values
    <2>4. ckpt' \in [Starts -> Newest] /\ job' \in [Workers -> Job]
      BY <1>4, <2>2, <2>3, WritesType DEF NodeReturns
    <2>5. rows' \in 0 .. Cap /\ rows' >= rows /\ unpaid' \subseteq Starts
      BY <1>0, <1>4, SpentType, RunsAssumption DEF NodeReturns, HistoryType
    <2>6. faults' \in 0 .. MaxFaults
      BY <1>0, <1>4, FaultType DEF NodeReturns
    <2>7. UNCHANGED <<req, late, pc, mixed, broken, months>>
      BY <1>4 DEF NodeReturns, requests
    <2> QED BY <1>0, <2>4, <2>5, <2>6, <2>7 DEF PcType, HistoryType
  <1>5. CASE NodePauses(w)
    <2> DEFINE r == RunOf(w)
    <2>1. ckpt[r] \in Newest /\ ckpt[r].waiting \in BOOLEAN
      BY <1>0 DEF Newest
    <2>2. (ckpt[r].waiting \/ w \in ckpt[r].base) \in BOOLEAN
      OBVIOUS
    <2>3. [ckpt[r] EXCEPT !.waiting = @ \/ w \in ckpt[r].base] \in Newest
      BY <2>1, <2>2 DEF Newest
    <2>4. ckpt' \in [Starts -> Newest]
      BY <1>0, <1>5, <2>3 DEF NodePauses
    <2>5. rows' \in 0 .. Cap /\ rows' >= rows
      BY <1>0, <1>5, SpentType, RunsAssumption DEF NodePauses
    <2>6. /\ pc' = [pc EXCEPT ![w] = "ended"]
          /\ job' = [job EXCEPT ![w] = NoJob]
          /\ UNCHANGED <<req, late, unpaid, mixed, broken, faults, months>>
      BY <1>5 DEF NodePauses, Ends, requests, history
    <2> QED BY <1>0, <2>4, <2>5, <2>6, NoJobType DEF PcType, HistoryType
  <1>6. CASE RunsOut(w)
    <2>1. /\ pc' = [pc EXCEPT ![w] = "ended"] /\ job' = [job EXCEPT ![w] = NoJob]
          /\ UNCHANGED <<req, late, rows, ckpt, unpaid, mixed, broken, faults, months>>
      BY <1>6 DEF RunsOut, Ends, requests, history
    <2> QED BY <1>0, <2>1, NoJobType DEF PcType, HistoryType
  <1>7. CASE Raises(w)
    <2>1. faults' \in 0 .. MaxFaults
      BY <1>0, <1>7, FaultType DEF Raises
    <2>2. broken' \subseteq Starts
      BY <1>0, <1>7 DEF Raises, HistoryType
    <2>3. PcType' /\ job' \in [Workers -> Job]
      BY <1>0, <1>7, NoJobType DEF Raises, Ends, PcType
    <2> QED BY <1>0, <1>7, <2>1, <2>2, <2>3 DEF Raises, requests, HistoryType
  <1>8. CASE RecordFailure(w)
    <2> DEFINE v == [ckpt[RunOf(w)].values EXCEPT !.errors = @ \cup {"start"}]
               c == [exists |-> TRUE, values |-> v, waiting |-> FALSE, base |-> {}]
    <2>1. v \in Values
      BY <1>0 DEF Values
    <2>2. c \in Newest
      BY <2>1 DEF Newest
    <2>3. ckpt' = [ckpt EXCEPT ![RunOf(w)] = c]
      BY <1>0, <1>8 DEF RecordFailure
    <2>4. /\ pc' = [pc EXCEPT ![w] = "ended"] /\ job' = [job EXCEPT ![w] = NoJob]
          /\ UNCHANGED <<req, late, rows, unpaid, mixed, broken, faults, months>>
      BY <1>8 DEF RecordFailure, Ends, requests, history
    <2> HIDE DEF c
    <2> QED BY <1>0, <2>2, <2>3, <2>4, NoJobType DEF PcType, HistoryType
  <1>9. CASE RecordIsLost(w)
    <2>1. broken' \subseteq Starts
      BY <1>0, <1>9 DEF RecordIsLost, HistoryType
    <2>2. /\ pc' = [pc EXCEPT ![w] = "ended"] /\ job' = [job EXCEPT ![w] = NoJob]
          /\ UNCHANGED <<req, late, rows, ckpt, unpaid, mixed, faults, months>>
      BY <1>9 DEF RecordIsLost, Ends, requests
    <2> QED BY <1>0, <2>1, <2>2, NoJobType DEF PcType, HistoryType
  <1> QED BY <1>1, <1>2, <1>3, <1>4, <1>5, <1>6, <1>7, <1>8, <1>9 DEF Work

-----------------------------------------------------------------------------
(* The invariant.                                                          *)

LEMMA InitOK == Init => IndInv
  <1> SUFFICES ASSUME Init PROVE IndInv
    OBVIOUS
  <1>1. ckpt \in [Starts -> Newest]
    <2>1. [exists |-> FALSE, values |-> Fresh, waiting |-> FALSE, base |-> {}] \in Newest
      BY NoJobType DEF Newest
    <2> QED BY <2>1 DEF Init
  <1>2. job \in [Workers -> Job]
    BY NoJobType DEF Init
  <1>3. /\ req \in [Starts -> {"idle"}] /\ pc \in [Workers -> {"idle"}]
        /\ late = {} /\ rows = 0 /\ unpaid = {} /\ mixed = {} /\ broken = {}
        /\ faults = 0 /\ months = 0
    BY DEF Init
  <1>4. TypeOK
    BY <1>1, <1>2, <1>3, RunsAssumption DEF TypeOK
  <1> QED BY <1>3, <1>4 DEF IndInv, LateIsSpent, NoStartPastTheCap

\* What a step of the threads, of the calls or of the process leaves to a request.
LEMMA RequestsStay ==
    ASSUME LateIsSpent, NoStartPastTheCap, rows \in 0 .. Cap, rows' \in 0 .. Cap,
           req' = req, late' = late, rows' >= rows
    PROVE  LateIsSpent' /\ NoStartPastTheCap'
  BY RunsAssumption DEF LateIsSpent, NoStartPastTheCap

\* The steps of a request: what came in late finds the month spent.
LEMMA StartRunOK ==
    ASSUME IndInv, NEW q \in Starts, StartRun(q)
    PROVE  IndInv'
  <1> DEFINE Places == {"idle", "arrived", "admitted", "started", "answered", "refused"}
  <1>0. /\ TypeOK /\ LateIsSpent /\ NoStartPastTheCap /\ rows \in 0 .. Cap
        /\ req \in [Starts -> Places] /\ late \subseteq Starts
    BY DEF IndInv, TypeOK
  <1>1. /\ UNCHANGED <<rows, ckpt, job, unpaid, mixed, broken, months>>
        /\ faults' \in 0 .. MaxFaults
    <2>1. faults' = faults \/ Fault
      BY DEF StartRun, Arrive, RefuseBody, CheckBudget, SpendUnavailable, Launch, LaunchFails,
             AuditStart
    <2>2. UNCHANGED <<rows, ckpt, job, unpaid, mixed, broken, months>>
      BY DEF StartRun, Arrive, RefuseBody, CheckBudget, SpendUnavailable, Launch, LaunchFails,
             AuditStart, graph, history
    <2> QED BY <1>0, <2>1, <2>2, FaultType DEF TypeOK
  <1>2. PcType'
    <2>1. pc' = pc \/ pc' = [pc EXCEPT ![q] = "launched"]
      BY DEF StartRun, Arrive, RefuseBody, CheckBudget, SpendUnavailable, Launch, LaunchFails,
             AuditStart, graph
    <2> QED BY <1>0, <2>1 DEF TypeOK, PcType
  <1>3. /\ late' \subseteq Starts
        /\ late' = late \/ (late' = late \cup {q} /\ rows >= Cap /\ req[q] = "idle")
    BY <1>0 DEF StartRun, Arrive, RefuseBody, CheckBudget, SpendUnavailable, Launch, LaunchFails,
                AuditStart
  <1>4. PICK to \in Places : req' = [req EXCEPT ![q] = to]
    BY DEF StartRun, Arrive, RefuseBody, CheckBudget, SpendUnavailable, Launch, LaunchFails,
           AuditStart
  <1>5. q \in late' => to \notin {"admitted", "started"}
    <2>1. CASE Arrive(q)
      <3>1. to = "arrived"
        BY <1>0, <1>4, <2>1 DEF Arrive
      <3> QED BY <3>1
    <2>2. CASE CheckBudget(q)
      <3>1. late' = late /\ to = IF rows >= Cap THEN "refused" ELSE "admitted"
        BY <1>0, <1>4, <2>2 DEF CheckBudget
      <3>2. q \in late => rows >= Cap
        BY <1>0 DEF LateIsSpent
      <3> QED BY <3>1, <3>2
    <2>3. CASE Launch(q)
      <3>1. late' = late /\ req[q] = "admitted"
        BY <2>3 DEF Launch
      <3> QED BY <1>0, <3>1 DEF NoStartPastTheCap
    <2>4. CASE RefuseBody(q) \/ SpendUnavailable(q) \/ LaunchFails(q) \/ AuditStart(q)
      <3>1. to \in {"refused", "answered"}
        BY <1>0, <1>4, <2>4 DEF RefuseBody, SpendUnavailable, LaunchFails, AuditStart
      <3> QED BY <3>1
    <2> QED BY <2>1, <2>2, <2>3, <2>4 DEF StartRun
  <1>6. TypeOK'
    BY <1>0, <1>1, <1>2, <1>3, <1>4 DEF TypeOK, PcType
  <1>7. LateIsSpent'
    BY <1>0, <1>1, <1>3 DEF LateIsSpent
  <1>8. NoStartPastTheCap'
    BY <1>0, <1>3, <1>4, <1>5 DEF NoStartPastTheCap
  <1> QED BY <1>6, <1>7, <1>8 DEF IndInv

LEMMA WorkOK ==
    ASSUME IndInv, NEW w \in Workers, Work(w)
    PROVE  IndInv'
  <1>0. TypeOK /\ LateIsSpent /\ NoStartPastTheCap /\ rows \in 0 .. Cap
    BY DEF IndInv, TypeOK
  <1>1. /\ ckpt' \in [Starts -> Newest] /\ job' \in [Workers -> Job]
        /\ PcType' /\ HistoryType' /\ rows' \in 0 .. Cap /\ faults' \in 0 .. MaxFaults
        /\ UNCHANGED <<req, late, months>> /\ rows' >= rows
    BY <1>0, WorkType
  <1>2. TypeOK'
    BY <1>0, <1>1 DEF TypeOK, PcType, HistoryType
  <1>3. LateIsSpent' /\ NoStartPastTheCap'
    BY <1>0, <1>1, RequestsStay
  <1> QED BY <1>2, <1>3 DEF IndInv

\* A decision or a replay begins.
LEMMA CallOK ==
    ASSUME IndInv, NEW w \in Calls,
           Decide(w) \/ \E n \in Nodes : CheckReplay(w, n)
    PROVE  IndInv'
  <1>0. /\ TypeOK /\ LateIsSpent /\ NoStartPastTheCap /\ rows \in 0 .. Cap /\ w \in Workers
        /\ PcType /\ ckpt \in [Starts -> Newest] /\ job \in [Workers -> Job]
    BY DEF IndInv, TypeOK, Workers, PcType
  <1>r. RunOf(w) \in Starts /\ ckpt[RunOf(w)].values \in Values
    BY <1>0, WorkerFacts
  <1>1. UNCHANGED <<req, late, rows, unpaid, broken, faults, months>>
    BY DEF Decide, CheckReplay, requests, history
  <1>2. ckpt' \in [Starts -> Newest]
    BY <1>0, <1>r, JoinsBase DEF Decide, CheckReplay
  <1>3. job' \in [Workers -> Job]
    <2>1. CASE Decide(w)
      <3>1. [NoJob EXCEPT !.mem = ckpt[RunOf(w)].values, !.answered = TRUE] \in Job
        BY <1>r, NoJobType DEF Job
      <3> QED BY <1>0, <2>1, <3>1 DEF Decide
    <2>2. ASSUME NEW n \in Nodes, CheckReplay(w, n)
          PROVE  job' \in [Workers -> Job]
      <3>1. [NoJob EXCEPT !.node = n] \in Job
        BY NoJobType, RunsAssumption DEF Job, Nodes
      <3> QED BY <1>0, <2>2, <3>1 DEF CheckReplay
    <2> QED BY <2>1, <2>2
  <1>4. PcType'
    BY <1>0 DEF Decide, CheckReplay, PcType
  <1>5. mixed' \subseteq Starts
    BY <1>0, <1>r DEF Decide, CheckReplay, Joins, history, TypeOK
  <1>6. TypeOK'
    BY <1>0, <1>1, <1>2, <1>3, <1>4, <1>5 DEF TypeOK, PcType
  <1>7. LateIsSpent' /\ NoStartPastTheCap'
    BY <1>0, <1>1, RequestsStay
  <1> QED BY <1>6, <1>7 DEF IndInv

LEMMA CrashOK ==
    ASSUME IndInv, Crash
    PROVE  IndInv'
  <1>0. TypeOK /\ LateIsSpent /\ NoStartPastTheCap
    BY DEF IndInv
  <1>1. /\ UNCHANGED <<late, rows, ckpt, unpaid, mixed, months>>
        /\ faults' \in 0 .. MaxFaults /\ job' \in [Workers -> Job]
    BY <1>0, FaultType, NoJobType DEF Crash, TypeOK
  <1>2. broken' \subseteq Starts
    BY <1>0 DEF Crash, TypeOK
  <1>3. PcType'
    BY <1>0 DEF Crash, TypeOK, PcType
  <1>4. /\ req' \in [Starts -> {"idle", "arrived", "admitted", "started", "answered", "refused"}]
        /\ \A q \in Starts : req'[q] \notin {"admitted", "started"}
    BY <1>0 DEF Crash, TypeOK
  <1>5. TypeOK'
    BY <1>0, <1>1, <1>2, <1>3, <1>4 DEF TypeOK, PcType
  <1>6. LateIsSpent' /\ NoStartPastTheCap'
    BY <1>0, <1>1, <1>4 DEF LateIsSpent, NoStartPastTheCap, TypeOK
  <1> QED BY <1>5, <1>6 DEF IndInv

\* In the new month nobody came in late yet.
LEMMA MonthOK ==
    ASSUME IndInv, MonthTurns
    PROVE  IndInv'
  <1>0. TypeOK
    BY DEF IndInv
  <1>1. /\ months' \in 0 .. MaxMonths /\ rows' = 0 /\ late' = {}
        /\ UNCHANGED <<req, ckpt, pc, job, unpaid, mixed, broken, faults>>
    BY <1>0, RunsAssumption DEF MonthTurns, TypeOK, graph, history
  <1>2. rows' \in 0 .. Cap
    BY <1>1, RunsAssumption
  <1>3. TypeOK'
    BY <1>0, <1>1, <1>2 DEF TypeOK
  <1> QED BY <1>1, <1>3 DEF IndInv, LateIsSpent, NoStartPastTheCap

LEMMA StepOK == IndInv /\ [Next]_vars => IndInv'
  <1> SUFFICES ASSUME IndInv, [Next]_vars PROVE IndInv'
    OBVIOUS
  <1>1. CASE \E q \in Starts : StartRun(q)
    BY <1>1, StartRunOK
  <1>2. CASE \E w \in Calls : Decide(w) \/ \E n \in Nodes : CheckReplay(w, n)
    BY <1>2, CallOK
  <1>3. CASE \E w \in Workers : Work(w)
    BY <1>3, WorkOK
  <1>4. CASE Crash
    BY <1>4, CrashOK
  <1>5. CASE MonthTurns
    BY <1>5, MonthOK
  <1>6. CASE UNCHANGED vars
    BY <1>6 DEF vars, IndInv, TypeOK, LateIsSpent, NoStartPastTheCap
  <1> QED BY <1>1, <1>2, <1>3, <1>4, <1>5, <1>6 DEF Next

\* Types of requests, checkpoints, threads and spend, for any instance.
THEOREM TypeCorrect == Spec => []TypeOK
  <1>1. IndInv => TypeOK
    BY DEF IndInv
  <1> QED BY <1>1, InitOK, StepOK, PTL DEF Spec

-----------------------------------------------------------------------------
(* Who works on a run.                                                     *)

\* w has the newest checkpoint of its run in hand, or its failure to record.
Carries(w) ==
    \/ pc[w] = "escaped"
    \/ pc[w] = "rewound" /\ w \in ckpt[RunOf(w)].base
    \/ /\ pc[w] = "working" /\ w \in ckpt[RunOf(w)].base
       /\ job[w].mem = ckpt[RunOf(w)].values

\* What a run at rest shows, or else somebody carries it on.
Alive(r) ==
    ckpt[r].exists /\ r \notin broken
      => \/ ckpt[r].waiting \/ ckpt[r].values.errors # {}
         \/ ckpt[r].values.visited = Nodes \/ Gap(r)
         \/ \E w \in Workers : RunOf(w) = r /\ Carries(w)

Before == {"idle", "arrived", "admitted"}

\* Nobody works on a run before its first checkpoint but the thread that started it.
Born(r) ==
    /\ \A w \in Workers : RunOf(w) = r /\ pc[w] \in {"launched", "escaped"} => w \in Starts
    /\ req[r] \in Before => pc[r] = "idle" /\ ~ ckpt[r].exists
    /\ pc[r] = "launched" => ~ ckpt[r].exists
    /\ ~ ckpt[r].exists
         => /\ ~ ckpt[r].waiting /\ r \notin unpaid
            /\ \A w \in Workers : RunOf(w) = r => pc[w] \notin {"checked", "rewound", "working"}

Alone(r) == r \notin mixed => \A w, x \in BusyOn(r) : w = x

\* The lost cost row is in the newest checkpoint and in everything written from it.
Booked(r) ==
    r \in unpaid /\ r \notin mixed
      => /\ "cost" \in ckpt[r].values.errors
         /\ \A w \in Workers : RunOf(w) = r /\ pc[w] = "working" => "cost" \in job[w].mem.errors

RunOK(r) == Alive(r) /\ Born(r) /\ Alone(r) /\ Booked(r)
AllRunsOK == \A r \in Starts : RunOK(r)

\* A step that is about other runs.
Untouched(r) ==
    /\ ckpt'[r] = ckpt[r]
    /\ req'[r] \in Before => req[r] \in Before
    /\ \A w \in Workers : RunOf(w) = r => pc'[w] = pc[w] /\ job'[w] = job[w]
    /\ r \in unpaid' <=> r \in unpaid
    /\ r \in mixed' <=> r \in mixed
    /\ r \in broken' <=> r \in broken

LEMMA OwnRun == \A r \in Starts : r \in Workers /\ RunOf(r) = r
  BY DEF RunOf, Workers

LEMMA Frame ==
    ASSUME NEW r \in Starts, RunOK(r), Untouched(r)
    PROVE  RunOK(r)'
  <1>1. Alive(r)'
    <2>1. \A w \in Workers : RunOf(w) = r /\ Carries(w) => Carries(w)'
      BY DEF Untouched, Carries
    <2> QED BY <2>1 DEF Untouched, RunOK, Alive, Gap
  <1>2. Born(r)'
    BY OwnRun DEF Untouched, RunOK, Born
  <1>3. Alone(r)'
    BY DEF Untouched, RunOK, Alone, BusyOn, Busy
  <1>4. Booked(r)'
    BY DEF Untouched, RunOK, Booked
  <1> QED BY <1>1, <1>2, <1>3, <1>4 DEF RunOK

\* The steps of a thread and of a call are about the run it works on.
LEMMA Elsewhere ==
    ASSUME TypeOK, NEW w \in Workers, NEW r \in Starts, r # RunOf(w),
           Work(w) \/ (w \in Calls /\ (Decide(w) \/ \E n \in Nodes : CheckReplay(w, n)))
    PROVE  Untouched(r)
  <1>0. RunOf(w) \in Starts /\ ckpt \in [Starts -> Newest] /\ job \in [Workers -> Job] /\ PcType
    BY WorkerFacts DEF TypeOK, PcType
  <1>1. ckpt'[r] = ckpt[r]
    BY <1>0 DEF Work, Begin, Rewind, Continue, NodeReturns, NodePauses, RunsOut, Raises,
                RecordFailure, RecordIsLost, Decide, CheckReplay, Writes
  <1>2. req' = req
    BY DEF Work, Begin, Rewind, Continue, NodeReturns, NodePauses, RunsOut, Raises,
           RecordFailure, RecordIsLost, Decide, CheckReplay, requests
  <1>3. \A x \in Workers : x # w => pc'[x] = pc[x] /\ job'[x] = job[x]
    BY <1>0 DEF PcType, Work, Begin, Rewind, Continue, NodeReturns, NodePauses, RunsOut, Raises,
                RecordFailure, RecordIsLost, Decide, CheckReplay, Writes, Ends
  <1>4. /\ r \in unpaid' <=> r \in unpaid
        /\ r \in mixed' <=> r \in mixed
        /\ r \in broken' <=> r \in broken
    BY DEF Work, Begin, Rewind, Continue, NodeReturns, NodePauses, RunsOut, Raises,
           RecordFailure, RecordIsLost, Decide, CheckReplay, Joins, history
  <1> QED BY <1>1, <1>2, <1>3, <1>4 DEF Untouched

\* What a written checkpoint and its writer hold.
LEMMA WritesGives ==
    ASSUME TypeOK, NEW w \in Workers, NEW v \in Values, Writes(w, v)
    PROVE  /\ ckpt'[RunOf(w)] = [exists |-> TRUE, values |-> v, waiting |-> FALSE, base |-> {w}]
           /\ job'[w].mem = v
           /\ \A x \in Workers : x # w => job'[x] = job[x]
  <1>1. RunOf(w) \in Starts /\ ckpt \in [Starts -> Newest] /\ job \in [Workers -> Job] /\ job[w] \in Job
    BY WorkerFacts DEF TypeOK
  <1>2. [job[w] EXCEPT !.node = 0, !.mem = v].mem = v
    BY <1>1 DEF Job
  <1> QED BY <1>1, <1>2 DEF Writes

\* Who has just written or loaded the newest checkpoint carries it on.
LEMMA AliveByWriter ==
    ASSUME NEW w \in Workers, pc'[w] \in {"working", "rewound"}, w \in ckpt'[RunOf(w)].base,
           job'[w].mem = ckpt'[RunOf(w)].values
    PROVE  Alive(RunOf(w))'
  <1>1. Carries(w)'
    BY DEF Carries
  <1> QED BY <1>1 DEF Alive

\* A thread whose run is under way: the request is past its checks.
LEMMA Underway ==
    ASSUME TypeOK, NEW w \in Workers, Born(RunOf(w)),
           pc[w] \notin {"idle", "ended"} \/ ckpt[RunOf(w)].exists
    PROVE  /\ req[RunOf(w)] \notin Before
           /\ pc[w] \in {"checked", "rewound", "working"} => ckpt[RunOf(w)].exists
           /\ pc[w] \in {"launched", "escaped"} => w \in Starts /\ RunOf(w) = w
           /\ pc[w] = "launched" => ~ ckpt[w].exists /\ w \notin unpaid
  <1>1. RunOf(w) \in Starts /\ PcType /\ ckpt[RunOf(w)] \in Newest
    BY WorkerFacts DEF TypeOK, PcType
  <1>2. pc[w] \in {"checked", "rewound", "working"} => ckpt[RunOf(w)].exists
    BY <1>1 DEF Born
  <1>3. pc[w] \in {"launched", "escaped"} => w \in Starts /\ RunOf(w) = w
    BY <1>1, OwnRun DEF Born
  <1>4. pc[w] = "launched" => ~ ckpt[w].exists /\ w \notin unpaid
    BY <1>1, <1>3 DEF Born
  <1>5. pc[w] \in {"idle", "ended", "launched", "escaped", "checked", "rewound", "working"}
    BY <1>1 DEF PcType
  <1>6. req[RunOf(w)] \notin Before
    <2> SUFFICES ASSUME req[RunOf(w)] \in Before PROVE FALSE
      OBVIOUS
    <2>1. pc[RunOf(w)] = "idle" /\ ~ ckpt[RunOf(w)].exists
      BY DEF Born
    <2>2. pc[w] \in {"launched", "escaped"}
      BY <1>2, <1>5, <2>1
    <2> QED BY <1>3, <2>1, <2>2
  <1> QED BY <1>2, <1>3, <1>4, <1>6

\* A worker moves to x, and its run has a checkpoint from now on or as before.
LEMMA BornStays ==
    ASSUME TypeOK, NEW w \in Workers, Born(RunOf(w)), NEW x,
           pc' = [pc EXCEPT ![w] = x], req' = req, req[RunOf(w)] \notin Before,
           x # "launched", x = "escaped" => w \in Starts,
           ckpt[RunOf(w)].exists => ckpt'[RunOf(w)].exists,
           ckpt'[RunOf(w)].exists /\ ~ ckpt[RunOf(w)].exists => RunOf(w) = w,
           ~ ckpt'[RunOf(w)].exists =>
              /\ x \notin {"checked", "rewound", "working"}
              /\ ~ ckpt'[RunOf(w)].waiting /\ RunOf(w) \notin unpaid'
    PROVE  Born(RunOf(w))'
  <1> DEFINE r == RunOf(w)
  <1>0. r \in Starts /\ PcType /\ r \in Workers /\ RunOf(r) = r
    BY WorkerFacts, OwnRun DEF TypeOK, PcType
  <1>1. pc'[w] = x /\ \A y \in Workers : y # w => pc'[y] = pc[y]
    BY <1>0 DEF PcType
  <1>2. \A y \in Workers : RunOf(y) = r /\ pc'[y] \in {"launched", "escaped"} => y \in Starts
    BY <1>1 DEF Born
  <1>3. pc'[r] = "launched" => ~ ckpt'[r].exists
    <2>1. CASE r = w
      BY <1>1, <2>1
    <2>2. CASE r # w
      BY <1>0, <1>1, <2>2 DEF Born
    <2> QED BY <2>1, <2>2
  <1>4. ~ ckpt'[r].exists => \A y \in Workers : RunOf(y) = r => pc'[y] \notin {"checked", "rewound", "working"}
    BY <1>1 DEF Born
  <1>5. req'[r] \notin Before
    OBVIOUS
  <1> QED BY <1>2, <1>3, <1>4, <1>5 DEF Born

\* No worker begins.
LEMMA AloneStays ==
    ASSUME TypeOK, NEW w \in Workers, Alone(RunOf(w)), Busy(w), NEW x,
           pc' = [pc EXCEPT ![w] = x], mixed' = mixed
    PROVE  Alone(RunOf(w))'
  <1>1. \A y \in Workers : Busy(y)' => Busy(y)
    BY DEF Busy, TypeOK
  <1> QED BY <1>1 DEF Alone, BusyOn

\* A worker begins: it is alone, or the run counts as mixed.
LEMMA AloneJoins ==
    ASSUME TypeOK, NEW w \in Workers, NEW x, pc' = [pc EXCEPT ![w] = x], Joins(w)
    PROVE  Alone(RunOf(w))'
  <1>1. \A y \in Workers : y # w /\ Busy(y)' => Busy(y)
    BY DEF Busy, TypeOK
  <1>2. BusyOn(RunOf(w)) # {} => RunOf(w) \in mixed'
    BY DEF Joins
  <1> QED BY <1>1, <1>2 DEF Alone, BusyOn

\* The run that a thread or a call works on.
LEMMA RunWorkOK ==
    ASSUME TypeOK, NEW w \in Workers, RunOK(RunOf(w)), Work(w)
    PROVE  RunOK(RunOf(w))'
  <1> DEFINE r == RunOf(w)
  <1>0. /\ r \in Starts /\ ckpt \in [Starts -> Newest] /\ job \in [Workers -> Job] /\ PcType
        /\ ckpt[r] \in Newest /\ ckpt[r].values \in Values /\ job[w].mem \in Values
        /\ Alive(r) /\ Born(r) /\ Alone(r) /\ Booked(r)
    BY WorkerFacts DEF TypeOK, PcType, RunOK
  <1>1. CASE Begin(w)
    <2>1. /\ w \in Starts /\ pc[w] = "launched" /\ Writes(w, Fresh) /\ pc' = [pc EXCEPT ![w] = "working"]
          /\ UNCHANGED <<req, unpaid, mixed, broken>>
      BY <1>1 DEF Begin, requests, history
    <2>2. /\ ckpt'[r] = [exists |-> TRUE, values |-> Fresh, waiting |-> FALSE, base |-> {w}]
          /\ job'[w].mem = Fresh /\ pc'[w] = "working"
      BY <1>0, <2>1, NoJobType, WritesGives DEF PcType
    <2>3. Alive(r)'
      BY <2>2, AliveByWriter
    <2>4. req[r] \notin Before /\ r = w /\ r \notin unpaid
      BY <1>0, <2>1, Underway, OwnRun
    <2>5. Born(r)'
      <3>1. ckpt'[r].exists
        BY <2>2
      <3> QED BY <1>0, <2>1, <2>4, <3>1, BornStays
    <2>6. Alone(r)'
      BY <1>0, <2>1, AloneStays DEF Busy
    <2> QED BY <2>1, <2>3, <2>4, <2>5, <2>6 DEF RunOK, Booked
  <1>2. CASE Rewind(w)
    <2> DEFINE v == [ckpt[r].values EXCEPT !.next = job[w].node + 1]
    <2>1. /\ pc[w] = "checked" /\ Writes(w, v) /\ pc' = [pc EXCEPT ![w] = "rewound"] /\ Joins(w)
          /\ UNCHANGED <<req, unpaid, broken>>
      BY <1>2 DEF Rewind, requests
    <2>2. job[w].node + 1 \in 1 .. Steps + 1
      BY WorkerFacts, RunsAssumption
    <2>3. v \in Values /\ v.errors = ckpt[r].values.errors
      BY <1>0, <2>2 DEF Values
    <2> HIDE DEF v
    <2>4. /\ ckpt'[r] = [exists |-> TRUE, values |-> v, waiting |-> FALSE, base |-> {w}]
          /\ job'[w].mem = v /\ pc'[w] = "rewound"
          /\ \A x \in Workers : x # w => job'[x] = job[x] /\ pc'[x] = pc[x]
      BY <1>0, <2>1, <2>3, WritesGives DEF PcType
    <2>5. Alive(r)'
      BY <2>4, AliveByWriter
    <2>6. req[r] \notin Before /\ ckpt[r].exists
      BY <1>0, <2>1, Underway
    <2>7. Born(r)'
      <3>1. ckpt'[r].exists
        BY <2>4
      <3> QED BY <1>0, <2>1, <2>6, <3>1, BornStays
    <2>8. Alone(r)'
      BY <1>0, <2>1, AloneJoins
    <2>9. Booked(r)'
      <3>1. r \notin mixed' => r \notin mixed
        BY <2>1 DEF Joins
      <3> QED BY <1>0, <2>1, <2>3, <2>4, <3>1 DEF Booked
    <2> QED BY <2>5, <2>7, <2>8, <2>9 DEF RunOK
  <1>3. CASE Continue(w)
    <2> DEFINE b == ckpt[r].base \cup {w}
    <2>1. /\ pc[w] = "rewound" /\ pc' = [pc EXCEPT ![w] = "working"]
          /\ job' = [job EXCEPT ![w] = [job[w] EXCEPT !.mem = ckpt[r].values]]
          /\ ckpt' = [ckpt EXCEPT ![r] = [ckpt[r] EXCEPT !.base = b]]
          /\ UNCHANGED <<req, unpaid, mixed, broken>>
      BY <1>0, <1>3 DEF Continue, requests, history
    <2>2. /\ [ckpt[r] EXCEPT !.base = b].base = b
          /\ [ckpt[r] EXCEPT !.base = b].values = ckpt[r].values
          /\ [ckpt[r] EXCEPT !.base = b].exists = ckpt[r].exists
          /\ [job[w] EXCEPT !.mem = ckpt[r].values].mem = ckpt[r].values
      BY <1>0 DEF Newest, Job
    <2>3. /\ ckpt'[r].base = b /\ ckpt'[r].values = ckpt[r].values /\ ckpt'[r].exists = ckpt[r].exists
          /\ job'[w].mem = ckpt[r].values /\ pc'[w] = "working"
          /\ \A x \in Workers : x # w => job'[x] = job[x] /\ pc'[x] = pc[x]
      BY <1>0, <2>1, <2>2 DEF PcType
    <2>4. Alive(r)'
      BY <2>3, AliveByWriter
    <2>5. req[r] \notin Before /\ ckpt[r].exists
      BY <1>0, <2>1, Underway
    <2>6. Born(r)'
      BY <1>0, <2>1, <2>3, <2>5, BornStays
    <2>7. Alone(r)'
      BY <1>0, <2>1, AloneStays DEF Busy
    <2>8. Booked(r)'
      BY <1>0, <2>1, <2>3 DEF Booked
    <2> QED BY <2>4, <2>6, <2>7, <2>8 DEF RunOK
  <1>4. CASE NodeReturns(w)
    <2> DEFINE m == job[w].mem
               after == [m EXCEPT !.visited = @ \cup {m.next}, !.next = m.next + 1]
               lost == [after EXCEPT !.errors = @ \cup {"cost"}]
    <2>1. /\ pc[w] = "working" /\ m.next \in Nodes
          /\ \/ Writes(w, after) /\ unpaid' = unpaid
             \/ Writes(w, lost) /\ unpaid' = unpaid \cup {r}
          /\ UNCHANGED <<req, pc, mixed, broken>>
      BY <1>4 DEF NodeReturns, requests
    <2>2. m.next + 1 \in 1 .. Steps + 1
      BY <2>1, RunsAssumption DEF Nodes
    <2>3. after \in Values /\ after.errors = m.errors
      BY <1>0, <2>1, <2>2 DEF Values
    <2>4. lost \in Values /\ "cost" \in lost.errors
      BY <2>3 DEF Values
    <2> HIDE DEF after, lost
    <2>5. PICK v \in Values :
            /\ Writes(w, v)
            /\ \/ unpaid' = unpaid /\ v.errors = m.errors
               \/ unpaid' = unpaid \cup {r} /\ "cost" \in v.errors
      BY <2>1, <2>3, <2>4
    <2>6. /\ ckpt'[r] = [exists |-> TRUE, values |-> v, waiting |-> FALSE, base |-> {w}]
          /\ job'[w].mem = v /\ pc'[w] = "working"
          /\ \A x \in Workers : x # w => job'[x] = job[x]
      BY <1>0, <2>1, <2>5, WritesGives
    <2>7. Alive(r)'
      BY <2>6, AliveByWriter
    <2>8. req[r] \notin Before /\ ckpt[r].exists
      BY <1>0, <2>1, Underway
    <2>9. Born(r)'
      <3>1. pc' = [pc EXCEPT ![w] = "working"]
        BY <1>0, <2>1 DEF PcType
      <3>2. ckpt'[r].exists
        BY <2>6
      <3> QED BY <1>0, <2>1, <2>8, <3>1, <3>2, BornStays
    <2>10. Alone(r)'
      BY <1>0, <2>1 DEF Alone, BusyOn, Busy
    <2>11. Booked(r)'
      <3> SUFFICES ASSUME r \in unpaid', r \notin mixed'
                   PROVE  /\ "cost" \in v.errors
                          /\ \A x \in Workers : RunOf(x) = r /\ pc'[x] = "working"
                                                  => "cost" \in job'[x].mem.errors
        BY <2>6 DEF Booked
      <3>1. "cost" \in v.errors
        BY <1>0, <2>1, <2>5 DEF Booked
      <3>2. \A x \in Workers : RunOf(x) = r /\ pc'[x] = "working" => x = w
        BY <1>0, <2>1 DEF Alone, BusyOn, Busy
      <3> QED BY <2>6, <3>1, <3>2
    <2> QED BY <2>7, <2>9, <2>10, <2>11 DEF RunOK
  <1>5. CASE NodePauses(w)
    <2> DEFINE waits == ckpt[r].waiting \/ w \in ckpt[r].base
    <2>1. /\ pc[w] = "working" /\ pc' = [pc EXCEPT ![w] = "ended"] /\ job' = [job EXCEPT ![w] = NoJob]
          /\ ckpt' = [ckpt EXCEPT ![r] = [ckpt[r] EXCEPT !.waiting = waits]]
          /\ UNCHANGED <<req, unpaid, mixed, broken>>
      BY <1>0, <1>5 DEF NodePauses, Ends, requests, history
    <2>2. /\ [ckpt[r] EXCEPT !.waiting = waits].waiting = waits
          /\ [ckpt[r] EXCEPT !.waiting = waits].values = ckpt[r].values
          /\ [ckpt[r] EXCEPT !.waiting = waits].exists = ckpt[r].exists
          /\ [ckpt[r] EXCEPT !.waiting = waits].base = ckpt[r].base
      BY <1>0 DEF Newest
    <2>3. /\ ckpt'[r].waiting = waits /\ ckpt'[r].values = ckpt[r].values
          /\ ckpt'[r].exists = ckpt[r].exists /\ ckpt'[r].base = ckpt[r].base
      BY <1>0, <2>1, <2>2
    <2>4. /\ pc'[w] = "ended"
          /\ \A x \in Workers : x # w => pc'[x] = pc[x] /\ job'[x] = job[x]
      BY <1>0, <2>1 DEF PcType
    <2>5. Alive(r)'
      <3>1. \A x \in Workers : RunOf(x) = r /\ x # w /\ Carries(x) => Carries(x)'
        BY <2>3, <2>4 DEF Carries
      <3>2. Carries(w) => ckpt'[r].waiting
        BY <2>1, <2>3 DEF Carries
      <3> QED BY <1>0, <2>1, <2>3, <3>1, <3>2 DEF Alive, Gap
    <2>6. req[r] \notin Before /\ ckpt[r].exists
      BY <1>0, <2>1, Underway
    <2>7. Born(r)'
      BY <1>0, <2>1, <2>3, <2>6, BornStays
    <2>8. Alone(r)'
      BY <1>0, <2>1, AloneStays DEF Busy
    <2>9. Booked(r)'
      BY <1>0, <2>1, <2>3, <2>4 DEF Booked
    <2> QED BY <2>5, <2>7, <2>8, <2>9 DEF RunOK
  <1>6. CASE RunsOut(w)
    <2>1. /\ pc[w] = "working" /\ job[w].mem.next > Steps
          /\ pc' = [pc EXCEPT ![w] = "ended"] /\ job' = [job EXCEPT ![w] = NoJob]
          /\ UNCHANGED <<req, ckpt, unpaid, mixed, broken>>
      BY <1>6 DEF RunsOut, Ends, requests, history
    <2>2. /\ pc'[w] = "ended"
          /\ \A x \in Workers : x # w => pc'[x] = pc[x] /\ job'[x] = job[x]
      BY <1>0, <2>1 DEF PcType
    <2>3. Alive(r)'
      <3>1. \A x \in Workers : RunOf(x) = r /\ x # w /\ Carries(x) => Carries(x)'
        BY <2>1, <2>2 DEF Carries
      <3>2. Carries(w) => ckpt[r].values.visited = Nodes \/ Gap(r)
        <4> SUFFICES ASSUME Carries(w), ~ Gap(r) PROVE ckpt[r].values.visited = Nodes
          OBVIOUS
        <4>1. job[w].mem = ckpt[r].values
          BY <2>1 DEF Carries
        <4>2. job[w].mem.next \in 1 .. Steps + 1 /\ job[w].mem.visited \subseteq Nodes
          BY WorkerFacts
        <4>3. ckpt[r].values.next - 1 = Steps
          BY <2>1, <4>1, <4>2, RunsAssumption
        <4> QED BY <4>1, <4>2, <4>3 DEF Gap, Nodes
      <3> QED BY <1>0, <2>1, <3>1, <3>2 DEF Alive, Gap
    <2>4. req[r] \notin Before /\ ckpt[r].exists
      BY <1>0, <2>1, Underway
    <2>5. Born(r)'
      BY <1>0, <2>1, <2>4, BornStays
    <2>6. Alone(r)'
      BY <1>0, <2>1, AloneStays DEF Busy
    <2>7. Booked(r)'
      BY <1>0, <2>1, <2>2 DEF Booked
    <2> QED BY <2>3, <2>5, <2>6, <2>7 DEF RunOK
  <1>7. CASE Raises(w)
    <2>1. /\ pc[w] \in {"launched", "rewound", "working"}
          /\ UNCHANGED <<req, ckpt, unpaid, mixed>>
      BY <1>7 DEF Raises, requests
    <2>2. PICK x \in {"escaped", "ended"} :
            /\ pc' = [pc EXCEPT ![w] = x]
            /\ x = "escaped" => w \in Starts
            /\ x = "ended" => r \in broken'
            /\ \A y \in Workers : y # w => job'[y] = job[y]
      BY <1>0, <1>7 DEF Raises, Ends
    <2>3. pc'[w] = x /\ \A y \in Workers : y # w => pc'[y] = pc[y]
      BY <1>0, <2>2 DEF PcType
    <2>4. Alive(r)'
      <3>1. CASE x = "escaped"
        BY <2>3, <3>1 DEF Alive, Carries
      <3>2. CASE x = "ended"
        BY <2>2, <3>2 DEF Alive
      <3> QED BY <3>1, <3>2
    <2>5. /\ req[r] \notin Before
          /\ ~ ckpt[r].exists => ~ ckpt[r].waiting /\ r \notin unpaid
      BY <1>0, <2>1, Underway DEF Born
    <2>6. Born(r)'
      BY <1>0, <2>1, <2>2, <2>5, BornStays
    <2>7. Alone(r)'
      BY <1>0, <2>1, <2>2, AloneStays DEF Busy
    <2>8. Booked(r)'
      BY <1>0, <2>1, <2>2, <2>3 DEF Booked
    <2> QED BY <2>4, <2>6, <2>7, <2>8 DEF RunOK
  <1>8. CASE RecordFailure(w)
    <2> DEFINE v == [ckpt[r].values EXCEPT !.errors = @ \cup {"start"}]
    <2>1. /\ pc[w] = "escaped" /\ pc' = [pc EXCEPT ![w] = "ended"] /\ job' = [job EXCEPT ![w] = NoJob]
          /\ ckpt' = [ckpt EXCEPT ![r] = [exists |-> TRUE, values |-> v, waiting |-> FALSE, base |-> {}]]
          /\ UNCHANGED <<req, unpaid, mixed, broken>>
      BY <1>8 DEF RecordFailure, Ends, requests, history
    <2>2. v.errors = ckpt[r].values.errors \cup {"start"}
      BY <1>0 DEF Values
    <2> HIDE DEF v
    <2>3. /\ ckpt'[r] = [exists |-> TRUE, values |-> v, waiting |-> FALSE, base |-> {}]
          /\ pc'[w] = "ended"
          /\ \A x \in Workers : x # w => pc'[x] = pc[x] /\ job'[x] = job[x]
      BY <1>0, <2>1 DEF PcType
    <2>4. Alive(r)'
      BY <2>2, <2>3 DEF Alive
    <2>5. req[r] \notin Before /\ r = w
      BY <1>0, <2>1, Underway
    <2>6. Born(r)'
      BY <1>0, <2>1, <2>3, <2>5, BornStays
    <2>7. Alone(r)'
      BY <1>0, <2>1, AloneStays DEF Busy
    <2>8. Booked(r)'
      BY <1>0, <2>1, <2>2, <2>3 DEF Booked
    <2> QED BY <2>4, <2>6, <2>7, <2>8 DEF RunOK
  <1>9. CASE RecordIsLost(w)
    <2>1. /\ pc[w] = "escaped" /\ pc' = [pc EXCEPT ![w] = "ended"] /\ job' = [job EXCEPT ![w] = NoJob]
          /\ r \in broken'
          /\ UNCHANGED <<req, ckpt, unpaid, mixed>>
      BY <1>9 DEF RecordIsLost, Ends, requests
    <2>2. \A x \in Workers : pc'[x] = "working" => x # w /\ pc[x] = "working" /\ job'[x] = job[x]
      BY <1>0, <2>1 DEF PcType
    <2>3. /\ req[r] \notin Before
          /\ ~ ckpt[r].exists => ~ ckpt[r].waiting /\ r \notin unpaid
      BY <1>0, <2>1, Underway DEF Born
    <2>4. Alive(r)'
      BY <2>1 DEF Alive
    <2>5. Born(r)'
      BY <1>0, <2>1, <2>3, BornStays
    <2>6. Alone(r)'
      BY <1>0, <2>1, AloneStays DEF Busy
    <2>7. Booked(r)'
      BY <1>0, <2>1, <2>2 DEF Booked
    <2> QED BY <2>4, <2>5, <2>6, <2>7 DEF RunOK
  <1> QED BY <1>1, <1>2, <1>3, <1>4, <1>5, <1>6, <1>7, <1>8, <1>9 DEF Work

\* A decision or a replay begins.
LEMMA RunCallOK ==
    ASSUME TypeOK, NEW w \in Calls, RunOK(RunOf(w)),
           Decide(w) \/ \E n \in Nodes : CheckReplay(w, n)
    PROVE  RunOK(RunOf(w))'
  <1> DEFINE r == RunOf(w)
  <1>0. /\ w \in Workers /\ r \in Starts /\ ckpt \in [Starts -> Newest] /\ job \in [Workers -> Job]
        /\ PcType /\ ckpt[r] \in Newest /\ ckpt[r].values \in Values
        /\ Alive(r) /\ Born(r) /\ Alone(r) /\ Booked(r)
    BY WorkerFacts DEF TypeOK, PcType, RunOK, Workers
  <1>1. CASE Decide(w)
    <2> DEFINE b == ckpt[r].base \cup {w}
               j == [NoJob EXCEPT !.mem = ckpt[r].values, !.answered = TRUE]
    <2>1. /\ pc[w] = "idle" /\ ckpt[r].waiting /\ pc' = [pc EXCEPT ![w] = "working"]
          /\ job' = [job EXCEPT ![w] = j]
          /\ ckpt' = [ckpt EXCEPT ![r] = [ckpt[r] EXCEPT !.base = b]]
          /\ Joins(w) /\ UNCHANGED <<req, unpaid, broken>>
      BY <1>0, <1>1 DEF Decide, requests
    <2>2. /\ [ckpt[r] EXCEPT !.base = b].base = b
          /\ [ckpt[r] EXCEPT !.base = b].values = ckpt[r].values
          /\ [ckpt[r] EXCEPT !.base = b].exists = ckpt[r].exists
      BY <1>0 DEF Newest
    <2>3. j.mem = ckpt[r].values
      BY NoJobType DEF Job
    <2> HIDE DEF j
    <2>4. /\ ckpt'[r].base = b /\ ckpt'[r].values = ckpt[r].values /\ ckpt'[r].exists = ckpt[r].exists
          /\ job'[w].mem = ckpt[r].values /\ pc'[w] = "working"
          /\ \A x \in Workers : x # w => job'[x] = job[x] /\ pc'[x] = pc[x]
      BY <1>0, <2>1, <2>2, <2>3 DEF PcType
    <2>5. Alive(r)'
      BY <1>0, <2>4, AliveByWriter
    <2>6. ckpt[r].exists
      BY <1>0, <2>1 DEF Born
    <2>7. req[r] \notin Before
      BY <1>0, <2>6, Underway
    <2>8. Born(r)'
      BY <1>0, <2>1, <2>4, <2>6, <2>7, BornStays
    <2>9. Alone(r)'
      BY <1>0, <2>1, AloneJoins
    <2>10. Booked(r)'
      <3>1. r \notin mixed' => r \notin mixed
        BY <2>1 DEF Joins
      <3> QED BY <1>0, <2>1, <2>4, <3>1 DEF Booked
    <2> QED BY <2>5, <2>8, <2>9, <2>10 DEF RunOK
  <1>2. ASSUME NEW n \in Nodes, CheckReplay(w, n)
        PROVE  RunOK(r)'
    <2>1. /\ pc[w] = "idle" /\ ckpt[r].exists /\ pc' = [pc EXCEPT ![w] = "checked"]
          /\ UNCHANGED <<req, ckpt, unpaid, mixed, broken>>
      BY <1>2 DEF CheckReplay, requests, history
    <2>2. /\ pc'[w] = "checked"
          /\ \A x \in Workers : x # w => job'[x] = job[x] /\ pc'[x] = pc[x]
      BY <1>0, <1>2, <2>1 DEF CheckReplay, PcType
    <2>3. Alive(r)'
      <3>1. \A x \in Workers : Carries(x) => x # w
        BY <2>1 DEF Carries
      <3>2. \A x \in Workers : Carries(x) => Carries(x)'
        BY <2>1, <2>2, <3>1 DEF Carries
      <3> QED BY <1>0, <2>1, <3>2 DEF Alive, Gap
    <2>4. req[r] \notin Before
      BY <1>0, <2>1, Underway
    <2>5. Born(r)'
      BY <1>0, <2>1, <2>4, BornStays
    <2>6. Alone(r)'
      BY <1>0, <2>1, <2>2 DEF Alone, BusyOn, Busy
    <2>7. Booked(r)'
      BY <1>0, <2>1, <2>2 DEF Booked
    <2> QED BY <2>3, <2>5, <2>6, <2>7 DEF RunOK
  <1> QED BY <1>1, <1>2

\* A request changes nothing for a run before it launches its own.
LEMMA RunStartOK ==
    ASSUME TypeOK, AllRunsOK, NEW q \in Starts, StartRun(q)
    PROVE  AllRunsOK'
  <1>0. req \in [Starts -> {"idle", "arrived", "admitted", "started", "answered", "refused"}] /\ PcType
    BY DEF TypeOK, PcType
  <1>1. CASE Launch(q)
    <2>1. /\ req[q] = "admitted" /\ req' = [req EXCEPT ![q] = "started"]
          /\ pc' = [pc EXCEPT ![q] = "launched"]
          /\ UNCHANGED <<ckpt, job, unpaid, mixed, broken>>
      BY <1>1 DEF Launch, history
    <2>2. ASSUME NEW r \in Starts, r # q
          PROVE  RunOK(r)'
      <3>1. req'[r] = req[r]
        BY <1>0, <2>1, <2>2
      <3>2. \A w \in Workers : RunOf(w) = r => pc'[w] = pc[w] /\ job'[w] = job[w]
        BY <1>0, <2>1, <2>2, OwnRun DEF PcType
      <3>3. Untouched(r)
        BY <2>1, <3>1, <3>2 DEF Untouched
      <3> QED BY <3>3, Frame DEF AllRunsOK
    <2>3. RunOK(q)'
      <3>1. /\ pc[q] = "idle" /\ ~ ckpt[q].exists /\ ~ ckpt[q].waiting /\ q \notin unpaid
            /\ \A w \in Workers : RunOf(w) = q =>
                  /\ pc[w] \notin {"checked", "rewound", "working"}
                  /\ pc[w] \in {"launched", "escaped"} => w \in Starts
        BY <2>1 DEF AllRunsOK, RunOK, Born, Before
      <3>2. \A w \in Starts : RunOf(w) = q => w = q
        BY DEF RunOf
      <3>3. q \in Workers /\ RunOf(q) = q /\ pc'[q] = "launched"
        BY <1>0, <2>1, OwnRun DEF PcType
      <3>4. \A w \in Workers : w # q => pc'[w] = pc[w]
        BY <1>0, <2>1 DEF PcType
      <3>5. \A w \in Workers : RunOf(w) = q /\ w # q => ~ Busy(w)'
        BY <3>1, <3>2, <3>4 DEF Busy
      <3>6. Alive(q)'
        BY <2>1, <3>1 DEF Alive
      <3>7. Born(q)'
        <4>1. req'[q] = "started"
          BY <1>0, <2>1
        <4> QED BY <2>1, <3>1, <3>3, <3>4, <4>1 DEF Born, Before
      <3>8. Alone(q)'
        BY <3>5 DEF Alone, BusyOn
      <3>9. Booked(q)'
        BY <2>1, <3>1 DEF Booked
      <3> QED BY <3>6, <3>7, <3>8, <3>9 DEF RunOK
    <2> QED BY <2>2, <2>3 DEF AllRunsOK
  <1>2. CASE ~ Launch(q)
    <2>1. UNCHANGED <<ckpt, pc, job, unpaid, mixed, broken>>
      BY <1>2 DEF StartRun, Arrive, RefuseBody, CheckBudget, SpendUnavailable, LaunchFails,
                  AuditStart, graph, history
    <2>2. \A r \in Starts : req'[r] \in Before => req[r] \in Before
      BY <1>0, <1>2 DEF StartRun, Arrive, RefuseBody, CheckBudget, SpendUnavailable, LaunchFails,
                        AuditStart, Before
    <2>3. \A r \in Starts : Untouched(r)
      BY <2>1, <2>2 DEF Untouched
    <2> QED BY <2>3, Frame DEF AllRunsOK
  <1> QED BY <1>1, <1>2

\* After a crash nobody works on anything: a run that was worked on has a broken thread.
LEMMA RunCrashOK ==
    ASSUME TypeOK, AllRunsOK, Crash
    PROVE  AllRunsOK'
  <1> SUFFICES ASSUME NEW r \in Starts PROVE RunOK(r)'
    BY DEF AllRunsOK
  <1>0. /\ Alive(r) /\ Born(r) /\ Alone(r) /\ Booked(r) /\ r \in Workers
        /\ req \in [Starts -> {"idle", "arrived", "admitted", "started", "answered", "refused"}]
    BY OwnRun DEF AllRunsOK, RunOK, TypeOK
  <1>1. /\ UNCHANGED <<ckpt, unpaid, mixed>>
        /\ broken' = broken \cup {x \in Starts : BusyOn(x) # {}}
        /\ \A w \in Workers : pc'[w] = IF pc[w] = "idle" THEN "idle" ELSE "ended"
        /\ req'[r] \in Before => req[r] = "idle"
    BY <1>0 DEF Crash, Before
  <1>2. Alive(r)'
    <2>1. \A w \in Workers : RunOf(w) = r /\ Carries(w) => w \in BusyOn(r)
      BY DEF Carries, BusyOn, Busy
    <2> QED BY <1>0, <1>1, <2>1 DEF Alive, Gap
  <1>3. Born(r)'
    BY <1>0, <1>1 DEF Born, Before
  <1>4. Alone(r)'
    BY <1>1 DEF Alone, BusyOn, Busy
  <1>5. Booked(r)'
    BY <1>0, <1>1 DEF Booked
  <1> QED BY <1>2, <1>3, <1>4, <1>5 DEF RunOK

LEMMA RunInitOK == Init => AllRunsOK
  <1> SUFFICES ASSUME Init, NEW r \in Starts PROVE RunOK(r)
    BY DEF AllRunsOK
  <1>1. /\ ckpt[r].exists = FALSE /\ ckpt[r].waiting = FALSE /\ unpaid = {} /\ r \in Workers
        /\ \A w \in Workers : pc[w] = "idle"
    BY OwnRun DEF Init
  <1> QED BY <1>1 DEF RunOK, Alive, Born, Alone, Booked, BusyOn, Busy

LEMMA RunStepOK == TypeOK /\ AllRunsOK /\ [Next]_vars => AllRunsOK'
  <1> SUFFICES ASSUME TypeOK, AllRunsOK, [Next]_vars PROVE AllRunsOK'
    OBVIOUS
  <1>1. ASSUME NEW q \in Starts, StartRun(q) PROVE AllRunsOK'
    BY <1>1, RunStartOK
  <1>2. ASSUME NEW w \in Workers,
               Work(w) \/ (w \in Calls /\ (Decide(w) \/ \E n \in Nodes : CheckReplay(w, n)))
        PROVE  AllRunsOK'
    <2>1. RunOf(w) \in Starts /\ RunOK(RunOf(w))
      BY WorkerFacts DEF AllRunsOK
    <2>2. RunOK(RunOf(w))'
      BY <1>2, <2>1, RunWorkOK, RunCallOK
    <2>3. ASSUME NEW r \in Starts, r # RunOf(w) PROVE RunOK(r)'
      BY <1>2, <2>3, Elsewhere, Frame DEF AllRunsOK
    <2> QED BY <2>1, <2>2, <2>3 DEF AllRunsOK
  <1>3. CASE Crash
    BY <1>3, RunCrashOK
  <1>4. CASE MonthTurns \/ UNCHANGED vars
    <2>1. UNCHANGED <<req, ckpt, pc, job, unpaid, mixed, broken>>
      BY <1>4 DEF MonthTurns, vars, graph, history
    <2>2. \A r \in Starts : Untouched(r)
      BY <2>1 DEF Untouched
    <2> QED BY <2>2, Frame DEF AllRunsOK
  <1> QED BY <1>1, <1>2, <1>3, <1>4 DEF Next, Workers

\* A request that came in when the month was spent starts nothing in that month.
THEOREM BudgetHolds == Spec => []NoStartPastTheCap
  <1>1. IndInv => NoStartPastTheCap
    BY DEF IndInv
  <1> QED BY <1>1, InitOK, StepOK, PTL DEF Spec

\* A run that nobody works on is shown as settled, whatever overlapped on it.
THEOREM SettledRuns == Spec => []SettledRunIsNotRunning
  <1>1. AllRunsOK => SettledRunIsNotRunning
    <2> SUFFICES ASSUME AllRunsOK, NEW r \in Starts, Listed(r), BusyOn(r) = {}, r \notin broken,
                        ~ Gap(r)
                 PROVE  DeriveStatus(r) # "running"
      BY DEF SettledRunIsNotRunning
    <2>1. ~ \E w \in Workers : RunOf(w) = r /\ Carries(w)
      BY DEF Carries, BusyOn, Busy
    <2>2. ckpt[r].waiting \/ ckpt[r].values.errors # {} \/ ckpt[r].values.visited = Nodes
      BY <2>1 DEF AllRunsOK, RunOK, Alive, Listed
    <2> QED BY <2>2 DEF DeriveStatus
  <1>2. IndInv => TypeOK
    BY DEF IndInv
  <1> QED BY <1>1, <1>2, InitOK, StepOK, RunInitOK, RunStepOK, PTL DEF Spec

\* Spend that was not booked is not shown as complete while one thread at a time works.
THEOREM LostSpendIsShown == Spec => []UnloggedSpendIsShown
  <1>1. TypeOK /\ AllRunsOK => UnloggedSpendIsShown
    <2> SUFFICES ASSUME AllRunsOK, NEW r \in Starts, r \in unpaid \ mixed, Listed(r)
                 PROVE  DeriveStatus(r) # "complete"
      BY DEF UnloggedSpendIsShown, TypeOK
    <2>1. "cost" \in ckpt[r].values.errors
      BY DEF AllRunsOK, RunOK, Booked
    <2> QED BY <2>1 DEF DeriveStatus
  <1>2. IndInv => TypeOK
    BY DEF IndInv
  <1> QED BY <1>1, <1>2, InitOK, StepOK, RunInitOK, RunStepOK, PTL DEF Spec

-----------------------------------------------------------------------------
(* The stream: events, and what a connection has or had in its queue.       *)

Places == {"new", "top", "empty", "waiting", "woken", "taken", "gone"}

\* The publishers that found a place in the queue of c and have yet to fill it.
Filling(c) == {t \in Threads : fits[t] = c}

StreamTypes ==
    /\ conn \in [Clients -> Places]
    /\ queue \in [Clients -> Seq(Events)] /\ got \in [Clients -> Seq(Events)]
    /\ shown \in [Clients -> Seq(Events)]
    /\ offered \in [Clients -> SUBSET Events] /\ full \in [Clients -> SUBSET Events]
    /\ cut \in [Clients -> SUBSET Events]
    /\ count \in [Threads -> Nat] /\ \A t \in Threads : count[t] <= MaxEvents[t]
    /\ todo \in [Threads -> SUBSET Clients]
    /\ fits \in [Threads -> Clients \cup {Nobody}]

\* A publish has an event, and has found a place for nobody but those it has yet to serve.
Publishing(t) ==
    /\ todo[t] # {} => count[t] > 0
    /\ fits[t] \in todo[t] \cup {Nobody}

\* Every place that was found is still counted for.
Room(c) == Len(queue[c]) + Cardinality(Filling(c)) < Limit + Cardinality(Threads)

\* A connection starts with nothing, and what is about to be sent was taken.
Reader(c) ==
    /\ conn[c] = "new" => queue[c] = <<>> /\ got[c] = <<>> /\ offered[c] = {}
    /\ conn[c] = "taken" => got[c] # <<>>

\* The event that a publish has yet to put into the queue is newer than what is in it.
Newer(c) ==
    \A e \in ToSet(Story(c)) :
        /\ e[2] <= count[e[1]]
        /\ c \in todo[e[1]] => e[2] < count[e[1]]

\* What was offered arrived, was refused or cut off, or is on its way.
Served(c) ==
    Connected(c) =>
        \A e \in offered[c] :
            \/ e \in ToSet(Story(c)) \cup full[c] \cup cut[c]
            \/ e = Event(e[1]) /\ c \in todo[e[1]]

ClientOK(c) == Room(c) /\ Reader(c) /\ Newer(c) /\ InOrder(Story(c)) /\ Served(c)

StreamInv ==
    /\ StreamTypes
    /\ \A t \in Threads : Publishing(t)
    /\ \A c \in Clients : ClientOK(c)

LEMMA EventFacts ==
    /\ \A e \in Events : e[1] \in Threads /\ e[2] \in Nat
    /\ \A t \in Threads, n \in Nat : n > 0 /\ n <= MaxEvents[t] =>
         <<t, n>> \in Events /\ <<t, n>>[1] = t /\ <<t, n>>[2] = n
  <1>1. ASSUME NEW e \in Events PROVE e[1] \in Threads /\ e[2] \in Nat
    <2>1. PICK t \in Threads : e \in {t} \X (1 .. MaxEvents[t])
      BY DEF Events
    <2> QED BY <2>1, StreamAssumption
  <1>2. ASSUME NEW t \in Threads, NEW n \in Nat, n > 0, n <= MaxEvents[t]
        PROVE  <<t, n>> \in Events
    <2>1. n \in 1 .. MaxEvents[t]
      BY <1>2, StreamAssumption
    <2>2. <<t, n>> \in {t} \X (1 .. MaxEvents[t])
      BY <2>1
    <2> QED BY <2>2 DEF Events
  <1> QED
    BY <1>1, <1>2

(* Sequences: taking the head of one queue into another, and putting in at the end. *)
LEMMA TakeHead ==
    ASSUME NEW S, NEW s \in Seq(S), NEW t \in Seq(S), t # <<>>
    PROVE  /\ Append(s, Head(t)) \o Tail(t) = s \o t
           /\ Append(s, Head(t)) \in Seq(S) /\ Append(s, Head(t)) # <<>>
           /\ Tail(t) \in Seq(S) /\ Len(Tail(t)) <= Len(t)
  <1>1. Append(s, Head(t)) \o Tail(t) = s \o t
    OBVIOUS
  <1>2. Append(s, Head(t)) \in Seq(S) /\ Len(Append(s, Head(t))) = Len(s) + 1
    OBVIOUS
  <1>3. Append(s, Head(t)) # <<>>
    <2>1. Len(<<>>) = 0
      OBVIOUS
    <2> QED BY <1>2, <2>1
  <1>4. Tail(t) \in Seq(S) /\ Len(Tail(t)) <= Len(t)
    OBVIOUS
  <1> QED BY <1>1, <1>2, <1>3, <1>4

LEMMA PutLast ==
    ASSUME NEW S, NEW s \in Seq(S), NEW t \in Seq(S), NEW e \in S
    PROVE  s \o Append(t, e) = Append(s \o t, e)
  OBVIOUS

LEMMA LastFacts ==
    ASSUME NEW S, NEW s \in Seq(S), NEW e \in S
    PROVE  /\ Append(s, e) \in Seq(S) /\ Len(Append(s, e)) = Len(s) + 1
           /\ DOMAIN Append(s, e) = 1 .. (Len(s) + 1) /\ DOMAIN s = 1 .. Len(s) /\ Len(s) \in Nat
           /\ \A i \in 1 .. Len(s) : Append(s, e)[i] = s[i]
           /\ Append(s, e)[Len(s) + 1] = e
  OBVIOUS

LEMMA LastInSet ==
    ASSUME NEW S, NEW s \in Seq(S), NEW e \in S
    PROVE  ToSet(Append(s, e)) = ToSet(s) \cup {e}
  <1>1. ToSet(Append(s, e)) = {Append(s, e)[i] : i \in 1 .. (Len(s) + 1)} /\ ToSet(s) = {s[i] : i \in 1 .. Len(s)}
    BY LastFacts DEF ToSet
  <1>2. ASSUME NEW x \in ToSet(Append(s, e)) PROVE x \in ToSet(s) \cup {e}
    <2>1. PICK i \in 1 .. (Len(s) + 1) : x = Append(s, e)[i]
      BY <1>1
    <2>2. i = Len(s) + 1 \/ i \in 1 .. Len(s)
      BY LastFacts
    <2> QED BY <1>1, <2>1, <2>2, LastFacts
  <1>3. ASSUME NEW x \in ToSet(s) \cup {e} PROVE x \in ToSet(Append(s, e))
    <2>1. CASE x = e
      <3>1. Len(s) + 1 \in 1 .. (Len(s) + 1)
        BY LastFacts
      <3> QED BY <1>1, <2>1, <3>1, LastFacts
    <2>2. CASE x \in ToSet(s)
      <3>1. PICK i \in 1 .. Len(s) : x = s[i]
        BY <1>1, <2>2
      <3>2. i \in 1 .. (Len(s) + 1)
        BY LastFacts
      <3> QED BY <1>1, <3>1, <3>2, LastFacts
    <2> QED BY <1>3, <2>1, <2>2
  <1> QED
    BY <1>2, <1>3

LEMMA NothingInSet == ToSet(<<>>) = {} /\ InOrder(<<>>)
  BY DEF ToSet, InOrder

(* An event that is newer than those of its thread comes last in order. *)
LEMMA OrderLast ==
    ASSUME NEW s \in Seq(Events), NEW e \in Events, InOrder(s),
           \A d \in ToSet(s) : d[1] = e[1] => d[2] < e[2]
    PROVE  InOrder(Append(s, e))
  <1> SUFFICES ASSUME NEW i \in DOMAIN Append(s, e), NEW j \in DOMAIN Append(s, e), i < j,
                      Append(s, e)[i][1] = Append(s, e)[j][1]
               PROVE  Append(s, e)[i][2] < Append(s, e)[j][2]
    BY DEF InOrder
  <1>1. i \in 1 .. Len(s) /\ (j \in 1 .. Len(s) \/ j = Len(s) + 1)
    BY LastFacts
  <1>2. Append(s, e)[i] = s[i] /\ s[i] \in ToSet(s)
    BY <1>1, LastFacts DEF ToSet
  <1>3. CASE j \in 1 .. Len(s)
    <2>1. Append(s, e)[j] = s[j] /\ i \in DOMAIN s /\ j \in DOMAIN s
      BY <1>1, <1>3, LastFacts
    <2> QED BY <1>2, <2>1 DEF InOrder
  <1>4. CASE j = Len(s) + 1
    BY <1>2, <1>4, LastFacts
  <1> QED
    BY <1>1, <1>3, <1>4


-----------------------------------------------------------------------------
(* The stream: the steps of a connection.                                   *)

LEMMA StreamFacts ==
    ASSUME StreamInv
    PROVE  /\ StreamTypes
           /\ \A t \in Threads : Publishing(t)
           /\ \A c \in Clients : ClientOK(c) /\ Story(c) \in Seq(Events)
                                 /\ queue[c] \in Seq(Events) /\ got[c] \in Seq(Events)
  BY DEF StreamInv, StreamTypes, Story

(* What a connection does is seen in its own place, queue and history. *)
LEMMA ClientFrame ==
    ASSUME NEW c \in Clients, ClientOK(c), UNCHANGED publishing,
           conn'[c] = conn[c], queue'[c] = queue[c], got'[c] = got[c]
    PROVE  ClientOK(c)'
  <1>1. Story(c)' = Story(c) /\ Filling(c)' = Filling(c) /\ (Connected(c)' <=> Connected(c))
    BY DEF Story, Filling, Connected, publishing
  <1>2. \A e : Event(e)' = Event(e)
    BY DEF Event, publishing
  <1> QED
    BY <1>1, <1>2 DEF ClientOK, Room, Reader, Newer, Served, InOrder, publishing

(* A reading step moves its events within what the connection has or had in its queue. *)
LEMMA ReadKeeps ==
    ASSUME StreamInv, NEW c \in Clients, UNCHANGED publishing, StreamTypes',
           \A d \in Clients : d # c => conn'[d] = conn[d] /\ queue'[d] = queue[d] /\ got'[d] = got[d],
           Story(c)' = Story(c), Len(queue'[c]) <= Len(queue[c]), Reader(c)',
           Connected(c)' => Connected(c) \/ offered[c] = {}
    PROVE  StreamInv'
  <1>1. \A t \in Threads : Publishing(t)'
    BY DEF StreamInv, Publishing, publishing
  <1>2. \A d \in Clients : d # c => ClientOK(d)'
    BY ClientFrame DEF StreamInv
  <1>3. ClientOK(c)'
    <2>1. ClientOK(c) /\ Filling(c)' = Filling(c)
      BY DEF StreamInv, Filling, publishing
    <2>2. Room(c)'
      <3>1. Cardinality(Filling(c)) \in Nat /\ Cardinality(Threads) \in Nat
        BY StreamAssumption, FS_Subset, FS_CardinalityType DEF Filling
      <3>2. Len(queue[c]) \in Nat /\ Len(queue'[c]) \in Nat
        BY StreamFacts DEF StreamTypes
      <3> QED BY <2>1, <3>1, <3>2, StreamAssumption DEF ClientOK, Room
    <2>3. \A e : Event(e)' = Event(e)
      BY DEF Event, publishing
    <2>4. Newer(c)' /\ InOrder(Story(c))'
      BY <2>1 DEF ClientOK, Newer, InOrder, publishing
    <2>5. Served(c)'
      BY <2>1, <2>3 DEF ClientOK, Served, publishing
    <2> QED BY <2>2, <2>4, <2>5 DEF ClientOK
  <1> QED
    BY <1>1, <1>2, <1>3 DEF StreamInv

LEMMA GoesKeeps ==
    ASSUME StreamInv, NEW c \in Clients, NEW to \in Places \ {"new", "taken"}, Goes(c, to), UNCHANGED publishing,
           UNCHANGED <<queue, got>>, shown' \in [Clients -> Seq(Events)],
           conn[c] # "gone"
    PROVE  StreamInv'
  <1>1. conn'[c] = to /\ \A d \in Clients : d # c => conn'[d] = conn[d]
    BY StreamFacts DEF Goes, StreamTypes
  <1>2. StreamTypes'
    BY StreamFacts DEF StreamTypes, Goes, publishing
  <1>3. Reader(c)' /\ Story(c)' = Story(c) /\ Len(queue'[c]) <= Len(queue[c])
    <2>1. Len(queue[c]) \in Nat
      BY StreamFacts
    <2> QED BY <1>1, <2>1 DEF Reader, Story
  <1>4. Connected(c)' => Connected(c) \/ offered[c] = {}
    BY StreamFacts DEF Connected, ClientOK, Reader
  <1> QED
    BY <1>1, <1>2, <1>3, <1>4, ReadKeeps

LEMMA TakesKeeps ==
    ASSUME StreamInv, NEW c \in Clients, Takes(c), Connected(c)
    PROVE  StreamInv'
  <1>0. /\ conn \in [Clients -> Places] /\ queue \in [Clients -> Seq(Events)] /\ got \in [Clients -> Seq(Events)]
        /\ queue[c] \in Seq(Events) /\ got[c] \in Seq(Events)
    BY StreamFacts DEF StreamTypes
  <1> DEFINE q == Tail(queue[c])
             g == Append(got[c], Head(queue[c]))
  <1>1. /\ g \o q = Story(c) /\ q \in Seq(Events) /\ g \in Seq(Events) /\ g # <<>>
        /\ Len(q) <= Len(queue[c])
    BY <1>0, TakeHead DEF Takes, Story
  <1>2. queue' = [queue EXCEPT ![c] = q] /\ got' = [got EXCEPT ![c] = g]
        /\ conn' = [conn EXCEPT ![c] = "taken"] /\ UNCHANGED <<shown, publishing>>
    BY DEF Takes, Goes
  <1> HIDE DEF q, g
  <1>3. queue'[c] = q /\ got'[c] = g /\ conn'[c] = "taken"
        /\ \A d \in Clients : d # c => conn'[d] = conn[d] /\ queue'[d] = queue[d] /\ got'[d] = got[d]
    BY <1>0, <1>2
  <1>4. conn' \in [Clients -> Places] /\ queue' \in [Clients -> Seq(Events)] /\ got' \in [Clients -> Seq(Events)]
    <2>1. "taken" \in Places
      BY DEF Places
    <2> QED BY <1>0, <1>1, <1>2, <2>1
  <1>5. StreamTypes'
    BY <1>2, <1>4, StreamFacts DEF StreamTypes, publishing
  <1>6. Reader(c)' /\ Story(c)' = Story(c) /\ Len(queue'[c]) <= Len(queue[c])
    BY <1>1, <1>3 DEF Reader, Story
  <1> QED
    BY <1>2, <1>3, <1>5, <1>6, ReadKeeps

LEMMA SendKeeps ==
    ASSUME StreamInv, NEW c \in Clients, Send(c)
    PROVE  StreamInv'
  <1>1. got[c] # <<>> /\ got[c] \in Seq(Events) /\ shown \in [Clients -> Seq(Events)]
    BY StreamFacts DEF Send, ClientOK, Reader, StreamTypes
  <1>2. PICK e \in Events : e = got[c][Len(got[c])]
    BY <1>1
  <1>3. Append(shown[c], e) \in Seq(Events)
    BY <1>1, LastFacts
  <1>4. shown' = [shown EXCEPT ![c] = Append(shown[c], e)] \/ shown' = [shown EXCEPT ![c] = shown[c]]
    BY <1>2 DEF Send
  <1>5. shown' \in [Clients -> Seq(Events)]
    BY <1>1, <1>3, <1>4
  <1>6. "top" \in Places \ {"new", "taken"}
    BY DEF Places
  <1> QED
    BY <1>5, <1>6, GoesKeeps DEF Send

LEMMA ReaderKeeps ==
    ASSUME StreamInv, NEW c \in Clients, Connect(c) \/ Read(c)
    PROVE  StreamInv'
  <1>0. {"top", "empty", "waiting"} \subseteq Places \ {"new", "taken"} /\ shown \in [Clients -> Seq(Events)]
    BY StreamFacts DEF Places, StreamTypes
  <1>1. CASE GetNow(c) \/ WakesUp(c)
    BY <1>1, TakesKeeps DEF GetNow, WakesUp, Connected
  <1>2. CASE Connect(c)
    BY <1>0, <1>2, GoesKeeps DEF Connect
  <1>3. CASE FindsEmpty(c)
    BY <1>0, <1>3, GoesKeeps DEF FindsEmpty
  <1>4. CASE Sleeps(c)
    BY <1>0, <1>4, GoesKeeps DEF Sleeps
  <1>5. CASE Heartbeat(c)
    BY <1>0, <1>5, GoesKeeps DEF Heartbeat
  <1> QED
    BY <1>1, <1>2, <1>3, <1>4, <1>5, SendKeeps DEF Read

(* A browser that goes away leaves nothing behind. *)
LEMMA DisconnectKeeps ==
    ASSUME StreamInv, NEW c \in Clients, Disconnect(c)
    PROVE  StreamInv'
  <1>0. StreamTypes /\ <<>> \in Seq(Events) /\ Len(queue[c]) \in Nat
    BY StreamFacts
  <1>1. conn'[c] = "gone" /\ queue'[c] = <<>> /\ got'[c] = <<>> /\ UNCHANGED <<count, todo, fits>>
    BY <1>0 DEF Disconnect, Goes, StreamTypes
  <1>2. \A d \in Clients : d # c => /\ conn'[d] = conn[d] /\ queue'[d] = queue[d] /\ got'[d] = got[d]
                                    /\ offered'[d] = offered[d] /\ full'[d] = full[d] /\ cut'[d] = cut[d]
    BY <1>0 DEF Disconnect, Goes, StreamTypes
  <1>3. StreamTypes'
    BY <1>0, <1>1 DEF Disconnect, Goes, StreamTypes, Places
  <1>4. \A t \in Threads : Publishing(t)'
    BY <1>1 DEF StreamInv, Publishing
  <1>5. ASSUME NEW d \in Clients, d # c PROVE ClientOK(d)'
    <2>1. Story(d)' = Story(d) /\ Filling(d)' = Filling(d) /\ (Connected(d)' <=> Connected(d))
      BY <1>1, <1>2, <1>5 DEF Story, Filling, Connected
    <2>2. \A t : Event(t)' = Event(t)
      BY <1>1 DEF Event
    <2> QED
      BY <1>1, <1>2, <1>5, <2>1, <2>2 DEF StreamInv, ClientOK, Room, Reader, Newer, Served, InOrder
  <1>6. ClientOK(c)'
    <2>1. Story(c)' = <<>>
      BY <1>1 DEF Story
    <2>2. Newer(c)' /\ InOrder(Story(c))'
      BY <2>1, NothingInSet DEF Newer
    <2>3. Room(c)'
      <3>1. Cardinality(Filling(c)) \in Nat /\ Cardinality(Threads) \in Nat
        BY StreamAssumption, FS_Subset, FS_CardinalityType DEF Filling
      <3>2. Len(queue'[c]) = 0 /\ Filling(c)' = Filling(c) /\ Room(c)
        BY <1>1 DEF Filling, StreamInv, ClientOK
      <3> QED BY <1>0, <3>1, <3>2, StreamAssumption DEF Room
    <2> QED BY <1>1, <2>2, <2>3 DEF ClientOK, Reader, Served, Connected
  <1> QED
    BY <1>3, <1>4, <1>5, <1>6 DEF StreamInv


-----------------------------------------------------------------------------
(* The stream: the steps of a publish.                                      *)

LEMMA EventOf ==
    ASSUME StreamInv, NEW t \in Threads, todo[t] # {}
    PROVE  Event(t) \in Events /\ Event(t)[1] = t /\ Event(t)[2] = count[t] /\ count[t] \in Nat
  <1>1. count[t] \in Nat /\ count[t] > 0 /\ count[t] <= MaxEvents[t]
    BY DEF StreamInv, StreamTypes, Publishing
  <1> QED
    BY <1>1, EventFacts DEF Event

LEMMA StoryEvents ==
    ASSUME StreamInv, NEW c \in Clients, NEW e \in ToSet(Story(c))
    PROVE  e \in Events /\ e[1] \in Threads /\ e[2] \in Nat /\ count[e[1]] \in Nat
  <1>1. e \in Events
    BY StreamFacts DEF ToSet
  <1> QED
    BY <1>1, EventFacts DEF StreamInv, StreamTypes

LEMMA PublishKeeps ==
    ASSUME StreamInv, NEW t \in Threads, Publish(t)
    PROVE  StreamInv'
  <1>0. StreamTypes /\ todo[t] = {} /\ count[t] \in Nat /\ MaxEvents[t] \in Nat /\ count[t] < MaxEvents[t]
    BY StreamFacts, StreamAssumption DEF Publish, StreamTypes
  <1>1. /\ count'[t] = count[t] + 1 /\ \A u \in Threads : u # t => count'[u] = count[u]
        /\ todo'[t] = Subscribers /\ \A u \in Threads : u # t => todo'[u] = todo[u]
        /\ count' \in [Threads -> Nat] /\ todo' \in [Threads -> SUBSET Clients]
    BY <1>0 DEF Publish, StreamTypes, Subscribers
  <1>2. UNCHANGED <<conn, queue, got, shown, fits, full, cut>>
    BY DEF Publish
  <1>3. /\ Event(t)' = <<t, count'[t]>> /\ Event(t)' \in Events
        /\ \A u \in Threads : u # t => Event(u)' = Event(u)
        /\ <<t, count'[t]>>[1] = t
    <2>1. count'[t] \in Nat /\ count'[t] > 0 /\ count'[t] <= MaxEvents[t]
      BY <1>0, <1>1
    <2> QED BY <1>1, <2>1, EventFacts DEF Event
  <1>4. \A c \in Clients : offered'[c] = offered[c] \cup (IF c \in Subscribers THEN {<<t, count'[t]>>} ELSE {})
    BY DEF Publish
  <1>5. offered' \in [Clients -> SUBSET Events]
    <2>1. \A c \in Clients : offered[c] \cup (IF c \in Subscribers THEN {<<t, count'[t]>>} ELSE {}) \in SUBSET Events
      BY <1>0, <1>3 DEF StreamTypes
    <2> QED BY <2>1 DEF Publish
  <1>6. StreamTypes'
    <2>1. ASSUME NEW u \in Threads PROVE count'[u] <= MaxEvents[u]
      <3>1. count[u] <= MaxEvents[u]
        BY <1>0 DEF StreamTypes
      <3>2. CASE u = t
        BY <1>0, <1>1, <3>2
      <3>3. CASE u # t
        BY <1>1, <3>1, <3>3
      <3> QED BY <3>2, <3>3
    <2> QED BY <1>0, <1>1, <1>2, <1>5, <2>1 DEF StreamTypes
  <1>7. ASSUME NEW u \in Threads PROVE Publishing(u)'
    <2>1. Publishing(u) /\ Publishing(t)
      BY StreamFacts
    <2>2. fits'[t] = Nobody
      BY <1>0, <1>2, <2>1 DEF Publishing
    <2> QED BY <1>0, <1>1, <1>2, <2>1, <2>2 DEF Publishing
  <1>8. ASSUME NEW c \in Clients PROVE ClientOK(c)'
    <2>1. ClientOK(c) /\ Story(c)' = Story(c) /\ Filling(c)' = Filling(c) /\ (Connected(c)' <=> Connected(c))
      BY <1>2, StreamFacts DEF Story, Filling, Connected
    <2>2. Room(c)' /\ InOrder(Story(c))'
      BY <1>2, <2>1 DEF ClientOK, Room, InOrder
    <2>3. Reader(c)'
      BY <1>2, <1>4, <2>1 DEF ClientOK, Reader, Subscribers, Connected
    <2>4. Newer(c)'
      <3> SUFFICES ASSUME NEW e \in ToSet(Story(c))
                   PROVE  e[2] <= count'[e[1]] /\ (c \in todo'[e[1]] => e[2] < count'[e[1]])
        BY <2>1 DEF Newer
      <3>1. e[1] \in Threads /\ e[2] \in Nat /\ count[e[1]] \in Nat
        BY StoryEvents
      <3>2. e[2] <= count[e[1]] /\ (c \in todo[e[1]] => e[2] < count[e[1]])
        BY <2>1 DEF ClientOK, Newer
      <3>3. CASE e[1] = t
        BY <1>1, <3>1, <3>2, <3>3
      <3>4. CASE e[1] # t
        BY <1>1, <3>1, <3>2, <3>4
      <3> QED BY <3>3, <3>4
    <2>5. Served(c)'
      <3> SUFFICES ASSUME Connected(c), NEW e \in offered'[c]
                   PROVE  \/ e \in ToSet(Story(c)) \cup full[c] \cup cut[c]
                          \/ e = Event(e[1])' /\ c \in todo'[e[1]]
        BY <1>2, <2>1 DEF Served
      <3>1. c \in Subscribers
        BY DEF Subscribers
      <3>2. CASE e = <<t, count'[t]>>
        BY <1>1, <1>3, <3>1, <3>2
      <3>3. CASE e \in offered[c]
        <4>1. e[1] \in Threads
          BY <1>0, <3>3, EventFacts DEF StreamTypes
        <4>2. e \in ToSet(Story(c)) \cup full[c] \cup cut[c] \/ (e = Event(e[1]) /\ c \in todo[e[1]])
          BY <2>1, <3>3 DEF ClientOK, Served
        <4>3. CASE e = Event(e[1]) /\ c \in todo[e[1]]
          <5>1. e[1] # t
            BY <1>0, <4>3
          <5> QED BY <1>1, <1>3, <4>1, <4>3, <5>1
        <4> QED BY <4>2, <4>3
      <3> QED BY <1>4, <3>2, <3>3
    <2> QED BY <2>2, <2>3, <2>4, <2>5 DEF ClientOK
  <1> QED
    BY <1>6, <1>7, <1>8 DEF StreamInv

LEMMA SeesFullKeeps ==
    ASSUME StreamInv, NEW t \in Threads, NEW c \in Clients, SeesFull(t, c)
    PROVE  StreamInv'
  <1>0. /\ StreamTypes /\ c \in todo[t] /\ fits[t] = Nobody
        /\ Event(t) \in Events /\ Event(t)[1] = t
    BY StreamFacts, EventOf DEF SeesFull
  <1>1. UNCHANGED <<conn, queue, got, shown, count, fits, offered, cut>>
    BY DEF SeesFull
  <1>2. /\ todo' = [todo EXCEPT ![t] = todo[t] \ {c}]
        /\ full' = [full EXCEPT ![c] = full[c] \cup {Event(t)}]
    BY DEF SeesFull
  <1>3. /\ todo'[t] = todo[t] \ {c} /\ \A u \in Threads : u # t => todo'[u] = todo[u]
        /\ full'[c] = full[c] \cup {Event(t)} /\ \A d \in Clients : d # c => full'[d] = full[d]
        /\ todo' \in [Threads -> SUBSET Clients] /\ full' \in [Clients -> SUBSET Events]
    BY <1>0, <1>2 DEF StreamTypes
  <1>4. StreamTypes'
    BY <1>0, <1>1, <1>3 DEF StreamTypes
  <1>5. ASSUME NEW u \in Threads PROVE Publishing(u)'
    BY <1>0, <1>1, <1>3, StreamFacts DEF Publishing
  <1>6. ASSUME NEW d \in Clients PROVE ClientOK(d)'
    <2>1. ClientOK(d) /\ Story(d)' = Story(d) /\ Filling(d)' = Filling(d) /\ (Connected(d)' <=> Connected(d))
      BY <1>1, StreamFacts DEF Story, Filling, Connected
    <2>2. Room(d)' /\ InOrder(Story(d))' /\ Reader(d)'
      BY <1>1, <2>1 DEF ClientOK, Room, InOrder, Reader
    <2>3. Newer(d)'
      <3> SUFFICES ASSUME NEW e \in ToSet(Story(d))
                   PROVE  e[2] <= count[e[1]] /\ (d \in todo'[e[1]] => e[2] < count[e[1]])
        BY <1>1, <2>1 DEF Newer
      <3>1. e[1] \in Threads
        BY StoryEvents
      <3>2. todo'[e[1]] \subseteq todo[e[1]]
        BY <1>3, <3>1
      <3> QED BY <2>1, <3>2 DEF ClientOK, Newer
    <2>4. Served(d)'
      <3> SUFFICES ASSUME Connected(d), NEW e \in offered[d]
                   PROVE  \/ e \in ToSet(Story(d)) \cup full'[d] \cup cut[d]
                          \/ e = Event(e[1]) /\ d \in todo'[e[1]]
        BY <1>1, <2>1 DEF Served, Event
      <3>1. e[1] \in Threads
        BY <1>0, EventFacts DEF StreamTypes
      <3>2. e \in ToSet(Story(d)) \cup full[d] \cup cut[d] \/ (e = Event(e[1]) /\ d \in todo[e[1]])
        BY <2>1 DEF ClientOK, Served
      <3>3. full[d] \subseteq full'[d]
        BY <1>3
      <3>4. CASE e = Event(e[1]) /\ d \in todo[e[1]] /\ ~ (d = c /\ e[1] = t)
        BY <1>3, <3>1, <3>4
      <3>5. CASE e = Event(e[1]) /\ d = c /\ e[1] = t
        BY <1>3, <3>5
      <3> QED BY <3>2, <3>3, <3>4, <3>5
    <2> QED BY <2>2, <2>3, <2>4 DEF ClientOK
  <1> QED
    BY <1>4, <1>5, <1>6 DEF StreamInv

(* However many find the last place, each of them fills one. *)
LEMMA SeesPlaceKeeps ==
    ASSUME StreamInv, NEW t \in Threads, NEW c \in Clients, SeesPlace(t, c)
    PROVE  StreamInv'
  <1>0. StreamTypes /\ c \in todo[t] /\ fits[t] = Nobody /\ Len(queue[c]) < Limit
    BY StreamFacts DEF SeesPlace
  <1>1. UNCHANGED <<conn, queue, got, shown, count, todo, offered, full, cut>>
    BY DEF SeesPlace
  <1>2. fits' = [fits EXCEPT ![t] = c] /\ fits'[t] = c /\ \A u \in Threads : u # t => fits'[u] = fits[u]
    BY <1>0 DEF SeesPlace, StreamTypes
  <1>3. StreamTypes'
    BY <1>0, <1>1, <1>2 DEF StreamTypes
  <1>4. ASSUME NEW u \in Threads PROVE Publishing(u)'
    BY <1>0, <1>1, <1>2, StreamFacts DEF Publishing
  <1>5. ASSUME NEW d \in Clients PROVE ClientOK(d)'
    <2>1. ClientOK(d) /\ Story(d)' = Story(d) /\ (Connected(d)' <=> Connected(d)) /\ \A u : Event(u)' = Event(u)
      BY <1>1, StreamFacts DEF Story, Connected, Event
    <2>2. Room(d)'
      <3>1. CASE d = c
        <4>1. Filling(c)' \in SUBSET Threads
          BY DEF Filling
        <4>2. IsFiniteSet(Filling(c)') /\ Cardinality(Filling(c)') <= Cardinality(Threads)
          BY <4>1, StreamAssumption, FS_Subset
        <4>3. Cardinality(Filling(c)') \in Nat /\ Cardinality(Threads) \in Nat /\ Len(queue[c]) \in Nat
          BY <4>2, StreamAssumption, FS_CardinalityType, StreamFacts
        <4> QED BY <1>0, <1>1, <3>1, <4>2, <4>3, StreamAssumption DEF Room
      <3>2. CASE d # c
        <4>1. Filling(d)' = Filling(d)
          BY <1>0, <1>2, <3>2, StreamAssumption DEF Filling
        <4> QED BY <1>1, <2>1, <4>1 DEF ClientOK, Room
      <3> QED BY <3>1, <3>2
    <2> QED
      BY <1>1, <2>1, <2>2 DEF ClientOK, Reader, Newer, Served, InOrder
  <1> QED
    BY <1>3, <1>4, <1>5 DEF StreamInv

(* What a publish that found a place does to the queues. *)
LEMMA PutsFacts ==
    ASSUME StreamInv, NEW t \in Threads, NEW c \in Clients, Puts(t, c)
    PROVE  /\ c \in todo[t] /\ Event(t) \in Events /\ Event(t)[1] = t /\ Event(t)[2] = count[t]
           /\ queue' \in [Clients -> Seq(Events)] /\ fits' \in [Threads -> Clients \cup {Nobody}]
           /\ \A d \in Clients : d # c => queue'[d] = queue[d]
           /\ \A u \in Threads : u # t => fits'[u] = fits[u]
           /\ fits'[t] = Nobody
           /\ ~ Connected(c) => queue' = queue
           /\ Connected(c) => got[c] \o queue'[c] = Append(Story(c), Event(t))
           /\ \A d \in Clients : Room(d)'
  <1>0. StreamTypes /\ fits[t] = c
    BY StreamFacts DEF Puts
  <1>1. c \in todo[t]
    BY <1>0, StreamFacts, StreamAssumption DEF Publishing
  <1>2. PICK e \in Events : e = Event(t) /\ e[1] = t /\ e[2] = count[t]
    BY <1>1, EventOf
  <1>3. queue[c] \in Seq(Events) /\ got[c] \in Seq(Events)
    BY StreamFacts
  <1>4. fits' = [fits EXCEPT ![t] = Nobody]
        /\ queue' = IF Connected(c) THEN [queue EXCEPT ![c] = Append(queue[c], e)] ELSE queue
    BY <1>2 DEF Puts
  <1>5. Append(queue[c], e) \in Seq(Events) /\ Len(Append(queue[c], e)) = Len(queue[c]) + 1
        /\ got[c] \o Append(queue[c], e) = Append(Story(c), e)
    <2>1. Append(queue[c], e) \in Seq(Events) /\ Len(Append(queue[c], e)) = Len(queue[c]) + 1
      BY <1>3, LastFacts
    <2>2. got[c] \o Append(queue[c], e) = Append(got[c] \o queue[c], e)
      <3>1. \A s, r \in Seq(Events) : s \o Append(r, e) = Append(s \o r, e)
        BY PutLast
      <3> QED BY <1>3, <3>1, Zenon
    <2> QED BY <2>1, <2>2 DEF Story
  <1>6. /\ queue' \in [Clients -> Seq(Events)] /\ fits' \in [Threads -> Clients \cup {Nobody}]
        /\ \A d \in Clients : d # c => queue'[d] = queue[d]
        /\ \A u \in Threads : u # t => fits'[u] = fits[u]
        /\ fits'[t] = Nobody
        /\ queue'[c] = queue[c] \/ queue'[c] = Append(queue[c], e)
        /\ Connected(c) => queue'[c] = Append(queue[c], e)
    BY <1>0, <1>4, <1>5 DEF StreamTypes
  <1>7. ASSUME NEW d \in Clients PROVE Room(d)'
    <2>1. Room(d)
      BY StreamFacts DEF ClientOK
    <2>2. CASE d # c
      <3>1. Filling(d)' = Filling(d)
        BY <1>0, <1>6, <2>2, StreamAssumption DEF Filling
      <3> QED BY <1>6, <2>1, <2>2, <3>1 DEF Room
    <2>3. CASE d = c
      <3>1. Filling(c)' = Filling(c) \ {t} /\ t \in Filling(c)
        BY <1>0, <1>6, StreamAssumption DEF Filling
      <3>2. IsFiniteSet(Filling(c))
        BY StreamAssumption, FS_Subset DEF Filling
      <3>3. Cardinality(Filling(c)') = Cardinality(Filling(c)) - 1
        BY <3>1, <3>2, FS_RemoveElement
      <3>4. Cardinality(Filling(c)) \in Nat /\ Cardinality(Threads) \in Nat /\ Len(queue[c]) \in Nat
        BY <1>3, <3>2, StreamAssumption, FS_CardinalityType
      <3>5. Len(queue'[c]) = Len(queue[c]) \/ Len(queue'[c]) = Len(queue[c]) + 1
        BY <1>5, <1>6
      <3> QED BY <2>1, <2>3, <3>3, <3>4, <3>5, StreamAssumption DEF Room
    <2> QED BY <2>2, <2>3
  <1> QED
    BY <1>1, <1>2, <1>4, <1>5, <1>6, <1>7

(* The event that is put in is the newest of its thread in this queue; those who are not *)
(* served by the same publish any more are told so in cut.                               *)
LEMMA PutsKeep ==
    ASSUME StreamInv, NEW t \in Threads, NEW c \in Clients, Puts(t, c),
           UNCHANGED <<got, shown, count, offered, full>>,
           conn' \in [Clients -> Places], cut' \in [Clients -> SUBSET Events], todo' \in [Threads -> SUBSET Clients],
           \A u \in Threads : u # t => todo'[u] = todo[u],
           todo'[t] \subseteq todo[t] \ {c},
           \A d \in Clients : /\ cut[d] \subseteq cut'[d]
                              /\ Connected(d)' <=> Connected(d)
                              /\ conn'[d] = "new" <=> conn[d] = "new"
                              /\ conn'[d] = "taken" <=> conn[d] = "taken"
                              /\ Connected(d) /\ d # c /\ d \in todo[t] => d \in todo'[t] \/ Event(t) \in cut'[d]
    PROVE  StreamInv'
  <1>0. /\ StreamTypes /\ c \in todo[t] /\ Event(t) \in Events /\ Event(t)[1] = t /\ Event(t)[2] = count[t]
        /\ queue' \in [Clients -> Seq(Events)] /\ fits' \in [Threads -> Clients \cup {Nobody}]
        /\ \A d \in Clients : d # c => queue'[d] = queue[d]
        /\ \A u \in Threads : u # t => fits'[u] = fits[u]
        /\ fits'[t] = Nobody
        /\ ~ Connected(c) => queue' = queue
        /\ Connected(c) => got[c] \o queue'[c] = Append(Story(c), Event(t))
    BY StreamFacts, PutsFacts
  <1>1. StreamTypes'
    BY <1>0 DEF StreamTypes
  <1>2. \A u \in Threads : Publishing(u)'
    BY <1>0, StreamFacts DEF Publishing
  <1>3. \A u : Event(u)' = Event(u)
    BY DEF Event
  <1>4. ASSUME NEW d \in Clients PROVE ClientOK(d)'
    <2>0. Room(d)' /\ ClientOK(d) /\ Story(d) \in Seq(Events)
      BY StreamFacts, PutsFacts
    <2>1. CASE d = c /\ Connected(c)
      <3>1. Story(c)' = Append(Story(c), Event(t))
        BY <1>0, <2>1 DEF Story
      <3>2. ToSet(Story(c)') = ToSet(Story(c)) \cup {Event(t)}
        BY <1>0, <2>0, <2>1, <3>1, LastInSet
      <3>3. \A e \in ToSet(Story(c)) : e[1] = t => e[2] < count[t]
        BY <1>0, <2>0, <2>1 DEF ClientOK, Newer
      <3>4. InOrder(Story(c)')
        BY <1>0, <2>0, <2>1, <3>1, <3>3, OrderLast DEF ClientOK
      <3>5. Newer(c)'
        <4> SUFFICES ASSUME NEW e \in ToSet(Story(c)) \cup {Event(t)}
                     PROVE  e[2] <= count[e[1]] /\ (c \in todo'[e[1]] => e[2] < count[e[1]])
          BY <3>2 DEF Newer
        <4>1. CASE e = Event(t)
          <5>1. count[t] \in Nat /\ c \notin todo'[t]
            BY <1>0 DEF StreamTypes
          <5> QED BY <1>0, <4>1, <5>1
        <4>2. CASE e \in ToSet(Story(c))
          <5>1. e[1] \in Threads
            BY <4>2, StoryEvents
          <5>2. todo'[e[1]] \subseteq todo[e[1]]
            BY <5>1
          <5> QED BY <2>0, <2>1, <4>2, <5>2 DEF ClientOK, Newer
        <4> QED BY <4>1, <4>2
      <3>6. Served(c)'
        <4> SUFFICES ASSUME NEW e \in offered[c]
                     PROVE  \/ e \in ToSet(Story(c)) \cup {Event(t)} \cup full[c] \cup cut'[c]
                            \/ e = Event(e[1]) /\ c \in todo'[e[1]]
          BY <1>3, <3>2 DEF Served
        <4>1. e[1] \in Threads
          BY <1>0, EventFacts DEF StreamTypes
        <4>2. e \in ToSet(Story(c)) \cup full[c] \cup cut[c] \/ (e = Event(e[1]) /\ c \in todo[e[1]])
          BY <2>0, <2>1 DEF ClientOK, Served
        <4>3. CASE e = Event(e[1]) /\ c \in todo[e[1]]
          BY <4>1, <4>3
        <4> QED BY <4>2, <4>3
      <3>7. Reader(c)'
        BY <2>0, <2>1 DEF ClientOK, Reader, Connected
      <3> QED BY <2>0, <2>1, <3>4, <3>5, <3>6, <3>7 DEF ClientOK
    <2>2. CASE d # c \/ ~ Connected(c)
      <3>1. queue'[d] = queue[d] /\ Story(d)' = Story(d)
        BY <1>0, <2>2 DEF Story
      <3>2. InOrder(Story(d)') /\ Reader(d)'
        BY <2>0, <3>1 DEF ClientOK, Reader
      <3>3. Newer(d)'
        <4> SUFFICES ASSUME NEW e \in ToSet(Story(d))
                     PROVE  e[2] <= count[e[1]] /\ (d \in todo'[e[1]] => e[2] < count[e[1]])
          BY <3>1 DEF Newer
        <4>1. e[1] \in Threads
          BY StoryEvents
        <4>2. todo'[e[1]] \subseteq todo[e[1]]
          BY <4>1
        <4> QED BY <2>0, <4>2 DEF ClientOK, Newer
      <3>4. Served(d)'
        <4> SUFFICES ASSUME Connected(d), NEW e \in offered[d]
                     PROVE  \/ e \in ToSet(Story(d)) \cup full[d] \cup cut'[d]
                            \/ e = Event(e[1]) /\ d \in todo'[e[1]]
          BY <1>3, <3>1 DEF Served
        <4>0. d # c
          BY <2>2
        <4>1. e[1] \in Threads
          BY <1>0, EventFacts DEF StreamTypes
        <4>2. e \in ToSet(Story(d)) \cup full[d] \cup cut[d] \/ (e = Event(e[1]) /\ d \in todo[e[1]])
          BY <2>0 DEF ClientOK, Served
        <4>3. CASE e = Event(e[1]) /\ d \in todo[e[1]]
          <5>1. CASE e[1] = t
            BY <4>0, <4>3, <5>1
          <5>2. CASE e[1] # t
            BY <4>1, <4>3, <5>2
          <5> QED BY <5>1, <5>2
        <4> QED BY <4>2, <4>3
      <3> QED BY <2>0, <3>2, <3>3, <3>4 DEF ClientOK
    <2> QED BY <2>1, <2>2
  <1> QED
    BY <1>1, <1>2, <1>4 DEF StreamInv

LEMMA PutKeeps ==
    ASSUME StreamInv, NEW t \in Threads, NEW c \in Clients, Put(t, c)
    PROVE  StreamInv'
  <1>0. StreamTypes
    BY StreamFacts
  <1> DEFINE to == IF conn[c] = "waiting" THEN "woken" ELSE conn[c]
  <1>1. Puts(t, c) /\ UNCHANGED <<got, shown, count, offered, full, cut>>
        /\ todo' = [todo EXCEPT ![t] = todo[t] \ {c}] /\ conn' = [conn EXCEPT ![c] = to]
    BY DEF Put
  <1>2. /\ conn'[c] = to /\ \A d \in Clients : d # c => conn'[d] = conn[d]
        /\ conn' \in [Clients -> Places] /\ todo' \in [Threads -> SUBSET Clients]
        /\ todo'[t] = todo[t] \ {c} /\ \A u \in Threads : u # t => todo'[u] = todo[u]
    BY <1>0, <1>1 DEF StreamTypes, Places
  <1>3. ASSUME NEW d \in Clients
        PROVE  /\ Connected(d)' <=> Connected(d)
               /\ conn'[d] = "new" <=> conn[d] = "new"
               /\ conn'[d] = "taken" <=> conn[d] = "taken"
    BY <1>2 DEF Connected
  <1> HIDE DEF to
  <1>4. cut' \in [Clients -> SUBSET Events] /\ \A d \in Clients : cut[d] \subseteq cut'[d]
    BY <1>0, <1>1 DEF StreamTypes
  <1>5. \A d \in Clients : Connected(d) /\ d # c /\ d \in todo[t] => d \in todo'[t] \/ Event(t) \in cut'[d]
    BY <1>2
  <1>6. todo'[t] \subseteq todo[t] \ {c}
    BY <1>2
  <1> QED
    BY <1>1, <1>2, <1>3, <1>4, <1>5, <1>6, PutsKeep

LEMMA PutRaisesKeeps ==
    ASSUME StreamInv, NEW t \in Threads, NEW c \in Clients, PutRaises(t, c)
    PROVE  StreamInv'
  <1>0. StreamTypes /\ conn[c] = "waiting"
    BY StreamFacts DEF PutRaises
  <1>1. /\ Puts(t, c) /\ UNCHANGED <<got, shown, count, offered, full>>
        /\ todo' = [todo EXCEPT ![t] = {}] /\ conn' = [conn EXCEPT ![c] = "top"]
    BY DEF PutRaises, Goes
  <1>2. /\ conn'[c] = "top" /\ \A d \in Clients : d # c => conn'[d] = conn[d]
        /\ conn' \in [Clients -> Places] /\ todo' \in [Threads -> SUBSET Clients]
        /\ todo'[t] = {} /\ \A u \in Threads : u # t => todo'[u] = todo[u]
    BY <1>0, <1>1 DEF StreamTypes, Places
  <1>3. ASSUME NEW d \in Clients
        PROVE  /\ Connected(d)' <=> Connected(d)
               /\ conn'[d] = "new" <=> conn[d] = "new"
               /\ conn'[d] = "taken" <=> conn[d] = "taken"
    BY <1>0, <1>2 DEF Connected
  <1>4. \A d \in Clients : cut'[d] = IF d \in (Subscribers \cap todo[t]) \ {c} THEN cut[d] \cup {Event(t)} ELSE cut[d]
    BY DEF PutRaises
  <1>5. cut' \in [Clients -> SUBSET Events]
    <2>1. Event(t) \in Events
      BY <1>1, PutsFacts
    <2>2. \A d \in Clients : (IF d \in (Subscribers \cap todo[t]) \ {c} THEN cut[d] \cup {Event(t)} ELSE cut[d]) \in SUBSET Events
      BY <1>0, <2>1 DEF StreamTypes
    <2> QED BY <2>2 DEF PutRaises
  <1>6. \A d \in Clients : /\ cut[d] \subseteq cut'[d]
                           /\ Connected(d) /\ d # c /\ d \in todo[t] => Event(t) \in cut'[d]
    BY <1>4 DEF Subscribers
  <1> QED
    BY <1>1, <1>2, <1>3, <1>5, <1>6, PutsKeep

LEMMA StreamNextOK == StreamInv /\ [StreamNext]_streamVars => StreamInv'
  <1> SUFFICES ASSUME StreamInv, [StreamNext]_streamVars PROVE StreamInv'
    OBVIOUS
  <1>1. ASSUME NEW c \in Clients, Connect(c) \/ Read(c) \/ Disconnect(c) PROVE StreamInv'
    BY <1>1, ReaderKeeps, DisconnectKeeps
  <1>2. ASSUME NEW t \in Threads,
               Publish(t) \/ \E c \in Clients : SeesFull(t, c) \/ SeesPlace(t, c) \/ Put(t, c) \/ PutRaises(t, c)
        PROVE  StreamInv'
    BY <1>2, PublishKeeps, SeesFullKeeps, SeesPlaceKeeps, PutKeeps, PutRaisesKeeps
  <1>3. CASE UNCHANGED streamVars
    <2>1. \A c \in Clients : ClientOK(c)'
      BY <1>3, ClientFrame DEF StreamInv, streamVars, publishing
    <2> QED BY <1>3, <2>1 DEF StreamInv, StreamTypes, Publishing, streamVars
  <1> QED
    BY <1>1, <1>2, <1>3 DEF StreamNext

LEMMA StreamInitOK == StreamInit => StreamInv
  <1> SUFFICES ASSUME StreamInit PROVE StreamInv
    OBVIOUS
  <1>1. StreamTypes
    <2>1. <<>> \in Seq(Events) /\ "new" \in Places
      BY DEF Places
    <2> QED BY <2>1, StreamAssumption DEF StreamInit, StreamTypes
  <1>2. \A t \in Threads : Publishing(t)
    BY DEF StreamInit, Publishing
  <1>3. ASSUME NEW c \in Clients PROVE ClientOK(c)
    <2>1. Story(c) = <<>> /\ conn[c] = "new" /\ queue[c] = <<>> /\ got[c] = <<>> /\ offered[c] = {}
      BY DEF StreamInit, Story
    <2>2. Newer(c) /\ InOrder(Story(c))
      BY <2>1, NothingInSet DEF Newer
    <2>3. Room(c)
      <3>1. Filling(c) = {}
        BY StreamAssumption DEF StreamInit, Filling
      <3>2. Cardinality({}) = 0 /\ Cardinality(Threads) \in Nat /\ Len(<<>>) = 0
        BY StreamAssumption, FS_EmptySet, FS_CardinalityType
      <3> QED BY <2>1, <3>1, <3>2, StreamAssumption DEF Room
    <2> QED BY <2>1, <2>2, <2>3 DEF ClientOK, Reader, Served
  <1> QED
    BY <1>1, <1>2, <1>3 DEF StreamInv

(* The inductive invariant of the stream: every place that a publisher found is still *)
(* there when it fills it, up to one for each of them, and an event on its way to a    *)
(* queue is newer than what its thread has put there before.                           *)
THEOREM StreamInvariance == StreamSpec => []StreamInv
  <1> QED
    BY StreamInitOK, StreamNextOK, PTL DEF StreamSpec

(* Types of the stream; publishers that saw the last place together overfill a queue *)
(* by one event each and no more, for any number of threads and connections.         *)
THEOREM StreamTypeCorrect == StreamSpec => []StreamTypeOK
  <1>1. StreamInv => StreamTypeOK
    <2> SUFFICES ASSUME StreamInv PROVE StreamTypeOK
      OBVIOUS
    <2>1. ASSUME NEW c \in Clients PROVE Len(queue[c]) < Limit + Cardinality(Threads)
      <3>1. Cardinality(Filling(c)) \in Nat /\ Cardinality(Threads) \in Nat
        BY StreamAssumption, FS_Subset, FS_CardinalityType DEF Filling
      <3>2. Room(c) /\ Len(queue[c]) \in Nat
        BY StreamFacts DEF ClientOK
      <3> QED BY <3>1, <3>2, StreamAssumption DEF Room
    <2>2. \A t \in Threads : count[t] \in 0 .. MaxEvents[t]
      BY StreamFacts, StreamAssumption DEF StreamTypes
    <2> QED BY <2>1, <2>2, StreamFacts DEF StreamTypes, StreamTypeOK, Places
  <1> QED
    BY <1>1, StreamInvariance, PTL

(* An event published while a connection was subscribed is taken by it or waits in its *)
(* queue, once and in the order of its thread, unless the queue was full or the publish *)
(* was cut short: no race of publishers, heartbeats and wake-ups loses or repeats one.   *)
THEOREM OnlyFullQueuesDrop == StreamSpec => []DropsOnlyWhenFull
  <1>1. StreamInv => DropsOnlyWhenFull
    BY DEF StreamInv, ClientOK, Served, Subscribers, DropsOnlyWhenFull
  <1> QED
    BY <1>1, StreamInvariance, PTL

===============================================================================
