-------------------------------- MODULE Hitl --------------------------------
(***************************************************************************)
(* The approval queue of the control panel: HitlService.list_queue and     *)
(* HitlService.decide over the hitl_approvals table (api/app/hitl.py),     *)
(* together with what they touch: the checkpoints of the paused runs, and  *)
(* the threads that start, resume and replay those runs (api/app/runs.py). *)
(*                                                                         *)
(* A worker is a thread of the API process: a request of the thread pool   *)
(* or the daemon thread of a run that starts.  Every database transaction  *)
(* and every checkpoint read or write of the code is one step; between two *)
(* of them the other workers run.                                          *)
(*                                                                         *)
(* A run is seen through its gates, numbered in graph order                *)
(* (contract_approval, aesthetic_qc, publish_gate; collection_gate alone   *)
(* for a research run).  Gate number g stands for the node name a row      *)
(* carries.  The nodes between two gates are one segment.                  *)
(***************************************************************************)
EXTENDS Integers, Sequences, FiniteSets

CONSTANTS Workers,         \* threads of the API process
          Runs,            \* graph thread ids
          None,            \* stands for "no run" in an idle worker
          NGates,          \* gate nodes of the graph
          LateGates,       \* gates whose node may have run before it asks (aesthetic_qc)
          Choices,         \* the decisions reviewers send
          MaxItems,        \* bound: rows of hitl_approvals
          MaxInterrupts,   \* bound: interrupts one run raises
          MaxFaults,       \* bound: crashes, raising nodes, failed audit writes
          MaxReplays       \* bound: replays requested

ActionToStatus == [approve |-> "approved", reject |-> "rejected",
                   regenerate |-> "regenerate_requested"]

Actions == DOMAIN ActionToStatus

ASSUME HitlAssumption ==
    /\ NGates \in Nat
    /\ MaxItems \in Nat
    /\ MaxInterrupts \in Nat
    /\ MaxFaults \in Nat
    /\ MaxReplays \in Nat
    /\ Choices \subseteq Actions
    /\ LateGates \subseteq 1 .. NGates

VARIABLES rows,      \* the hitl_approvals table, by id
          audits,    \* audit_log rows written for each approval id
          ckpt,      \* newest checkpoint of each run
          raised,    \* interrupts each run has raised so far
          reached,   \* highest gate each run has ever passed
          pc,        \* where each worker stands in its call
          job,       \* the locals of that call
          delivered, \* history: interrupts answered with each row's payload
          faults, replays

tables == <<rows, audits>>
graph  == <<ckpt, raised, reached>>
budget == <<faults, replays>>
vars   == <<rows, audits, ckpt, raised, reached, pc, job, delivered, faults, replays>>

Items == 1 .. MaxItems
Gates == 1 .. NGates

Decided == {ActionToStatus[a] : a \in Actions}

Row  == [status : {"absent", "pending"} \cup Decided, run : Runs \cup {None}, gate : 0 .. NGates]
Ckpt == [phase : {"new", "running", "paused", "done"}, at : 0 .. NGates, intr : 0 .. MaxInterrupts]

\* run, gate: the run the call works on and the gate it looks at, re-executes or
\*            has just left;  item, action: the row being decided and how;
\* intr: the interrupt being answered;  sent: the gate returned in this resume.
Job == [run : Runs \cup {None}, gate : 0 .. NGates, item : 0 .. MaxItems,
        action : Actions \cup {"none"}, intr : 0 .. MaxInterrupts, sent : BOOLEAN]

NoRow == [status |-> "absent", run |-> None, gate |-> 0]

\* The locals of a call on run r looking at gate g, deciding row i with a.
Call(r, g, i, a) == [run |-> r, gate |-> g, item |-> i, action |-> a,
                     intr |-> 0, sent |-> FALSE]
NoJob == Call(None, 0, 0, "none")

\* A decide call between its claim and its return.
Holding == {"resume", "gate", "segment", "audit", "reopen"}
Pcs == {"idle", "insert", "select", "check", "claim"} \cup Holding

\* The worker owns the claim on row i.
Holds(p, i) == pc[p] \in Holding /\ job[p].item = i

IsPending(i, r, g) == rows[i].status = "pending" /\ rows[i].run = r /\ rows[i].gate = g

PendingRows(r, g) == {i \in Items : IsPending(i, r, g)}

\* The interrupt list_interrupts reports: node g of run r waits for a resume.
Paused(r, g) == ckpt[r].phase = "paused" /\ ckpt[r].at + 1 = g

Finish(p) ==
    /\ pc' = [pc EXCEPT ![p] = "idle"]
    /\ job' = [job EXCEPT ![p] = NoJob]

SetStatus(i, s) == rows' = [rows EXCEPT ![i] = [@ EXCEPT !.status = s]]

Goto(p, to) == pc' = [pc EXCEPT ![p] = to]

Fault == faults < MaxFaults /\ faults' = faults + 1 /\ UNCHANGED replays

Higher(a, b) == IF a < b THEN b ELSE a

Init ==
    /\ rows = [i \in Items |-> NoRow]
    /\ audits = [i \in Items |-> <<>>]
    /\ ckpt = [r \in Runs |-> [phase |-> "new", at |-> 0, intr |-> 0]]
    /\ raised = [r \in Runs |-> 0]
    /\ reached = [r \in Runs |-> 0]
    /\ pc = [p \in Workers |-> "idle"]
    /\ job = [p \in Workers |-> NoJob]
    /\ delivered = [i \in Items |-> <<>>]
    /\ faults = 0
    /\ replays = 0

-----------------------------------------------------------------------------
(* Starting and replaying a run.                                            *)

\* The run's own thread enters the graph.
Start(p, r) ==
    /\ pc[p] = "idle"
    /\ ckpt[r].phase = "new"
    /\ ckpt' = [ckpt EXCEPT ![r] = [phase |-> "running", at |-> 0, intr |-> 0]]
    /\ Goto(p, "segment")
    /\ job' = [job EXCEPT ![p] = Call(r, 0, 0, "none")]
    /\ UNCHANGED <<tables, raised, reached, delivered, budget>>

\* A node in front of which h - 1 gates were passed may be visited: one whose gate
\* was passed, or one that ran before its gate asked for the first time.
MayBeVisited(r, h) ==
    \/ h <= reached[r]
    \/ h = reached[r] + 1 /\ h \in LateGates

\* The recorded output of a node already visited is written back as that node,
\* and the graph goes on from there; h gates lie before that point.
Replay(p, r, h) ==
    /\ pc[p] = "idle"
    /\ replays < MaxReplays
    /\ ckpt[r].phase # "new"
    /\ MayBeVisited(r, h)
    /\ ckpt' = [ckpt EXCEPT ![r] = [phase |-> "running", at |-> h, intr |-> 0]]
    /\ Goto(p, "segment")
    /\ job' = [job EXCEPT ![p] = Call(r, h, 0, "none")]
    /\ replays' = replays + 1
    /\ UNCHANGED <<tables, raised, reached, delivered, faults>>

-----------------------------------------------------------------------------
(* GET /api/approvals: list_interrupts, then ensure_pending per interrupt.  *)

\* A plausible bug: gates that already have a decided row are skipped, as if a
\* decided row meant an answered gate.
ScanSkipsDecided(p, r) ==
    /\ pc[p] = "idle"
    /\ ckpt[r].phase = "paused"
    /\ ~ \E i \in Items : rows[i].status \in Decided /\ rows[i].run = r
                          /\ rows[i].gate = ckpt[r].at + 1
    /\ Goto(p, "insert")
    /\ job' = [job EXCEPT ![p] = Call(r, ckpt[r].at + 1, 0, "none")]
    /\ UNCHANGED <<tables, graph, delivered, budget>>

\* The scan finds the run paused.
Scan(p, r) ==
    /\ pc[p] = "idle"
    /\ ckpt[r].phase = "paused"
    /\ Goto(p, "insert")
    /\ job' = [job EXCEPT ![p] = Call(r, ckpt[r].at + 1, 0, "none")]
    /\ UNCHANGED <<tables, graph, delivered, budget>>

\* A plausible bug: the partial unique index on (run_id, node) is missing.
InsertAlways(p) ==
    /\ pc[p] = "insert"
    /\ \E i \in Items :
         /\ rows[i].status = "absent"
         /\ \A j \in Items : j < i => rows[j].status # "absent"
         /\ rows' = [rows EXCEPT ![i] = [status |-> "pending", run |-> job[p].run,
                                         gate |-> job[p].gate]]
    /\ Goto(p, "select")
    /\ UNCHANGED <<audits, graph, job, delivered, budget>>

\* INSERT of a pending row; the partial unique index turns a second open row for
\* the same (run, node) into an IntegrityError, which is swallowed.
InsertPending(p) ==
    /\ pc[p] = "insert"
    /\ \/ /\ PendingRows(job[p].run, job[p].gate) # {}
          /\ UNCHANGED rows
       \/ /\ PendingRows(job[p].run, job[p].gate) = {}
          /\ \E i \in Items :
               /\ rows[i].status = "absent"
               /\ \A j \in Items : j < i => rows[j].status # "absent"
               /\ rows' = [rows EXCEPT ![i] = [status |-> "pending", run |-> job[p].run,
                                               gate |-> job[p].gate]]
    /\ Goto(p, "select")
    /\ UNCHANGED <<audits, graph, job, delivered, budget>>

\* SELECT of the open row, in a transaction of its own.  When none is left the
\* assertion fails and the request ends with an error: the same step here.
SelectPending(p) ==
    /\ pc[p] = "select"
    /\ Finish(p)
    /\ UNCHANGED <<tables, graph, delivered, budget>>

-----------------------------------------------------------------------------
(* POST /api/approvals/{id}/decision: decide.                               *)

\* The row is read; a row already decided is answered from the record, which
\* changes nothing, so only an open row goes on.
BeginDecide(p, i, a) ==
    /\ pc[p] = "idle"
    /\ rows[i].status = "pending"
    /\ Goto(p, "check")
    /\ job' = [job EXCEPT ![p] = Call(rows[i].run, rows[i].gate, i, a)]
    /\ UNCHANGED <<tables, graph, delivered, budget>>

\* The (run, node) of the row must be among the live interrupts, or HitlStale.
LiveCheck(p) ==
    /\ pc[p] = "check"
    /\ \/ /\ Paused(job[p].run, job[p].gate)
          /\ Goto(p, "claim")
          /\ UNCHANGED job
       \/ /\ ~ Paused(job[p].run, job[p].gate)
          /\ Finish(p)
    /\ UNCHANGED <<tables, graph, delivered, budget>>

\* build_resume_payload finds the decision ambiguous for this gate.
Refuse(p) ==
    /\ pc[p] = "claim"
    /\ Finish(p)
    /\ UNCHANGED <<tables, graph, delivered, budget>>

\* A plausible bug: UPDATE without its WHERE status = 'pending'.
ClaimUnguarded(p) ==
    /\ pc[p] = "claim"
    /\ SetStatus(job[p].item, ActionToStatus[job[p].action])
    /\ Goto(p, "resume")
    /\ UNCHANGED <<audits, graph, job, delivered, budget>>

\* UPDATE ... WHERE id = item AND status = 'pending' RETURNING: one winner, the
\* loser answers with the recorded decision.
Claim(p) ==
    /\ pc[p] = "claim"
    /\ \/ /\ rows[job[p].item].status = "pending"
          /\ SetStatus(job[p].item, ActionToStatus[job[p].action])
          /\ Goto(p, "resume")
          /\ UNCHANGED job
       \/ /\ rows[job[p].item].status # "pending"
          /\ Finish(p)
          /\ UNCHANGED rows
    /\ UNCHANGED <<audits, graph, delivered, budget>>

\* A plausible bug: the checkpoint is taken to be still paused at a gate.
ResumeAssumesPaused(p) ==
    /\ pc[p] = "resume"
    /\ Goto(p, "gate")
    /\ job' = [job EXCEPT ![p] = [@ EXCEPT !.gate = ckpt[job[p].run].at + 1,
                                           !.intr = ckpt[job[p].run].intr]]
    /\ UNCHANGED <<tables, graph, delivered, budget>>

\* graph.invoke(Command(resume)) loads the newest checkpoint.  A paused gate node
\* is re-executed from its start with the payload.  When the run moved on since
\* the live check, another call runs its nodes: the pending one may be a gate that
\* has not interrupted yet, which takes the payload at once, or another node,
\* which runs again and drops it.  An ended graph returns at once.
Resume(p) ==
    LET c == ckpt[job[p].run]
    IN  /\ pc[p] = "resume"
        /\ \/ /\ c.phase = "paused"
              /\ Goto(p, "gate")
              /\ job' = [job EXCEPT ![p] = [@ EXCEPT !.gate = c.at + 1, !.intr = c.intr]]
           \/ /\ c.phase = "running" /\ c.at < NGates
              /\ Goto(p, "gate")
              /\ job' = [job EXCEPT ![p] = [@ EXCEPT !.gate = c.at + 1]]
           \/ /\ c.phase = "running"
              /\ Goto(p, "segment")
              /\ job' = [job EXCEPT ![p] = [@ EXCEPT !.gate = c.at]]
           \/ /\ c.phase = "done"
              /\ Goto(p, "audit")
              /\ UNCHANGED job
        /\ UNCHANGED <<tables, graph, delivered, budget>>

\* The gate node returns with the payload and its checkpoint is committed.  The
\* payload answers the interrupt the gate had raised, if it had raised one.
GateReturns(p) ==
    LET j == job[p]
    IN  /\ pc[p] = "gate"
        /\ ckpt' = [ckpt EXCEPT ![j.run] = [phase |-> "running", at |-> j.gate, intr |-> 0]]
        /\ reached' = [reached EXCEPT ![j.run] = Higher(@, j.gate)]
        /\ delivered' = IF j.intr = 0 THEN delivered
                        ELSE [delivered EXCEPT ![j.item] = Append(@, j.intr)]
        /\ job' = [job EXCEPT ![p] = [@ EXCEPT !.sent = TRUE]]
        /\ Goto(p, "segment")
        /\ UNCHANGED <<tables, raised, budget>>

\* The gate node raises: the interrupt stays where it was.
GateRaises(p) ==
    /\ pc[p] = "gate"
    /\ Fault
    /\ Goto(p, "reopen")
    /\ UNCHANGED <<tables, graph, job, delivered>>

-----------------------------------------------------------------------------
(* The nodes between two gates, run by a start, a resume or a replay.       *)

\* invoke returned: a decide call audits, any other call is over.
InvokeReturns(p) ==
    IF job[p].item # 0 THEN Goto(p, "audit") /\ UNCHANGED job ELSE Finish(p)

\* The next gate that is switched on interrupts the run.
SegmentPauses(p, g) ==
    LET r == job[p].run
    IN  /\ pc[p] = "segment"
        /\ job[p].gate < g
        /\ raised[r] < MaxInterrupts
        /\ raised' = [raised EXCEPT ![r] = @ + 1]
        /\ ckpt' = [ckpt EXCEPT ![r] = [phase |-> "paused", at |-> g - 1,
                                        intr |-> raised[r] + 1]]
        /\ reached' = [reached EXCEPT ![r] = Higher(@, g - 1)]
        /\ InvokeReturns(p)
        /\ UNCHANGED <<tables, delivered, budget>>

\* No further gate interrupts: the run reaches the end of the graph.
SegmentEnds(p) ==
    LET r == job[p].run
    IN  /\ pc[p] = "segment"
        /\ ckpt' = [ckpt EXCEPT ![r] = [phase |-> "done", at |-> NGates, intr |-> 0]]
        /\ reached' = [reached EXCEPT ![r] = NGates]
        /\ InvokeReturns(p)
        /\ UNCHANGED <<tables, raised, delivered, budget>>

\* A node raises: the checkpoint keeps the failed node as its next one, and the
\* exception reaches the caller.
SegmentRaises(p) ==
    /\ pc[p] = "segment"
    /\ Fault
    /\ IF job[p].item # 0 THEN Goto(p, "reopen") /\ UNCHANGED job ELSE Finish(p)
    /\ UNCHANGED <<tables, graph, delivered>>

-----------------------------------------------------------------------------
(* The end of a decide call.                                                *)

\* A plausible bug: only approvals are written to the audit log.
AuditApprovalsOnly(p) ==
    /\ pc[p] = "audit"
    /\ audits' = IF job[p].action = "approve"
                 THEN [audits EXCEPT ![job[p].item] = Append(@, job[p].action)]
                 ELSE audits
    /\ Finish(p)
    /\ UNCHANGED <<rows, graph, delivered, budget>>

Audit(p) ==
    /\ pc[p] = "audit"
    /\ audits' = [audits EXCEPT ![job[p].item] = Append(@, job[p].action)]
    /\ Finish(p)
    /\ UNCHANGED <<rows, graph, delivered, budget>>

\* A plausible bug: any exception reopens the row, a failed audit write too.
AuditFailReopens(p) ==
    /\ pc[p] = "audit"
    /\ Fault
    /\ Goto(p, "reopen")
    /\ UNCHANGED <<tables, graph, job, delivered>>

\* The audit write fails after a resume that succeeded: the claim is kept.
AuditFails(p) ==
    /\ pc[p] = "audit"
    /\ Fault
    /\ Finish(p)
    /\ UNCHANGED <<tables, graph, delivered>>

\* A plausible bug: the rollback of a failed resume is forgotten.
ReopenForgotten(p) ==
    /\ pc[p] = "reopen"
    /\ Finish(p)
    /\ UNCHANGED <<tables, graph, delivered, budget>>

\* Rollback of the claim.  Another open row for the same (run, node) makes the
\* UPDATE violate the unique index: the error propagates, the row stays decided.
Reopen(p) ==
    LET i == job[p].item
    IN  /\ pc[p] = "reopen"
        /\ \/ /\ PendingRows(rows[i].run, rows[i].gate) = {}
              /\ SetStatus(i, "pending")
           \/ /\ PendingRows(rows[i].run, rows[i].gate) # {}
              /\ UNCHANGED rows
        /\ Finish(p)
        /\ UNCHANGED <<audits, graph, delivered, budget>>

\* The process dies: its threads go, the two stores stay.
Crash ==
    /\ \E p \in Workers : pc[p] # "idle"
    /\ Fault
    /\ pc' = [p \in Workers |-> "idle"]
    /\ job' = [p \in Workers |-> NoJob]
    /\ UNCHANGED <<tables, graph, delivered>>

-----------------------------------------------------------------------------

Serve(p) ==
    \/ InsertPending(p) \/ SelectPending(p)
    \/ LiveCheck(p) \/ Claim(p) \/ Resume(p)
    \/ GateReturns(p) \/ GateRaises(p)
    \/ (\E g \in Gates : SegmentPauses(p, g)) \/ SegmentEnds(p) \/ SegmentRaises(p)
    \/ Audit(p) \/ AuditFails(p) \/ Reopen(p)

Next ==
    \/ \E p \in Workers :
         \/ \E r \in Runs : \/ Start(p, r)
                            \/ Scan(p, r)
                            \/ \E h \in 0 .. NGates : Replay(p, r, h)
         \/ \E i \in Items, a \in Choices : BeginDecide(p, i, a)
         \/ Refuse(p)
         \/ Serve(p)
    \/ Crash

Spec == Init /\ [][Next]_vars

\* A thread that has work goes on with it, and clients keep polling the queue:
\* a run that keeps being found paused while a thread is free is scanned in the
\* end.  Decisions, replays, faults and crashes are never obliged to happen.
Fairness ==
    /\ \A p \in Workers : WF_vars(Serve(p))
    /\ \A r \in Runs : SF_vars(\E p \in Workers : Scan(p, r))

FairSpec == Spec /\ Fairness

-----------------------------------------------------------------------------
(* Properties.                                                              *)

\* Type invariant.
TypeOK ==
    /\ rows \in [Items -> Row]
    /\ audits \in [Items -> Seq(Actions)]
    /\ ckpt \in [Runs -> Ckpt]
    /\ raised \in [Runs -> 0 .. MaxInterrupts]
    /\ reached \in [Runs -> 0 .. NGates]
    /\ pc \in [Workers -> Pcs]
    /\ job \in [Workers -> Job]
    /\ delivered \in [Items -> Seq(1 .. MaxInterrupts)]
    /\ faults \in 0 .. MaxFaults
    /\ replays \in 0 .. MaxReplays

\* A gate never has two open rows, whatever scans and rollbacks overlap: a scan
\* that inserts while a claim is being rolled back must not leave the queue with
\* the same gate twice (the partial unique index of migration 0003).
UniqueOpenRow ==
    \A i, j \in Items :
        /\ rows[i].status = "pending" /\ rows[j].status = "pending"
        /\ rows[i].run = rows[j].run /\ rows[i].gate = rows[j].gate
        => i = j

\* Concurrent double submits collapse on the atomic claim: at no time do two
\* decide calls both own the claim on one row, and the row shows the decision of
\* the call that owns it, so that a loser is answered with the winner's decision.
ExclusiveClaim ==
    \A p, q \in Workers :
        /\ Holds(p, job[p].item) /\ job[p].item # 0
        => /\ rows[job[p].item].status = ActionToStatus[job[p].action]
           /\ Holds(q, job[p].item) => p = q

\* The audit log and the index never disagree: a row is audited at most once,
\* and once audited it shows, for ever, the decision that was audited.
AuditTrailAgrees ==
    \A i \in Items : audits[i] # <<>> =>
        /\ Len(audits[i]) = 1
        /\ rows[i].status = ActionToStatus[audits[i][1]]

\* One row never answers the same interrupt twice, even when its claim was rolled
\* back after a failure and the row was decided again.
AnswersInterruptOnce ==
    \A i \in Items : \A m, n \in DOMAIN delivered[i] :
        delivered[i][m] = delivered[i][n] => m = n

\* Every decision writes an audit row: as long as nothing failed, a decided row
\* is in the audit log or still in the hands of the call that decided it.
NoDecisionLostWithoutFault ==
    faults = 0 =>
        \A i \in Items : rows[i].status \in Decided =>
            audits[i] # <<>> \/ \E p \in Workers : Holds(p, i)

\* A row whose claim was rolled back can be decided again: the rollback of a
\* failed resume leaves the gate with exactly one open row.
RollbackReopensGate ==
    [][\A p \in Workers :
        LET i == job[p].item
        IN  pc[p] = "reopen" /\ pc'[p] = "idle" /\ faults' = faults
              => \E j \in Items : /\ rows'[j].status = "pending"
                                  /\ rows'[j].run = rows[i].run
                                  /\ rows'[j].gate = rows[i].gate]_vars

\* Who works on a row decides where it stands in the ledger.
LedgerState(i) ==
    IF rows[i].status = "absent" THEN "absent"
    ELSE IF rows[i].status = "pending" THEN "open"
    ELSE IF audits[i] # <<>> THEN "audited"
    ELSE IF \E p \in Workers : Holds(p, i) /\ pc[p] = "audit" THEN "resumed"
    ELSE IF \E p \in Workers : Holds(p, i) THEN "claimed"
    ELSE "orphaned"

LedgerVerdict(i) ==
    IF rows[i].status \in Decided
    THEN CHOOSE a \in Actions : ActionToStatus[a] = rows[i].status
    ELSE "none"

Ledger == INSTANCE ApprovalLedger
            WITH state <- [i \in Items |-> LedgerState(i)],
                 verdict <- [i \in Items |-> LedgerVerdict(i)]

\* The queue implements the ledger: a decided row goes back to open only while
\* the resume call of its own claim has not returned, an audited or orphaned row
\* never changes again, and no decision is ever replaced by another.
ImplementsLedger == Ledger!LedgerSpec

\* Crash window: a gate that stays paused does not stay without an open row, also
\* when its row was left decided by a process that died before it resumed.
QueueSurfacesGate ==
    \A r \in Runs, g \in Gates :
        Paused(r, g) ~> (PendingRows(r, g) # {} \/ ~ Paused(r, g))

-----------------------------------------------------------------------------
(* The inductive invariant of the proofs.                                   *)

\* A row names a run and a gate, and a paused run waits at a gate.
StoresWellFormed ==
    /\ \A i \in Items : rows[i].status # "absent" => rows[i].run \in Runs /\ rows[i].gate \in Gates
    /\ \A r \in Runs : ckpt[r].phase = "paused" => ckpt[r].at < NGates

\* What the locals j of a call hold at the point `at' of it.
JobWellFormed(at, j) ==
    /\ at # "idle" => j.run \in Runs
    /\ at \in {"insert", "select", "gate"} => j.gate \in Gates
    /\ at \in {"check", "claim", "resume", "gate", "audit", "reopen"} => j.item # 0
    /\ j.item # 0 => j.action \in Actions /\ rows[j.item].status # "absent"

JobsWellFormed == \A p \in Workers : JobWellFormed(pc[p], job[p])

\* Nothing is audited before its call is over.
HeldUnaudited == \A p \in Workers : \A i \in Items : Holds(p, i) => audits[i] = <<>>

IndInv ==
    /\ TypeOK
    /\ StoresWellFormed
    /\ JobsWellFormed
    /\ HeldUnaudited
    /\ UniqueOpenRow
    /\ ExclusiveClaim
    /\ AuditTrailAgrees

-----------------------------------------------------------------------------
(* What the comments of the code say and the code does not do.              *)

\* "Decisions map to exactly one Command(resume=...) per decision ... never
\* re-resume" (api/app/hitl.py): one interrupt is answered by one row.
InterruptAnsweredOnce ==
    \A i, j \in Items : \A m \in DOMAIN delivered[i], n \in DOMAIN delivered[j] :
        (rows[i].run = rows[j].run /\ delivered[i][m] = delivered[j][n]) => i = j

\* "Resume never took effect: roll back so a retry resumes once" (api/app/hitl.py):
\* a claim is rolled back only when its payload reached no gate.
RollbackOnlyUnsent == \A p \in Workers : pc[p] = "reopen" => ~ job[p].sent

\* "refuse to resume a stale payload into whatever the run is doing now"
\* (api/app/hitl.py): the payload built for one gate reaches no other gate.
DecisionReachesItsGate ==
    \A p \in Workers : pc[p] = "gate" => rows[job[p].item].gate = job[p].gate

=============================================================================
