----------------------------- MODULE HitlProofs -----------------------------
(***************************************************************************)
(* Proofs about Hitl for every set of workers and runs, every number of    *)
(* gates and rows: the inductive invariant IndInv, the safety invariants   *)
(* that follow from it, and the refinement of ApprovalLedger.              *)
(***************************************************************************)
EXTENDS Hitl, TLAPS

(* The recorded statuses are the images of the three actions: every decision *)
(* has a status of its own, different from "pending" and "absent".           *)
LEMMA StatusFacts ==
    /\ Actions = {"approve", "reject", "regenerate"}
    /\ Decided = {"approved", "rejected", "regenerate_requested"}
    /\ \A a \in Actions : ActionToStatus[a] \in Decided
    /\ \A a, b \in Actions : ActionToStatus[a] = ActionToStatus[b] => a = b
    /\ \A a \in Actions : ActionToStatus[a] # "pending" /\ ActionToStatus[a] # "absent"
  BY DEF Actions, ActionToStatus, Decided

-----------------------------------------------------------------------------
(* The fields of rows and of a call's locals.                               *)

(* A row built by ensure_pending is a row of the table. *)
LEMMA NewRow ==
    ASSUME NEW r \in Runs, NEW g \in Gates
    PROVE  [status |-> "pending", run |-> r, gate |-> g] \in Row
  BY HitlAssumption DEF Row, Gates

(* Claiming and reopening change the status of a row and nothing else of it. *)
LEMMA StatusUpdate ==
    ASSUME NEW w \in Row, NEW s \in {"absent", "pending"} \cup Decided
    PROVE  LET v == [w EXCEPT !.status = s]
           IN  v \in Row /\ v.status = s /\ v.run = w.run /\ v.gate = w.gate
  BY DEF Row

(* The fields a row can hold. *)
LEMMA RowFields ==
    ASSUME NEW w \in Row
    PROVE  /\ w.run \in Runs \cup {None}
           /\ w.gate \in 0 .. NGates
           /\ w.status \in {"absent", "pending"} \cup Decided
  BY DEF Row

(* The fields the locals of a call can hold. *)
LEMMA JobFields ==
    ASSUME NEW j \in Job
    PROVE  /\ j.run \in Runs \cup {None}
           /\ j.gate \in 0 .. NGates
           /\ j.item \in 0 .. MaxItems
           /\ j.intr \in 0 .. MaxInterrupts
           /\ j.action \in Actions \cup {"none"}
  BY DEF Job

(* The locals a call starts with. *)
LEMMA CallFields ==
    ASSUME NEW r \in Runs \cup {None}, NEW g \in 0 .. NGates,
           NEW i \in 0 .. MaxItems, NEW a \in Actions \cup {"none"}
    PROVE  LET k == Call(r, g, i, a)
           IN  k \in Job /\ k.run = r /\ k.gate = g /\ k.item = i /\ k.action = a
  BY HitlAssumption DEF Job, Call

LEMMA IdleFields == NoJob \in Job /\ NoJob.item = 0
  BY HitlAssumption DEF Job, NoJob, Call

(* Each update of the locals keeps the fields it does not name. *)
LEMMA GateUpdate ==
    ASSUME NEW j \in Job, NEW g \in 0 .. NGates
    PROVE  LET k == [j EXCEPT !.gate = g]
           IN  k \in Job /\ k.gate = g /\ k.run = j.run /\ k.item = j.item /\ k.action = j.action
  BY DEF Job

LEMMA SentUpdate ==
    ASSUME NEW j \in Job
    PROVE  LET k == [j EXCEPT !.sent = TRUE]
           IN  k \in Job /\ k.run = j.run /\ k.item = j.item /\ k.action = j.action
  BY DEF Job

-----------------------------------------------------------------------------
(* The invariant.                                                           *)

(* The initial state satisfies the inductive invariant. *)
LEMMA InitIndInv == Init => IndInv
  <1> SUFFICES ASSUME Init PROVE IndInv
    OBVIOUS
  <1> USE HitlAssumption DEF Init
  <1>1. TypeOK
    BY IdleFields DEF TypeOK, Row, Ckpt, NoRow, Pcs, Holding, Items
  <1>2. StoresWellFormed
    BY DEF StoresWellFormed, NoRow
  <1>3. JobsWellFormed
    BY IdleFields DEF JobsWellFormed, JobWellFormed
  <1>4. HeldUnaudited /\ UniqueOpenRow /\ ExclusiveClaim /\ AuditTrailAgrees
    BY DEF HeldUnaudited, UniqueOpenRow, ExclusiveClaim, AuditTrailAgrees, Holds, NoRow, Holding
  <1> QED
    BY <1>1, <1>2, <1>3, <1>4 DEF IndInv

(* The part of IndInv that relates the calls to the two tables. *)
CallsInv == JobsWellFormed /\ HeldUnaudited /\ UniqueOpenRow /\ ExclusiveClaim /\ AuditTrailAgrees

(* A step of one call that leaves the tables alone and takes no claim it does *)
(* not already own keeps the calls consistent with the tables.                *)
LEMMA LocalStep ==
    ASSUME TypeOK, CallsInv,
           NEW p \in Workers, NEW to \in Pcs, NEW j \in Job,
           JobWellFormed(to, j),
           to \in Holding /\ j.item # 0 =>
             pc[p] \in Holding /\ j.item = job[p].item /\ j.action = job[p].action,
           pc' = [pc EXCEPT ![p] = to],
           job' = [job EXCEPT ![p] = j],
           rows' = rows, audits' = audits
    PROVE  CallsInv' /\ pc' \in [Workers -> Pcs] /\ job' \in [Workers -> Job]
  <1>0. /\ pc \in [Workers -> Pcs] /\ job \in [Workers -> Job]
        /\ JobsWellFormed /\ HeldUnaudited /\ UniqueOpenRow /\ ExclusiveClaim /\ AuditTrailAgrees
    BY DEF TypeOK, CallsInv
  <1>1. pc' \in [Workers -> Pcs] /\ job' \in [Workers -> Job]
    BY <1>0
  <1>2. \A q \in Workers : /\ q = p => pc'[q] = to /\ job'[q] = j
                           /\ q # p => pc'[q] = pc[q] /\ job'[q] = job[q]
    BY <1>0
  <1>3. JobsWellFormed'
    BY <1>0, <1>2 DEF JobsWellFormed, JobWellFormed
  <1>4. \A q \in Workers : \A i \in Items : Holds(q, i)' => Holds(q, i)
    BY <1>2 DEF Holds, Items
  <1>5. HeldUnaudited'
    BY <1>0, <1>4 DEF HeldUnaudited
  <1>6. UniqueOpenRow' /\ AuditTrailAgrees'
    BY <1>0 DEF UniqueOpenRow, AuditTrailAgrees
  <1>7. ExclusiveClaim'
    BY <1>0, <1>2 DEF ExclusiveClaim, Holds
  <1> QED
    BY <1>1, <1>3, <1>5, <1>6, <1>7 DEF CallsInv

(* Such a step keeps the whole invariant when it leaves the checkpoints alone *)
(* too.                                                                       *)
LEMMA LocalOnlyStep ==
    ASSUME IndInv,
           NEW p \in Workers, NEW to \in Pcs, NEW j \in Job,
           JobWellFormed(to, j),
           to \in Holding /\ j.item # 0 =>
             pc[p] \in Holding /\ j.item = job[p].item /\ j.action = job[p].action,
           pc' = [pc EXCEPT ![p] = to],
           job' = [job EXCEPT ![p] = j],
           UNCHANGED <<tables, graph, delivered>>,
           faults' \in 0 .. MaxFaults, replays' \in 0 .. MaxReplays
    PROVE  IndInv'
  <1>1. TypeOK /\ StoresWellFormed /\ CallsInv
    BY DEF IndInv, CallsInv
  <1>2. rows' = rows /\ audits' = audits
    BY DEF tables
  <1>3. CallsInv' /\ pc' \in [Workers -> Pcs] /\ job' \in [Workers -> Job]
    BY <1>1, <1>2, LocalStep
  <1>4. TypeOK'
    BY <1>1, <1>2, <1>3 DEF TypeOK, graph
  <1>5. StoresWellFormed'
    BY <1>1, <1>2 DEF StoresWellFormed, graph
  <1> QED
    BY <1>3, <1>4, <1>5 DEF IndInv, CallsInv

(* A call that is over leaves the invariant as it is. *)
LEMMA FinishStep ==
    ASSUME IndInv, NEW p \in Workers, Finish(p),
           UNCHANGED <<tables, graph, delivered>>,
           faults' \in 0 .. MaxFaults, replays' \in 0 .. MaxReplays
    PROVE  IndInv'
  <1>1. JobWellFormed("idle", NoJob) /\ "idle" \in Pcs /\ "idle" \notin Holding
    BY IdleFields DEF JobWellFormed, Pcs, Holding
  <1> QED
    BY <1>1, IdleFields, LocalOnlyStep DEF Finish

(* A call that moves on without touching its locals keeps the invariant when *)
(* it held the claim before and the locals suffice for where it goes.        *)
LEMMA GotoStep ==
    ASSUME IndInv, NEW p \in Workers, NEW to \in Pcs, Goto(p, to),
           JobWellFormed(to, job[p]), pc[p] \in Holding,
           UNCHANGED <<tables, graph, job, delivered>>,
           faults' \in 0 .. MaxFaults, replays' \in 0 .. MaxReplays
    PROVE  IndInv'
  <1>1. job[p] \in Job /\ job' = [job EXCEPT ![p] = job[p]]
    BY DEF IndInv, TypeOK
  <1> QED
    BY <1>1, LocalOnlyStep DEF Goto

-----------------------------------------------------------------------------
(* The actions.                                                             *)

(* The queue scan and the reading half of decide write neither store. *)
LEMMA ScanKeeps ==
    ASSUME IndInv, NEW p \in Workers, NEW r \in Runs, Scan(p, r)
    PROVE  IndInv'
  <1> DEFINE k == Call(r, ckpt[r].at + 1, 0, "none")
  <1>1. ckpt[r].at \in 0 .. NGates /\ ckpt[r].at < NGates
    BY DEF IndInv, TypeOK, Ckpt, StoresWellFormed, Scan
  <1>2. k \in Job /\ k.run = r /\ k.gate \in Gates /\ k.item = 0
    <2>1. NGates \in Nat /\ MaxItems \in Nat
      BY HitlAssumption
    <2>2. ckpt[r].at + 1 \in Gates /\ ckpt[r].at + 1 \in 0 .. NGates /\ 0 \in 0 .. MaxItems
      BY <1>1, <2>1 DEF Gates
    <2>3. k = [run |-> r, gate |-> ckpt[r].at + 1, item |-> 0, action |-> "none",
               intr |-> 0, sent |-> FALSE]
      BY DEF Call
    <2> QED
      BY <2>2, <2>3, CallFields
  <1>3. JobWellFormed("insert", k) /\ "insert" \in Pcs /\ "insert" \notin Holding
    BY <1>2 DEF JobWellFormed, Pcs, Holding
  <1>4. UNCHANGED <<tables, graph, delivered>> /\ faults' = faults /\ replays' = replays
    BY DEF Scan, budget
  <1>5. faults' \in 0 .. MaxFaults /\ replays' \in 0 .. MaxReplays
    BY <1>4 DEF IndInv, TypeOK
  <1>6. pc' = [pc EXCEPT ![p] = "insert"] /\ job' = [job EXCEPT ![p] = k]
    BY DEF Scan, Goto
  <1> HIDE DEF k
  <1> QED
    BY <1>2, <1>3, <1>4, <1>5, <1>6, LocalOnlyStep

LEMMA BeginDecideKeeps ==
    ASSUME IndInv, NEW p \in Workers, NEW i \in Items, NEW a \in Choices, BeginDecide(p, i, a)
    PROVE  IndInv'
  <1> DEFINE k == Call(rows[i].run, rows[i].gate, i, a)
  <1>1. rows[i].run \in Runs /\ rows[i].gate \in 0 .. NGates /\ rows[i].status = "pending"
    BY RowFields DEF IndInv, TypeOK, StoresWellFormed, BeginDecide
  <1>2. i \in 0 .. MaxItems /\ i # 0 /\ a \in Actions
    BY HitlAssumption DEF Items
  <1>3. k \in Job /\ k.run = rows[i].run /\ k.item = i /\ k.action = a
    BY <1>1, <1>2, CallFields
  <1>4. JobWellFormed("check", k) /\ "check" \in Pcs /\ "check" \notin Holding
    BY <1>1, <1>2, <1>3 DEF JobWellFormed, Pcs, Holding
  <1>5. UNCHANGED <<tables, graph, delivered>> /\ faults' = faults /\ replays' = replays
    BY DEF BeginDecide, budget
  <1>6. faults' \in 0 .. MaxFaults /\ replays' \in 0 .. MaxReplays
    BY <1>5 DEF IndInv, TypeOK
  <1>7. pc' = [pc EXCEPT ![p] = "check"] /\ job' = [job EXCEPT ![p] = k]
    BY DEF BeginDecide, Goto
  <1> HIDE DEF k
  <1> QED
    BY <1>3, <1>4, <1>5, <1>6, <1>7, LocalOnlyStep

(* The steps that only end a call. *)
LEMMA EndingKeeps ==
    ASSUME IndInv, NEW p \in Workers, Refuse(p) \/ SelectPending(p) \/ AuditFails(p)
    PROVE  IndInv'
  <1>1. Finish(p) /\ UNCHANGED <<tables, graph, delivered>>
    BY DEF Refuse, SelectPending, AuditFails
  <1>2. faults' \in 0 .. MaxFaults /\ replays' \in 0 .. MaxReplays
    BY HitlAssumption DEF Refuse, SelectPending, AuditFails, Fault, budget, IndInv, TypeOK
  <1> QED
    BY <1>1, <1>2, FinishStep

LEMMA LiveCheckKeeps ==
    ASSUME IndInv, NEW p \in Workers, LiveCheck(p)
    PROVE  IndInv'
  <1>1. UNCHANGED <<tables, graph, delivered>>
    BY DEF LiveCheck
  <1>2. faults' \in 0 .. MaxFaults /\ replays' \in 0 .. MaxReplays
    BY DEF LiveCheck, budget, IndInv, TypeOK
  <1>3. CASE Finish(p)
    BY <1>1, <1>2, <1>3, FinishStep
  <1>4. CASE ~ Finish(p)
    <2>1. job[p] \in Job /\ JobWellFormed("check", job[p]) /\ job' = [job EXCEPT ![p] = job[p]]
      BY <1>4 DEF IndInv, TypeOK, JobsWellFormed, LiveCheck
    <2>2. JobWellFormed("claim", job[p]) /\ "claim" \in Pcs /\ "claim" \notin Holding
      BY <2>1 DEF JobWellFormed, Pcs, Holding
    <2>3. pc' = [pc EXCEPT ![p] = "claim"]
      BY <1>4 DEF LiveCheck, Goto
    <2> QED
      BY <1>1, <1>2, <2>1, <2>2, <2>3, LocalOnlyStep
  <1> QED
    BY <1>3, <1>4

(* The resume either re-executes the paused gate, re-runs a segment or finds *)
(* the graph at its end.                                                     *)
LEMMA ResumeKeeps ==
    ASSUME IndInv, NEW p \in Workers, Resume(p)
    PROVE  IndInv'
  <1> DEFINE c == ckpt[job[p].run]
  <1>1. UNCHANGED <<tables, graph, delivered>> /\ pc[p] = "resume" /\ "resume" \in Holding
    BY DEF Resume, Holding
  <1>2. faults' \in 0 .. MaxFaults /\ replays' \in 0 .. MaxReplays
    BY DEF Resume, budget, IndInv, TypeOK
  <1>3. job[p] \in Job /\ job[p].run \in Runs /\ JobWellFormed("resume", job[p])
    BY <1>1 DEF IndInv, TypeOK, JobsWellFormed, JobWellFormed
  <1>4. c.at \in 0 .. NGates /\ c.intr \in 0 .. MaxInterrupts
    BY <1>3 DEF IndInv, TypeOK, Ckpt
  <1>5. CASE c.phase = "paused"
    <2> DEFINE g == c.at + 1
               n == c.intr
               k == [job[p] EXCEPT !.gate = g, !.intr = n]
    <2>1. g \in Gates /\ g \in 0 .. NGates /\ n \in 0 .. MaxInterrupts
      BY <1>3, <1>4, <1>5, HitlAssumption DEF IndInv, StoresWellFormed, Gates
    <2>2. pc' = [pc EXCEPT ![p] = "gate"] /\ job' = [job EXCEPT ![p] = k]
      BY <1>5 DEF Resume, Goto
    <2> HIDE DEF g, n
    <2>3. k \in Job /\ k.gate = g /\ k.intr = n
          /\ k.run = job[p].run /\ k.item = job[p].item /\ k.action = job[p].action
      <3>1. job[p] \in Job /\ g \in 0 .. NGates /\ n \in 0 .. MaxInterrupts
        BY <1>3, <2>1
      <3> QED
        BY ONLY <3>1 DEF Job, k
    <2>4. JobWellFormed("gate", k) /\ "gate" \in Pcs
      BY <1>3, <2>1, <2>3 DEF JobWellFormed, Pcs, Holding
    <2> HIDE DEF k
    <2> QED
      BY <1>1, <1>2, <2>2, <2>3, <2>4, LocalOnlyStep
  <1>6. CASE c.phase = "running"
    <2>1. CASE c.at < NGates /\ Goto(p, "gate") /\ job' = [job EXCEPT ![p] = [@ EXCEPT !.gate = c.at + 1]]
      <3> DEFINE g == c.at + 1
                 k == [job[p] EXCEPT !.gate = g]
      <3>1. g \in Gates /\ g \in 0 .. NGates
        BY <1>4, <2>1, HitlAssumption DEF Gates
      <3>2. pc' = [pc EXCEPT ![p] = "gate"] /\ job' = [job EXCEPT ![p] = k]
        BY <2>1 DEF Goto
      <3> HIDE DEF g
      <3>3. k \in Job /\ k.gate = g /\ k.run = job[p].run /\ k.item = job[p].item
            /\ k.action = job[p].action
        BY <1>3, <3>1, GateUpdate
      <3>4. JobWellFormed("gate", k) /\ "gate" \in Pcs
        BY <1>3, <3>1, <3>3 DEF JobWellFormed, Pcs, Holding
      <3> HIDE DEF k, c
      <3> QED
        BY <1>1, <1>2, <3>2, <3>3, <3>4, LocalOnlyStep
    <2>2. CASE Goto(p, "segment") /\ job' = [job EXCEPT ![p] = [@ EXCEPT !.gate = c.at]]
      <3> DEFINE k == [job[p] EXCEPT !.gate = c.at]
      <3>1. k \in Job /\ k.run = job[p].run /\ k.item = job[p].item /\ k.action = job[p].action
        BY <1>3, <1>4, GateUpdate
      <3>2. JobWellFormed("segment", k) /\ "segment" \in Pcs
        BY <1>3, <3>1 DEF JobWellFormed, Pcs, Holding
      <3>3. pc' = [pc EXCEPT ![p] = "segment"] /\ job' = [job EXCEPT ![p] = k]
        BY <2>2 DEF Goto
      <3> HIDE DEF k, c
      <3> QED
        BY <1>1, <1>2, <3>1, <3>2, <3>3, LocalOnlyStep
    <2> QED
      BY <1>6, <2>1, <2>2 DEF Resume
  <1>7. CASE c.phase = "done"
    <2>1. Goto(p, "audit") /\ job' = job /\ "audit" \in Pcs
      BY <1>7 DEF Resume, Pcs, Holding
    <2>2. JobWellFormed("audit", job[p])
      BY <1>3 DEF JobWellFormed
    <2> QED
      BY <1>1, <1>2, <2>1, <2>2, GotoStep
  <1> QED
    BY <1>5, <1>6, <1>7 DEF Resume

(* A node that raises leaves both stores alone. *)
LEMMA RaisingKeeps ==
    ASSUME IndInv, NEW p \in Workers, GateRaises(p) \/ SegmentRaises(p)
    PROVE  IndInv'
  <1>1. UNCHANGED <<tables, graph, delivered>> /\ pc[p] \in Holding
    BY DEF GateRaises, SegmentRaises, Holding
  <1>2. faults' \in 0 .. MaxFaults /\ replays' \in 0 .. MaxReplays
    BY HitlAssumption DEF GateRaises, SegmentRaises, Fault, IndInv, TypeOK
  <1>3. CASE Goto(p, "reopen") /\ job' = job /\ job[p].item # 0
    <2>1. JobWellFormed(pc[p], job[p]) /\ pc[p] # "idle"
      BY <1>1 DEF IndInv, JobsWellFormed, Holding
    <2>2. JobWellFormed("reopen", job[p]) /\ "reopen" \in Pcs
      BY <1>3, <2>1 DEF JobWellFormed, Pcs, Holding
    <2> QED
      BY <1>1, <1>2, <1>3, <2>2, GotoStep
  <1>4. CASE Finish(p)
    BY <1>1, <1>2, <1>4, FinishStep
  <1>5. job[p].item # 0 \/ SegmentRaises(p)
    BY DEF GateRaises, IndInv, JobsWellFormed, JobWellFormed
  <1> QED
    BY <1>3, <1>4, <1>5 DEF GateRaises, SegmentRaises

-----------------------------------------------------------------------------
(* The steps that write a checkpoint.                                       *)

(* A step of one call that writes the checkpoint of its run. *)
LEMMA GraphStep ==
    ASSUME IndInv,
           NEW p \in Workers, NEW to \in Pcs, NEW j \in Job,
           JobWellFormed(to, j),
           to \in Holding /\ j.item # 0 =>
             pc[p] \in Holding /\ j.item = job[p].item /\ j.action = job[p].action,
           pc' = [pc EXCEPT ![p] = to],
           job' = [job EXCEPT ![p] = j],
           UNCHANGED tables,
           NEW r \in Runs, NEW c \in Ckpt, ckpt' = [ckpt EXCEPT ![r] = c],
           c.phase = "paused" => c.at < NGates,
           raised' \in [Runs -> 0 .. MaxInterrupts],
           reached' \in [Runs -> 0 .. NGates],
           delivered' \in [Items -> Seq(1 .. MaxInterrupts)],
           UNCHANGED faults, replays' \in 0 .. MaxReplays
    PROVE  IndInv'
  <1>1. TypeOK /\ StoresWellFormed /\ CallsInv
    BY DEF IndInv, CallsInv
  <1>2. rows' = rows /\ audits' = audits
    BY DEF tables
  <1>3. CallsInv' /\ pc' \in [Workers -> Pcs] /\ job' \in [Workers -> Job]
    BY <1>1, <1>2, LocalStep
  <1>4. ckpt \in [Runs -> Ckpt] /\ ckpt' \in [Runs -> Ckpt]
    BY <1>1 DEF TypeOK
  <1>5. TypeOK'
    BY <1>1, <1>2, <1>3, <1>4 DEF TypeOK
  <1>6. \A s \in Runs : ckpt'[s] = IF s = r THEN c ELSE ckpt[s]
    BY <1>4
  <1>7. StoresWellFormed'
    BY <1>1, <1>2, <1>6 DEF StoresWellFormed
  <1> QED
    BY <1>3, <1>5, <1>7 DEF IndInv, CallsInv

(* The checkpoints the code writes. *)
LEMMA NewCkpt ==
    ASSUME NEW ph \in {"new", "running", "paused", "done"}, NEW n \in 0 .. NGates,
           NEW m \in 0 .. MaxInterrupts
    PROVE  LET c == [phase |-> ph, at |-> n, intr |-> m]
           IN  c \in Ckpt /\ c.phase = ph /\ c.at = n /\ c.intr = m
  BY DEF Ckpt

LEMMA StartKeeps ==
    ASSUME IndInv, NEW p \in Workers, NEW r \in Runs, Start(p, r)
    PROVE  IndInv'
  <1> DEFINE k == Call(r, 0, 0, "none")
             c == [phase |-> "running", at |-> 0, intr |-> 0]
  <1>1. k \in Job /\ k.run = r /\ k.item = 0
    BY CallFields, HitlAssumption
  <1>2. c \in Ckpt /\ c.phase # "paused"
    BY NewCkpt, HitlAssumption
  <1>3. JobWellFormed("segment", k) /\ "segment" \in Pcs
    BY <1>1 DEF JobWellFormed, Pcs, Holding
  <1>4. pc' = [pc EXCEPT ![p] = "segment"] /\ job' = [job EXCEPT ![p] = k]
        /\ ckpt' = [ckpt EXCEPT ![r] = c] /\ UNCHANGED tables
    BY DEF Start, Goto
  <1>5. /\ raised' \in [Runs -> 0 .. MaxInterrupts] /\ reached' \in [Runs -> 0 .. NGates]
        /\ delivered' \in [Items -> Seq(1 .. MaxInterrupts)]
        /\ UNCHANGED faults /\ replays' \in 0 .. MaxReplays
    BY DEF Start, budget, IndInv, TypeOK
  <1> HIDE DEF k, c
  <1> QED
    BY <1>1, <1>2, <1>3, <1>4, <1>5, GraphStep

LEMMA ReplayKeeps ==
    ASSUME IndInv, NEW p \in Workers, NEW r \in Runs, NEW h \in 0 .. NGates, Replay(p, r, h)
    PROVE  IndInv'
  <1> DEFINE k == Call(r, h, 0, "none")
             c == [phase |-> "running", at |-> h, intr |-> 0]
  <1>1. k \in Job /\ k.run = r /\ k.item = 0
    BY CallFields, HitlAssumption
  <1>2. c \in Ckpt /\ c.phase # "paused"
    BY NewCkpt, HitlAssumption
  <1>3. JobWellFormed("segment", k) /\ "segment" \in Pcs
    BY <1>1 DEF JobWellFormed, Pcs, Holding
  <1>4. pc' = [pc EXCEPT ![p] = "segment"] /\ job' = [job EXCEPT ![p] = k]
        /\ ckpt' = [ckpt EXCEPT ![r] = c] /\ UNCHANGED tables
    BY DEF Replay, Goto
  <1>5. /\ raised' \in [Runs -> 0 .. MaxInterrupts] /\ reached' \in [Runs -> 0 .. NGates]
        /\ delivered' \in [Items -> Seq(1 .. MaxInterrupts)] /\ UNCHANGED faults
    BY DEF Replay, IndInv, TypeOK
  <1>6. replays' \in 0 .. MaxReplays
    BY HitlAssumption DEF Replay, IndInv, TypeOK
  <1> HIDE DEF k, c
  <1> QED
    BY <1>1, <1>2, <1>3, <1>4, <1>5, <1>6, GraphStep

(* The gate returns: the checkpoint moves past it and the payload is recorded *)
(* as delivered.                                                              *)
LEMMA GateReturnsKeeps ==
    ASSUME IndInv, NEW p \in Workers, GateReturns(p)
    PROVE  IndInv'
  <1> DEFINE k == [job[p] EXCEPT !.sent = TRUE]
             c == [phase |-> "running", at |-> job[p].gate, intr |-> 0]
  <1>1. job[p] \in Job /\ JobWellFormed("gate", job[p]) /\ pc[p] = "gate" /\ "gate" \in Holding
    BY DEF GateReturns, IndInv, TypeOK, JobsWellFormed, Holding
  <1>2. /\ job[p].run \in Runs /\ job[p].gate \in 0 .. NGates /\ job[p].item \in Items
        /\ job[p].intr \in 0 .. MaxInterrupts
    BY <1>1, JobFields, HitlAssumption DEF JobWellFormed, Items
  <1>3. k \in Job /\ k.run = job[p].run /\ k.item = job[p].item /\ k.action = job[p].action
    BY <1>1, SentUpdate
  <1>4. c \in Ckpt /\ c.phase # "paused"
    BY <1>2, NewCkpt, HitlAssumption
  <1>5. JobWellFormed("segment", k) /\ "segment" \in Pcs
    BY <1>1, <1>3 DEF JobWellFormed, Pcs, Holding
  <1>6. pc' = [pc EXCEPT ![p] = "segment"] /\ job' = [job EXCEPT ![p] = k]
        /\ ckpt' = [ckpt EXCEPT ![job[p].run] = c] /\ UNCHANGED tables
    BY DEF GateReturns, Goto
  <1>7. reached' \in [Runs -> 0 .. NGates]
    BY <1>2 DEF GateReturns, Higher, IndInv, TypeOK
  <1>8. delivered' \in [Items -> Seq(1 .. MaxInterrupts)]
    <2>1. delivered \in [Items -> Seq(1 .. MaxInterrupts)]
      BY DEF IndInv, TypeOK
    <2>2. ASSUME job[p].intr # 0
          PROVE  Append(delivered[job[p].item], job[p].intr) \in Seq(1 .. MaxInterrupts)
      BY <1>2, <2>1, <2>2, HitlAssumption
    <2> QED
      BY <1>2, <2>1, <2>2 DEF GateReturns
  <1>9. raised' \in [Runs -> 0 .. MaxInterrupts] /\ UNCHANGED faults /\ replays' \in 0 .. MaxReplays
    BY DEF GateReturns, budget, IndInv, TypeOK
  <1> HIDE DEF k, c
  <1> QED
    BY <1>1, <1>2, <1>3, <1>4, <1>5, <1>6, <1>7, <1>8, <1>9, GraphStep

(* invoke returns: a decide call goes on to its audit, any other call ends. *)
LEMMA InvokeReturnsPlace ==
    ASSUME IndInv, NEW p \in Workers, pc[p] = "segment", InvokeReturns(p)
    PROVE  \E to \in Pcs, j \in Job :
              /\ JobWellFormed(to, j)
              /\ to \in Holding /\ j.item # 0 =>
                   pc[p] \in Holding /\ j.item = job[p].item /\ j.action = job[p].action
              /\ pc' = [pc EXCEPT ![p] = to]
              /\ job' = [job EXCEPT ![p] = j]
  <1>1. job \in [Workers -> Job] /\ job[p] \in Job /\ JobWellFormed("segment", job[p])
        /\ pc[p] \in Holding
    BY DEF IndInv, TypeOK, JobsWellFormed, Holding
  <1>2. CASE job[p].item # 0
    <2>1. pc' = [pc EXCEPT ![p] = "audit"] /\ job' = [job EXCEPT ![p] = job[p]]
      BY <1>1, <1>2 DEF InvokeReturns, Goto
    <2>2. JobWellFormed("audit", job[p]) /\ "audit" \in Pcs
      BY <1>1, <1>2 DEF JobWellFormed, Pcs, Holding
    <2> QED
      BY <1>1, <2>1, <2>2
  <1>3. CASE job[p].item = 0
    <2>1. pc' = [pc EXCEPT ![p] = "idle"] /\ job' = [job EXCEPT ![p] = NoJob]
      BY <1>3 DEF InvokeReturns, Finish
    <2>2. JobWellFormed("idle", NoJob) /\ "idle" \in Pcs
      BY IdleFields DEF JobWellFormed, Pcs
    <2> QED
      BY IdleFields, <2>1, <2>2
  <1> QED
    BY <1>2, <1>3

LEMMA SegmentPausesKeeps ==
    ASSUME IndInv, NEW p \in Workers, NEW g \in Gates, SegmentPauses(p, g)
    PROVE  IndInv'
  <1> DEFINE r == job[p].run
             n == raised[r] + 1
             c == [phase |-> "paused", at |-> g - 1, intr |-> n]
  <1>1. r \in Runs /\ pc[p] = "segment"
    BY DEF SegmentPauses, IndInv, JobsWellFormed, JobWellFormed
  <1>2. g - 1 \in 0 .. NGates /\ g - 1 < NGates /\ n \in 0 .. MaxInterrupts
    BY <1>1, HitlAssumption DEF SegmentPauses, IndInv, TypeOK, Gates
  <1>3. PICK to \in Pcs, j \in Job :
              /\ JobWellFormed(to, j)
              /\ to \in Holding /\ j.item # 0 =>
                   pc[p] \in Holding /\ j.item = job[p].item /\ j.action = job[p].action
              /\ pc' = [pc EXCEPT ![p] = to]
              /\ job' = [job EXCEPT ![p] = j]
    BY <1>1, InvokeReturnsPlace DEF SegmentPauses
  <1>4. raised' \in [Runs -> 0 .. MaxInterrupts]
    BY <1>1, <1>2 DEF SegmentPauses, IndInv, TypeOK
  <1>5. reached' \in [Runs -> 0 .. NGates]
    BY <1>1, <1>2 DEF SegmentPauses, Higher, IndInv, TypeOK
  <1>6. /\ ckpt' = [ckpt EXCEPT ![r] = c] /\ UNCHANGED tables
        /\ UNCHANGED faults /\ replays' \in 0 .. MaxReplays
        /\ delivered' \in [Items -> Seq(1 .. MaxInterrupts)]
    BY DEF SegmentPauses, budget, IndInv, TypeOK
  <1> HIDE DEF n
  <1>7. c \in Ckpt /\ c.at = g - 1
    BY <1>2, NewCkpt
  <1> HIDE DEF c, r
  <1> QED
    BY <1>1, <1>2, <1>3, <1>4, <1>5, <1>6, <1>7, GraphStep

LEMMA SegmentEndsKeeps ==
    ASSUME IndInv, NEW p \in Workers, SegmentEnds(p)
    PROVE  IndInv'
  <1> DEFINE r == job[p].run
             c == [phase |-> "done", at |-> NGates, intr |-> 0]
  <1>1. r \in Runs /\ pc[p] = "segment"
    BY DEF SegmentEnds, IndInv, JobsWellFormed, JobWellFormed
  <1>2. c \in Ckpt /\ c.phase # "paused"
    BY NewCkpt, HitlAssumption
  <1>3. PICK to \in Pcs, j \in Job :
              /\ JobWellFormed(to, j)
              /\ to \in Holding /\ j.item # 0 =>
                   pc[p] \in Holding /\ j.item = job[p].item /\ j.action = job[p].action
              /\ pc' = [pc EXCEPT ![p] = to]
              /\ job' = [job EXCEPT ![p] = j]
    BY <1>1, InvokeReturnsPlace DEF SegmentEnds
  <1>4. raised' \in [Runs -> 0 .. MaxInterrupts] /\ reached' \in [Runs -> 0 .. NGates]
    BY <1>1, HitlAssumption DEF SegmentEnds, IndInv, TypeOK
  <1>5. /\ ckpt' = [ckpt EXCEPT ![r] = c] /\ UNCHANGED tables
        /\ UNCHANGED faults /\ replays' \in 0 .. MaxReplays
        /\ delivered' \in [Items -> Seq(1 .. MaxInterrupts)]
    BY DEF SegmentEnds, budget, IndInv, TypeOK
  <1> HIDE DEF c, r
  <1> QED
    BY <1>1, <1>2, <1>3, <1>4, <1>5, GraphStep

-----------------------------------------------------------------------------
(* The steps that write the two tables.                                     *)

(* What is left of IndInv once calls and tables are settled: the graph side  *)
(* does not change.                                                          *)
LEMMA TablesStep ==
    ASSUME IndInv,
           rows' \in [Items -> Row], audits' \in [Items -> Seq(Actions)],
           pc' \in [Workers -> Pcs], job' \in [Workers -> Job],
           \A i \in Items : rows'[i].status # "absent" => rows'[i].run \in Runs /\ rows'[i].gate \in Gates,
           CallsInv',
           UNCHANGED <<graph, delivered>>,
           faults' \in 0 .. MaxFaults, replays' \in 0 .. MaxReplays
    PROVE  IndInv'
  <1>1. TypeOK /\ StoresWellFormed
    BY DEF IndInv
  <1>2. TypeOK'
    BY <1>1 DEF TypeOK, graph
  <1>3. StoresWellFormed'
    BY <1>1 DEF StoresWellFormed, graph
  <1> QED
    BY <1>2, <1>3 DEF IndInv, CallsInv

(* An audited row is decided; the call that audits it is over. *)
LEMMA AuditKeeps ==
    ASSUME IndInv, NEW p \in Workers, Audit(p)
    PROVE  IndInv'
  <1> DEFINE i == job[p].item
  <1>0. TypeOK /\ StoresWellFormed /\ CallsInv
    BY DEF IndInv, CallsInv
  <1>1. job[p] \in Job /\ pc[p] = "audit" /\ JobWellFormed("audit", job[p])
    BY DEF Audit, IndInv, TypeOK, JobsWellFormed
  <1>2. i \in Items /\ i # 0 /\ job[p].action \in Actions /\ Holds(p, i) /\ audits[i] = <<>>
    BY <1>1, JobFields, HitlAssumption
       DEF JobWellFormed, Items, Holds, Holding, IndInv, HeldUnaudited
  <1>3. rows[i].status = ActionToStatus[job[p].action] /\ \A q \in Workers : Holds(q, i) => p = q
    BY <1>2 DEF IndInv, ExclusiveClaim
  <1>4. rows' = rows /\ UNCHANGED <<graph, delivered>>
        /\ faults' \in 0 .. MaxFaults /\ replays' \in 0 .. MaxReplays
    BY DEF Audit, budget, IndInv, TypeOK
  <1>5. audits \in [Items -> Seq(Actions)] /\ pc \in [Workers -> Pcs] /\ job \in [Workers -> Job]
    BY DEF IndInv, TypeOK
  <1>6. /\ \A q \in Workers : /\ q = p => pc'[q] = "idle" /\ job'[q] = NoJob
                              /\ q # p => pc'[q] = pc[q] /\ job'[q] = job[q]
        /\ pc' \in [Workers -> Pcs] /\ job' \in [Workers -> Job]
    BY <1>5, IdleFields DEF Audit, Finish, Pcs
  <1>7. audits' = [audits EXCEPT ![i] = Append(@, job[p].action)]
    BY DEF Audit
  <1>8. Append(audits[i], job[p].action) = <<job[p].action>>
    BY <1>2
  <1>9. /\ audits'[i] = <<job[p].action>>
        /\ \A k \in Items : k # i => audits'[k] = audits[k]
        /\ audits' \in [Items -> Seq(Actions)]
    BY <1>2, <1>5, <1>7, <1>8
  <1> HIDE DEF i
  <1>10. JobsWellFormed'
    BY <1>0, <1>4, <1>6, IdleFields DEF CallsInv, JobsWellFormed, JobWellFormed
  <1>11. \A q \in Workers : \A k \in Items : Holds(q, k)' => Holds(q, k) /\ k # i
    BY <1>2, <1>3, <1>6 DEF Holds, Holding
  <1>12. HeldUnaudited'
    BY <1>0, <1>9, <1>11 DEF CallsInv, HeldUnaudited
  <1>13. UniqueOpenRow'
    BY <1>0, <1>4 DEF CallsInv, UniqueOpenRow
  <1>14. ExclusiveClaim'
    BY <1>0, <1>4, <1>6, IdleFields DEF CallsInv, ExclusiveClaim, Holds
  <1>15. AuditTrailAgrees'
    <2>1. Len(<<job[p].action>>) = 1 /\ <<job[p].action>>[1] = job[p].action
      OBVIOUS
    <2> QED
      BY <1>0, <1>3, <1>4, <1>9, <2>1 DEF CallsInv, AuditTrailAgrees
  <1>16. CallsInv'
    BY <1>10, <1>12, <1>13, <1>14, <1>15 DEF CallsInv
  <1>17. \A k \in Items : rows'[k].status # "absent" => rows'[k].run \in Runs /\ rows'[k].gate \in Gates
    BY <1>0, <1>4 DEF StoresWellFormed
  <1>18. rows' \in [Items -> Row]
    BY <1>0, <1>4 DEF TypeOK
  <1> QED
    BY <1>4, <1>6, <1>9, <1>16, <1>17, <1>18, TablesStep

(* Only a decided row is audited. *)
LEMMA AuditedDecided ==
    ASSUME TypeOK, AuditTrailAgrees, NEW i \in Items, rows[i].status \notin Decided
    PROVE  audits[i] = <<>>
  <1> SUFFICES ASSUME audits[i] # <<>> PROVE FALSE
    OBVIOUS
  <1>1. audits[i] \in Seq(Actions) /\ Len(audits[i]) = 1
        /\ rows[i].status = ActionToStatus[audits[i][1]]
    BY DEF TypeOK, AuditTrailAgrees
  <1>2. audits[i][1] \in Actions
    BY <1>1
  <1> QED
    BY <1>1, <1>2, StatusFacts

(* A new open row: the index had none for this gate, and nobody works on a *)
(* row that did not exist.                                                  *)
LEMMA InsertKeeps ==
    ASSUME IndInv, NEW p \in Workers, InsertPending(p)
    PROVE  IndInv'
  <1>0. TypeOK /\ StoresWellFormed /\ CallsInv
    BY DEF IndInv, CallsInv
  <1>1. job[p] \in Job /\ pc[p] = "insert" /\ JobWellFormed("insert", job[p])
    BY DEF InsertPending, IndInv, TypeOK, JobsWellFormed
  <1>2. job[p].run \in Runs /\ job[p].gate \in Gates
    BY <1>1 DEF JobWellFormed
  <1>3. UNCHANGED <<audits, graph, job, delivered>>
        /\ faults' \in 0 .. MaxFaults /\ replays' \in 0 .. MaxReplays
    BY DEF InsertPending, budget, IndInv, TypeOK
  <1>4. pc' = [pc EXCEPT ![p] = "select"] /\ "select" \in Pcs /\ "select" \notin Holding
    BY DEF InsertPending, Goto, Pcs, Holding
  <1>5. CASE rows' = rows
    <2>1. JobWellFormed("select", job[p]) /\ job' = [job EXCEPT ![p] = job[p]]
      BY <1>0, <1>1, <1>3 DEF JobWellFormed, TypeOK
    <2> QED
      BY <1>1, <1>3, <1>4, <1>5, <2>1, LocalOnlyStep DEF tables
  <1>6. CASE rows' # rows
    <2> DEFINE new == [status |-> "pending", run |-> job[p].run, gate |-> job[p].gate]
    <2>1. PendingRows(job[p].run, job[p].gate) = {}
      BY <1>6 DEF InsertPending
    <2>2. PICK i \in Items : rows[i].status = "absent" /\ rows' = [rows EXCEPT ![i] = new]
      BY <1>6 DEF InsertPending
    <2>3. new \in Row /\ new.status = "pending" /\ new.run = job[p].run /\ new.gate = job[p].gate
      BY <1>2, NewRow
    <2> HIDE DEF new
    <2>4. /\ rows'[i] = new
          /\ \A k \in Items : k # i => rows'[k] = rows[k]
          /\ rows' \in [Items -> Row]
      BY <1>0, <2>2, <2>3 DEF TypeOK
    <2>5. \A q \in Workers : /\ q = p => pc'[q] = "select"
                             /\ q # p => pc'[q] = pc[q]
      BY <1>0, <1>4 DEF TypeOK
    <2>6. \A q \in Workers : job[q].item # 0 => job[q].item \in Items /\ job[q].item # i
                                                /\ job[q].action \in Actions
      BY <1>0, <2>2, JobFields, HitlAssumption
         DEF CallsInv, TypeOK, JobsWellFormed, JobWellFormed, Items
    <2>7. JobsWellFormed'
      <3>1. ASSUME NEW q \in Workers
            PROVE  JobWellFormed(pc[q], job[q])' 
        <4>1. JobWellFormed(pc[q], job[q])
          BY <1>0 DEF CallsInv, JobsWellFormed
        <4>2. job'[q] = job[q] /\ (job[q].item # 0 => rows'[job[q].item] = rows[job[q].item])
          BY <1>3, <2>4, <2>6
        <4> QED
          BY <1>2, <2>5, <4>1, <4>2 DEF JobWellFormed
      <3> QED
        BY <3>1 DEF JobsWellFormed
    <2>8. \A q \in Workers : \A k \in Items : Holds(q, k)' => Holds(q, k)
      BY <1>3, <1>4, <2>5 DEF Holds
    <2>9. HeldUnaudited'
      BY <1>0, <1>3, <2>8 DEF CallsInv, HeldUnaudited
    <2>10. UniqueOpenRow'
      BY <1>0, <2>1, <2>3, <2>4 DEF CallsInv, UniqueOpenRow, PendingRows, IsPending
    <2>11. ExclusiveClaim'
      BY <1>0, <1>3, <1>4, <2>4, <2>5, <2>6 DEF CallsInv, ExclusiveClaim, Holds
    <2>12. AuditTrailAgrees'
      <3>1. audits[i] = <<>>
        BY <1>0, <2>2, StatusFacts, AuditedDecided DEF CallsInv
      <3> QED
        BY <1>0, <1>3, <2>4, <3>1 DEF CallsInv, AuditTrailAgrees
    <2>13. CallsInv'
      BY <2>7, <2>9, <2>10, <2>11, <2>12 DEF CallsInv
    <2>14. \A k \in Items : rows'[k].status # "absent" => rows'[k].run \in Runs /\ rows'[k].gate \in Gates
      BY <1>0, <1>2, <2>3, <2>4 DEF StoresWellFormed
    <2>15. pc' \in [Workers -> Pcs] /\ job' \in [Workers -> Job] /\ audits' \in [Items -> Seq(Actions)]
      BY <1>0, <1>3, <1>4 DEF TypeOK
    <2> QED
      BY <1>3, <2>4, <2>13, <2>14, <2>15, TablesStep
  <1> QED
    BY <1>5, <1>6

(* The winner of a claim finds the row open, so nobody held it and it was not *)
(* audited; the loser only returns.                                           *)
LEMMA ClaimKeeps ==
    ASSUME IndInv, NEW p \in Workers, Claim(p)
    PROVE  IndInv'
  <1> DEFINE i == job[p].item
             a == job[p].action
             new == [rows[i] EXCEPT !.status = ActionToStatus[a]]
  <1>0. TypeOK /\ StoresWellFormed /\ CallsInv
    BY DEF IndInv, CallsInv
  <1>1. UNCHANGED <<audits, graph, delivered>>
        /\ faults' \in 0 .. MaxFaults /\ replays' \in 0 .. MaxReplays
    BY DEF Claim, budget, IndInv, TypeOK
  <1>2. job[p] \in Job /\ pc[p] = "claim" /\ JobWellFormed("claim", job[p])
    BY DEF Claim, IndInv, TypeOK, JobsWellFormed
  <1>3. i \in Items /\ i # 0 /\ a \in Actions
    BY <1>2, JobFields, HitlAssumption DEF JobWellFormed, Items
  <1>4. CASE rows[i].status # "pending"
    <2>1. Finish(p) /\ UNCHANGED <<tables, graph, delivered>>
      BY <1>1, <1>4 DEF Claim, tables
    <2> QED
      BY <1>1, <2>1, FinishStep
  <1>5. CASE rows[i].status = "pending"
    <2>1. job' = job /\ pc' = [pc EXCEPT ![p] = "resume"] /\ rows' = [rows EXCEPT ![i] = new]
          /\ "resume" \in Pcs
      BY <1>5 DEF Claim, Goto, SetStatus, Pcs, Holding
    <2>2. ActionToStatus[a] \in Decided /\ rows[i] \in Row
      BY <1>0, <1>3, StatusFacts DEF TypeOK
    <2>3. new \in Row /\ new.status = ActionToStatus[a] /\ new.run = rows[i].run
          /\ new.gate = rows[i].gate
      BY <2>2, StatusUpdate
    <2>4. new.status # "pending" /\ new.status # "absent"
      BY <1>3, <2>3, StatusFacts
    <2> HIDE DEF new
    <2>5. /\ rows'[i] = new
          /\ \A k \in Items : k # i => rows'[k] = rows[k]
          /\ rows' \in [Items -> Row]
      BY <1>0, <1>3, <2>1, <2>3 DEF TypeOK
    <2>6. \A q \in Workers : /\ q = p => pc'[q] = "resume"
                             /\ q # p => pc'[q] = pc[q]
      BY <1>0, <2>1 DEF TypeOK
    <2>7. \A q \in Workers : job[q].item # 0 => job[q].item \in Items /\ job[q].action \in Actions
      BY <1>0, JobFields, HitlAssumption DEF CallsInv, TypeOK, JobsWellFormed, JobWellFormed, Items
    <2>8. \A q \in Workers : ~ Holds(q, i)
      BY <1>0, <1>3, <1>5, <2>7, StatusFacts DEF CallsInv, ExclusiveClaim, Holds
    <2>9. \A q \in Workers : \A k \in Items : Holds(q, k)' => (q = p /\ k = i) \/ (Holds(q, k) /\ k # i)
      BY <2>1, <2>6, <2>8 DEF Holds
    <2>10. audits[i] = <<>>
      BY <1>0, <1>3, <1>5, StatusFacts, AuditedDecided DEF CallsInv
    <2>11. JobsWellFormed'
      <3>1. ASSUME NEW q \in Workers
            PROVE  JobWellFormed(pc[q], job[q])'
        <4>1. JobWellFormed(pc[q], job[q])
          BY <1>0 DEF CallsInv, JobsWellFormed
        <4>2. job[q].item # 0 => rows'[job[q].item].status # "absent"
          BY <2>4, <2>5, <2>7, <4>1 DEF JobWellFormed
        <4> QED
          BY <1>2, <2>1, <2>6, <4>1, <4>2 DEF JobWellFormed
      <3> QED
        BY <3>1 DEF JobsWellFormed
    <2>12. HeldUnaudited'
      BY <1>0, <1>1, <2>9, <2>10 DEF CallsInv, HeldUnaudited
    <2>13. UniqueOpenRow'
      BY <1>0, <2>4, <2>5 DEF CallsInv, UniqueOpenRow
    <2>14. ExclusiveClaim'
      <3>1. ASSUME NEW q \in Workers, NEW s \in Workers, Holds(q, job[q].item)', job'[q].item # 0
            PROVE  /\ rows'[job'[q].item].status = ActionToStatus[job'[q].action]
                   /\ Holds(s, job[q].item)' => q = s
        <4>1. job[q].item \in Items /\ job' = job
          BY <2>1, <2>7, <3>1
        <4>2. CASE job[q].item = i
          BY <2>3, <2>5, <2>9, <3>1, <4>1, <4>2
        <4>3. CASE job[q].item # i
          <5>1. Holds(q, job[q].item) /\ (Holds(s, job[q].item)' => Holds(s, job[q].item))
            BY <2>9, <3>1, <4>1, <4>3
          <5> QED
            BY <1>0, <2>5, <3>1, <4>1, <4>3, <5>1 DEF CallsInv, ExclusiveClaim
        <4> QED
          BY <4>2, <4>3
      <3> QED
        BY <3>1 DEF ExclusiveClaim
    <2>15. AuditTrailAgrees'
      BY <1>0, <1>1, <2>5, <2>10 DEF CallsInv, AuditTrailAgrees
    <2>16. CallsInv'
      BY <2>11, <2>12, <2>13, <2>14, <2>15 DEF CallsInv
    <2>17. \A k \in Items : rows'[k].status # "absent" => rows'[k].run \in Runs /\ rows'[k].gate \in Gates
      BY <1>0, <1>5, <2>3, <2>5 DEF StoresWellFormed
    <2>18. pc' \in [Workers -> Pcs] /\ job' \in [Workers -> Job] /\ audits' \in [Items -> Seq(Actions)]
      BY <1>0, <1>1, <2>1 DEF TypeOK
    <2> QED
      BY <1>1, <2>5, <2>16, <2>17, <2>18, TablesStep
  <1> QED
    BY <1>4, <1>5

(* A rolled back claim: its owner leaves, and the row opens only when the gate *)
(* has no other open row.                                                      *)
LEMMA ReopenKeeps ==
    ASSUME IndInv, NEW p \in Workers, Reopen(p)
    PROVE  IndInv'
  <1> DEFINE i == job[p].item
             new == [rows[i] EXCEPT !.status = "pending"]
  <1>0. TypeOK /\ StoresWellFormed /\ CallsInv
    BY DEF IndInv, CallsInv
  <1>1. UNCHANGED <<audits, graph, delivered>> /\ Finish(p)
        /\ faults' \in 0 .. MaxFaults /\ replays' \in 0 .. MaxReplays
    BY DEF Reopen, budget, IndInv, TypeOK
  <1>2. job[p] \in Job /\ pc[p] = "reopen" /\ JobWellFormed("reopen", job[p])
    BY DEF Reopen, IndInv, TypeOK, JobsWellFormed
  <1>3. i \in Items /\ i # 0 /\ rows[i].status # "absent"
    BY <1>2, JobFields, HitlAssumption DEF JobWellFormed, Items
  <1>4. CASE rows' = rows
    <2>1. UNCHANGED <<tables, graph, delivered>>
      BY <1>1, <1>4 DEF tables
    <2> QED
      BY <1>1, <2>1, FinishStep
  <1>5. CASE rows' # rows
    <2>1. rows' = [rows EXCEPT ![i] = new] /\ PendingRows(rows[i].run, rows[i].gate) = {}
      BY <1>5 DEF Reopen, SetStatus
    <2>2. rows[i] \in Row
      BY <1>0, <1>3 DEF TypeOK
    <2>3. new \in Row /\ new.status = "pending" /\ new.run = rows[i].run /\ new.gate = rows[i].gate
      BY <2>2, StatusUpdate
    <2> HIDE DEF new
    <2>4. /\ rows'[i] = new
          /\ \A k \in Items : k # i => rows'[k] = rows[k]
          /\ rows' \in [Items -> Row]
      BY <1>0, <1>3, <2>1, <2>3 DEF TypeOK
    <2>5. /\ \A q \in Workers : /\ q = p => pc'[q] = "idle" /\ job'[q] = NoJob
                                /\ q # p => pc'[q] = pc[q] /\ job'[q] = job[q]
          /\ pc' \in [Workers -> Pcs] /\ job' \in [Workers -> Job]
      BY <1>0, <1>1, IdleFields DEF Finish, TypeOK, Pcs
    <2>6. \A q \in Workers : job[q].item # 0 => job[q].item \in Items
      BY <1>0, JobFields, HitlAssumption DEF TypeOK, Items
    <2>7. Holds(p, i)
      BY <1>2 DEF Holds, Holding
    <2>8. audits[i] = <<>> /\ \A q \in Workers : Holds(q, i) => q = p
      BY <1>0, <1>3, <2>7 DEF CallsInv, HeldUnaudited, ExclusiveClaim
    <2>9. \A q \in Workers : \A k \in Items : Holds(q, k)' => Holds(q, k) /\ k # i /\ q # p
      BY <2>5, <2>8 DEF Holds, Holding
    <2>10. JobsWellFormed'
      <3>1. ASSUME NEW q \in Workers
            PROVE  JobWellFormed(pc[q], job[q])'
        <4>1. CASE q = p
          BY <2>5, <4>1, IdleFields DEF JobWellFormed
        <4>2. CASE q # p
          <5>1. JobWellFormed(pc[q], job[q])
            BY <1>0 DEF CallsInv, JobsWellFormed
          <5>2. job[q].item # 0 => rows'[job[q].item].status # "absent"
            BY <2>3, <2>4, <2>6, <5>1 DEF JobWellFormed
          <5> QED
            BY <2>5, <4>2, <5>1, <5>2 DEF JobWellFormed
        <4> QED
          BY <4>1, <4>2
      <3> QED
        BY <3>1 DEF JobsWellFormed
    <2>11. HeldUnaudited'
      BY <1>0, <1>1, <2>9 DEF CallsInv, HeldUnaudited
    <2>12. UniqueOpenRow'
      BY <1>0, <1>3, <2>1, <2>3, <2>4 DEF CallsInv, UniqueOpenRow, PendingRows, IsPending
    <2>13. ExclusiveClaim'
      <3>1. ASSUME NEW q \in Workers, NEW s \in Workers, Holds(q, job[q].item)', job'[q].item # 0
            PROVE  /\ rows'[job'[q].item].status = ActionToStatus[job'[q].action]
                   /\ Holds(s, job[q].item)' => q = s
        <4>1. q # p /\ job'[q] = job[q] /\ job[q].item \in Items
          BY <2>5, <2>6, <3>1, IdleFields
        <4>2. Holds(q, job[q].item) /\ job[q].item # i
              /\ (Holds(s, job[q].item)' => Holds(s, job[q].item))
          BY <2>9, <3>1, <4>1
        <4> QED
          BY <1>0, <2>4, <3>1, <4>1, <4>2 DEF CallsInv, ExclusiveClaim
      <3> QED
        BY <3>1 DEF ExclusiveClaim
    <2>14. AuditTrailAgrees'
      BY <1>0, <1>1, <2>4, <2>8 DEF CallsInv, AuditTrailAgrees
    <2>15. CallsInv'
      BY <2>10, <2>11, <2>12, <2>13, <2>14 DEF CallsInv
    <2>16. \A k \in Items : rows'[k].status # "absent" => rows'[k].run \in Runs /\ rows'[k].gate \in Gates
      BY <1>0, <1>3, <2>3, <2>4 DEF StoresWellFormed
    <2>17. audits' \in [Items -> Seq(Actions)]
      BY <1>0, <1>1 DEF TypeOK
    <2> QED
      BY <1>1, <2>4, <2>5, <2>15, <2>16, <2>17, TablesStep
  <1> QED
    BY <1>4, <1>5

(* A crash ends every call and leaves the two stores as they are. *)
LEMMA CrashKeeps ==
    ASSUME IndInv, Crash
    PROVE  IndInv'
  <1>0. TypeOK /\ StoresWellFormed /\ CallsInv
    BY DEF IndInv, CallsInv
  <1>1. UNCHANGED <<tables, graph, delivered>> /\ replays' = replays
        /\ rows' = rows /\ audits' = audits
    BY DEF Crash, Fault, tables
  <1>2. faults' \in 0 .. MaxFaults /\ replays' \in 0 .. MaxReplays
    BY <1>0, HitlAssumption DEF Crash, Fault, TypeOK
  <1>3. \A q \in Workers : pc'[q] = "idle" /\ job'[q] = NoJob
    BY DEF Crash
  <1>4. pc' \in [Workers -> Pcs] /\ job' \in [Workers -> Job]
    BY IdleFields DEF Crash, Pcs
  <1>5. CallsInv'
    BY <1>0, <1>1, <1>3, IdleFields
       DEF CallsInv, JobsWellFormed, JobWellFormed, HeldUnaudited, UniqueOpenRow,
           ExclusiveClaim, AuditTrailAgrees, Holds, Holding
  <1>6. \A k \in Items : rows'[k].status # "absent" => rows'[k].run \in Runs /\ rows'[k].gate \in Gates
    BY <1>0, <1>1 DEF StoresWellFormed
  <1>7. rows' \in [Items -> Row] /\ audits' \in [Items -> Seq(Actions)]
    BY <1>0, <1>1 DEF TypeOK
  <1> QED
    BY <1>1, <1>2, <1>4, <1>5, <1>6, <1>7, TablesStep

-----------------------------------------------------------------------------
(* The theorems.                                                            *)

(* Every step preserves the inductive invariant. *)
LEMMA NextIndInv == IndInv /\ [Next]_vars => IndInv'
  <1> SUFFICES ASSUME IndInv, [Next]_vars PROVE IndInv'
    OBVIOUS
  <1>1. ASSUME NEW p \in Workers, Serve(p) PROVE IndInv'
    BY <1>1, InsertKeeps, EndingKeeps, LiveCheckKeeps, ClaimKeeps, ResumeKeeps,
       GateReturnsKeeps, RaisingKeeps, SegmentPausesKeeps, SegmentEndsKeeps,
       AuditKeeps, ReopenKeeps
       DEF Serve
  <1>2. ASSUME NEW p \in Workers, NEW r \in Runs, Start(p, r) PROVE IndInv'
    BY <1>2, StartKeeps
  <1>3. ASSUME NEW p \in Workers, NEW r \in Runs, Scan(p, r) PROVE IndInv'
    BY <1>3, ScanKeeps
  <1>4. ASSUME NEW p \in Workers, NEW r \in Runs, NEW h \in 0 .. NGates, Replay(p, r, h)
        PROVE  IndInv'
    BY <1>4, ReplayKeeps
  <1>5. ASSUME NEW p \in Workers, NEW i \in Items, NEW a \in Choices, BeginDecide(p, i, a)
        PROVE  IndInv'
    BY <1>5, BeginDecideKeeps
  <1>6. ASSUME NEW p \in Workers, Refuse(p) PROVE IndInv'
    BY <1>6, EndingKeeps
  <1>7. ASSUME Crash PROVE IndInv'
    BY <1>7, CrashKeeps
  <1>8. CASE UNCHANGED vars
    BY <1>8 DEF vars, IndInv, TypeOK, StoresWellFormed, JobsWellFormed, JobWellFormed,
                HeldUnaudited, UniqueOpenRow, ExclusiveClaim, AuditTrailAgrees, Holds
  <1> QED
    BY <1>1, <1>2, <1>3, <1>4, <1>5, <1>6, <1>7, <1>8 DEF Next

(* The inductive invariant holds in every reachable state, for every number of *)
(* threads, runs, gates and rows and however many faults and replays.          *)
THEOREM Invariance == Spec => []IndInv
  <1>1. Init => IndInv
    BY InitIndInv
  <1>2. IndInv /\ [Next]_vars => IndInv'
    BY NextIndInv
  <1> QED
    BY <1>1, <1>2, PTL DEF Spec

(* The tables, the checkpoints and the locals of every call keep their types: *)
(* no step indexes a row, a gate or an interrupt that does not exist.         *)
THEOREM TypeCorrect == Spec => []TypeOK
  <1>1. IndInv => TypeOK
    BY DEF IndInv
  <1> QED
    BY <1>1, Invariance, PTL

(* A gate never has two open rows in the queue. *)
THEOREM NoTwinRows == Spec => []UniqueOpenRow
  <1>1. IndInv => UniqueOpenRow
    BY DEF IndInv
  <1> QED
    BY <1>1, Invariance, PTL

(* Two decide calls never own the claim on one row, and the row shows the *)
(* decision of its owner.                                                 *)
THEOREM ClaimIsExclusive == Spec => []ExclusiveClaim
  <1>1. IndInv => ExclusiveClaim
    BY DEF IndInv
  <1> QED
    BY <1>1, Invariance, PTL

(* A row is audited at most once and keeps the audited decision. *)
THEOREM AuditIsFinal == Spec => []AuditTrailAgrees
  <1>1. IndInv => AuditTrailAgrees
    BY DEF IndInv
  <1> QED
    BY <1>1, Invariance, PTL

-----------------------------------------------------------------------------
(* No decision is lost while nothing fails.                                 *)

\* While nothing fails no claim is rolled back, and a decided row is in the audit log or
\* in the hands of the call that decided it.
Accounted ==
    faults = 0 =>
        /\ \A p \in Workers : pc[p] # "reopen"
        /\ \A i \in Items : rows[i].status \in Decided => audits[i] # <<>> \/ \E p \in Workers : Holds(p, i)

\* No call lets go of a claim before the row is audited.
Keeps ==
    /\ \A i \in Items : audits[i] # <<>> => audits'[i] # <<>>
    /\ \A p \in Workers, i \in Items : Holds(p, i) => Holds(p, i)' \/ audits'[i] # <<>>
    /\ \A i \in Items : rows'[i].status \in Decided =>
         rows[i].status \in Decided \/ \E p \in Workers : Holds(p, i)'
    /\ \A p \in Workers : pc'[p] = "reopen" => pc[p] = "reopen"

LEMMA KeepsAccounted ==
    ASSUME Accounted, Keeps, faults = 0
    PROVE  Accounted'
  BY DEF Accounted, Keeps

\* The step of a call that holds nothing, or goes on holding what it held.
LEMMA CallKeeps ==
    ASSUME IndInv, NEW p \in Workers,
           \E to, j : /\ pc' = [pc EXCEPT ![p] = to] /\ job' = [job EXCEPT ![p] = j] /\ to # "reopen"
                      /\ pc[p] \in Holding /\ job[p].item # 0 => to \in Holding /\ j.item = job[p].item,
           UNCHANGED audits,
           \A i \in Items : rows'[i].status \in Decided => rows[i].status \in Decided
    PROVE  Keeps
  <1>1. PICK to, j : /\ pc' = [pc EXCEPT ![p] = to] /\ job' = [job EXCEPT ![p] = j] /\ to # "reopen"
                     /\ pc[p] \in Holding /\ job[p].item # 0 => to \in Holding /\ j.item = job[p].item
    OBVIOUS
  <1>2. pc \in [Workers -> Pcs] /\ job \in [Workers -> Job] /\ 0 \notin Items
    BY HitlAssumption DEF IndInv, TypeOK, Items
  <1>3. \A q \in Workers : IF q = p THEN pc'[q] = to /\ job'[q] = j
                           ELSE pc'[q] = pc[q] /\ job'[q] = job[q]
    BY <1>1, <1>2
  <1>4. \A q \in Workers, i \in Items : Holds(q, i) => Holds(q, i)'
    BY <1>1, <1>2, <1>3 DEF Holds
  <1> QED BY <1>1, <1>3, <1>4 DEF Keeps

LEMMA BeginningsKeep ==
    ASSUME IndInv, NEW p \in Workers,
           \/ \E r \in Runs : Start(p, r) \/ Scan(p, r) \/ \E h \in 0 .. NGates : Replay(p, r, h)
           \/ \E i \in Items, a \in Choices : BeginDecide(p, i, a)
           \/ InsertPending(p) \/ SelectPending(p) \/ LiveCheck(p) \/ Refuse(p)
    PROVE  Keeps
  <1>1. pc[p] \notin Holding
    BY DEF Start, Scan, Replay, BeginDecide, InsertPending, SelectPending, LiveCheck, Refuse, Holding
  <1>2. job \in [Workers -> Job] /\ job = [job EXCEPT ![p] = job[p]]
    BY DEF IndInv, TypeOK
  <1>3. UNCHANGED audits
    BY DEF Start, Scan, Replay, BeginDecide, InsertPending, SelectPending, LiveCheck, Refuse, tables
  <1>4. \E to, j : pc' = [pc EXCEPT ![p] = to] /\ job' = [job EXCEPT ![p] = j] /\ to # "reopen"
    BY <1>2 DEF Start, Scan, Replay, BeginDecide, InsertPending, SelectPending, LiveCheck, Refuse, Goto, Finish
  <1>5. ASSUME NEW i \in Items, rows'[i].status \in Decided PROVE rows[i].status \in Decided
    <2>1. CASE rows' = rows
      BY <1>5, <2>1
    <2>2. CASE rows' # rows
      <3>1. PICK n \in Items : rows' = [rows EXCEPT ![n] = [status |-> "pending", run |-> job[p].run, gate |-> job[p].gate]]
        BY <2>2 DEF Start, Scan, Replay, BeginDecide, InsertPending, SelectPending, LiveCheck, Refuse, tables
      <3>2. rows \in [Items -> Row]
        BY DEF IndInv, TypeOK
      <3> QED BY <1>5, <3>1, <3>2, StatusFacts
    <2> QED BY <2>1, <2>2
  <1> QED BY <1>1, <1>3, <1>4, <1>5, CallKeeps

LEMMA GoingOnKeeps ==
    ASSUME IndInv, NEW p \in Workers,
           \/ Resume(p) \/ GateReturns(p) \/ SegmentEnds(p)
           \/ \E g \in Gates : SegmentPauses(p, g)
    PROVE  Keeps
  <1>1. job \in [Workers -> Job] /\ job[p] \in Job /\ job = [job EXCEPT ![p] = job[p]]
    BY DEF IndInv, TypeOK
  <1>2. rows' = rows /\ audits' = audits
    BY DEF Resume, GateReturns, SegmentEnds, SegmentPauses, tables
  <1>3. \E to, j : /\ pc' = [pc EXCEPT ![p] = to] /\ job' = [job EXCEPT ![p] = j] /\ to # "reopen"
                   /\ job[p].item # 0 => to \in Holding /\ j.item = job[p].item
    <2>1. CASE Resume(p)
      <3> DEFINE c == ckpt[job[p].run]
                 ahead == [job[p] EXCEPT !.gate = c.at + 1, !.intr = c.intr]
                 again == [job[p] EXCEPT !.gate = c.at + 1]
                 here == [job[p] EXCEPT !.gate = c.at]
      <3>1. \/ pc' = [pc EXCEPT ![p] = "gate"] /\ job' = [job EXCEPT ![p] = ahead]
            \/ pc' = [pc EXCEPT ![p] = "gate"] /\ job' = [job EXCEPT ![p] = again]
            \/ pc' = [pc EXCEPT ![p] = "segment"] /\ job' = [job EXCEPT ![p] = here]
            \/ pc' = [pc EXCEPT ![p] = "audit"] /\ job' = [job EXCEPT ![p] = job[p]]
        BY <1>1, <2>1 DEF Resume, Goto
      <3>2. ahead.item = job[p].item /\ again.item = job[p].item /\ here.item = job[p].item
        BY <1>1 DEF Job
      <3> HIDE DEF ahead, again, here
      <3> QED BY <3>1, <3>2 DEF Holding
    <2>2. CASE GateReturns(p)
      BY <1>1, <2>2, SentUpdate DEF GateReturns, Goto, Holding
    <2>3. CASE SegmentEnds(p) \/ \E g \in Gates : SegmentPauses(p, g)
      <3>1. InvokeReturns(p)
        BY <2>3 DEF SegmentEnds, SegmentPauses
      <3>2. CASE job[p].item # 0
        <4>1. pc' = [pc EXCEPT ![p] = "audit"] /\ job' = [job EXCEPT ![p] = job[p]]
          BY <1>1, <3>1, <3>2 DEF InvokeReturns, Goto
        <4> QED BY <4>1 DEF Holding
      <3>3. CASE job[p].item = 0
        <4>1. pc' = [pc EXCEPT ![p] = "idle"] /\ job' = [job EXCEPT ![p] = NoJob]
          BY <3>1, <3>3 DEF InvokeReturns, Finish
        <4> QED BY <3>3, <4>1
      <3> QED BY <3>2, <3>3
    <2> QED BY <2>1, <2>2, <2>3
  <1> QED BY <1>2, <1>3, CallKeeps

LEMMA ClaimAccounts ==
    ASSUME IndInv, NEW p \in Workers, Claim(p)
    PROVE  Keeps
  <1>0. /\ job \in [Workers -> Job] /\ job[p] \in Job /\ job = [job EXCEPT ![p] = job[p]]
        /\ pc \in [Workers -> Pcs] /\ rows \in [Items -> Row] /\ pc[p] \notin Holding
    BY DEF IndInv, TypeOK, Claim, Holding
  <1>1. CASE Finish(p) /\ UNCHANGED rows
    <2>1. \E to, j : pc' = [pc EXCEPT ![p] = to] /\ job' = [job EXCEPT ![p] = j] /\ to # "reopen"
      BY <1>1 DEF Finish
    <2> QED BY <1>0, <1>1, <2>1, CallKeeps DEF Claim
  <1>2. CASE /\ SetStatus(job[p].item, ActionToStatus[job[p].action])
             /\ Goto(p, "resume") /\ UNCHANGED job
    <2>1. \A q \in Workers : IF q = p THEN pc'[q] = "resume" ELSE pc'[q] = pc[q]
      BY <1>0, <1>2 DEF Goto
    <2>2. \A q \in Workers, i \in Items : Holds(q, i) => Holds(q, i)'
      BY <1>0, <1>2, <2>1 DEF Holds, Holding
    <2>3. ASSUME NEW i \in Items, rows'[i].status \in Decided, rows[i].status \notin Decided
          PROVE  Holds(p, i)'
      <3>1. i = job[p].item
        BY <1>0, <1>2, <2>3 DEF SetStatus
      <3> QED BY <1>2, <2>1, <3>1 DEF Holds, Holding
    <2> QED BY <2>1, <2>2, <2>3 DEF Keeps, Claim
  <1> QED BY <1>1, <1>2 DEF Claim

LEMMA AppendNotEmpty ==
    ASSUME NEW S, NEW s \in Seq(S), NEW e \in S
    PROVE  Append(s, e) # <<>>
  <1>1. Len(Append(s, e)) = Len(s) + 1 /\ Len(s) \in Nat
    OBVIOUS
  <1>2. Len(Append(s, e)) # 0
    BY <1>1
  <1>3. Len(<<>>) = 0
    OBVIOUS
  <1> QED BY <1>2, <1>3, Zenon

LEMMA AuditAccounts ==
    ASSUME IndInv, NEW p \in Workers, Audit(p)
    PROVE  Keeps
  <1>0. /\ job \in [Workers -> Job] /\ job[p] \in Job /\ pc \in [Workers -> Pcs]
        /\ audits \in [Items -> Seq(Actions)] /\ JobWellFormed("audit", job[p])
    BY DEF IndInv, TypeOK, Audit, JobsWellFormed
  <1>1. job[p].action \in Actions /\ rows' = rows
    BY <1>0 DEF JobWellFormed, Audit
  <1>2. \A q \in Workers : IF q = p THEN pc'[q] = "idle" ELSE pc'[q] = pc[q] /\ job'[q] = job[q]
    BY <1>0 DEF Audit, Finish
  <1>3. \A i \in Items : audits'[i] = IF i = job[p].item THEN Append(audits[i], job[p].action) ELSE audits[i]
    BY <1>0 DEF Audit
  <1>4. ASSUME NEW i \in Items PROVE Append(audits[i], job[p].action) # <<>>
    <2>1. audits[i] \in Seq(Actions)
      BY <1>0
    <2> QED BY <1>1, <2>1, AppendNotEmpty
  <1>5. \A i \in Items : audits[i] # <<>> => audits'[i] # <<>>
    BY <1>3, <1>4
  <1>6. \A q \in Workers, i \in Items : Holds(q, i) => Holds(q, i)' \/ audits'[i] # <<>>
    BY <1>2, <1>3, <1>4 DEF Holds
  <1> QED BY <1>1, <1>2, <1>5, <1>6 DEF Keeps

\* Every step without a fault; a rollback has a fault before it.
LEMMA AccountedStep ==
    ASSUME IndInv, Accounted, [Next]_vars
    PROVE  Accounted'
  <1>1. CASE UNCHANGED vars
    BY <1>1 DEF vars, Accounted, Holds
  <1>2. ASSUME NEW p \in Workers, GateRaises(p) \/ SegmentRaises(p) \/ AuditFails(p) \/ Crash
        PROVE  Accounted'
    <2>1. faults \in Nat /\ faults' = faults + 1
      BY <1>2, HitlAssumption DEF GateRaises, SegmentRaises, AuditFails, Crash, Fault, IndInv, TypeOK
    <2> QED BY <2>1 DEF Accounted
  <1>3. ASSUME NEW p \in Workers, Reopen(p) PROVE Accounted'
    BY <1>3 DEF Reopen, Accounted, budget
  <1>4. ASSUME NEW p \in Workers,
               \/ \E r \in Runs : Start(p, r) \/ Scan(p, r) \/ \E h \in 0 .. NGates : Replay(p, r, h)
               \/ \E i \in Items, a \in Choices : BeginDecide(p, i, a)
               \/ InsertPending(p) \/ SelectPending(p) \/ LiveCheck(p) \/ Refuse(p)
               \/ Resume(p) \/ GateReturns(p) \/ SegmentEnds(p)
               \/ \E g \in Gates : SegmentPauses(p, g)
               \/ Claim(p) \/ Audit(p)
        PROVE  Accounted'
    <2>1. faults' = faults
      BY <1>4 DEF Start, Scan, Replay, BeginDecide, InsertPending, SelectPending, LiveCheck, Refuse, Resume,
                  GateReturns, SegmentEnds, SegmentPauses, Claim, Audit, budget
    <2>2. Keeps
      BY <1>4, BeginningsKeep, GoingOnKeeps, ClaimAccounts, AuditAccounts
    <2>3. CASE faults = 0
      BY <2>2, <2>3, KeepsAccounted
    <2>4. CASE faults # 0
      BY <2>1, <2>4 DEF Accounted
    <2> QED BY <2>3, <2>4
  <1>5. CASE Crash
    <2>1. faults \in Nat /\ faults' = faults + 1
      BY <1>5, HitlAssumption DEF Crash, Fault, IndInv, TypeOK
    <2> QED BY <2>1 DEF Accounted
  <1> QED BY <1>1, <1>2, <1>3, <1>4, <1>5 DEF Next, Serve

(* As long as nothing failed, the decision of every row is in the audit log or *)
(* in the hands of the decide call that is about to write it there.            *)
THEOREM DecisionsAreAccounted == Spec => []NoDecisionLostWithoutFault
  <1>1. Init => Accounted
    BY StatusFacts DEF Init, Accounted, NoRow
  <1>2. Accounted => NoDecisionLostWithoutFault
    BY DEF Accounted, NoDecisionLostWithoutFault
  <1>3. IndInv /\ Accounted /\ [Next]_vars => Accounted'
    BY AccountedStep
  <1> QED
    BY <1>1, <1>2, <1>3, Invariance, PTL DEF Spec

-----------------------------------------------------------------------------
(* One row answers an interrupt once.                                       *)

\* Row i has not answered interrupt m.
Fresh(i, m) == \A n \in DOMAIN delivered[i] : delivered[i][n] # m

\* A row answers interrupts its run has raised, each once, and the run does not wait in
\* one it answered.
RowAnswers(i) ==
    /\ \A m, n \in DOMAIN delivered[i] : delivered[i][m] = delivered[i][n] => m = n
    /\ rows[i].status = "absent" => delivered[i] = <<>>
    /\ rows[i].status # "absent" =>
         /\ Fresh(i, ckpt[rows[i].run].intr)
         /\ \A n \in DOMAIN delivered[i] : delivered[i][n] <= raised[rows[i].run]

\* A call works on the run of its row, and answers what this row has not answered.
CallAnswers(p) ==
    /\ job[p].item # 0 => rows[job[p].item].run = job[p].run
    /\ pc[p] \in {"check", "claim", "resume"} => job[p].intr = 0
    /\ pc[p] = "gate" => Fresh(job[p].item, job[p].intr) /\ job[p].intr <= raised[job[p].run]

Answers ==
    /\ \A i \in Items : RowAnswers(i)
    /\ \A r \in Runs : ckpt[r].intr <= raised[r]
    /\ \A p \in Workers : CallAnswers(p)

LEMMA ElementOf ==
    ASSUME NEW S, NEW s \in Seq(S), NEW n \in DOMAIN s
    PROVE  s[n] \in S
  OBVIOUS

LEMMA AnswerFacts ==
    ASSUME IndInv
    PROVE  /\ rows \in [Items -> Row] /\ pc \in [Workers -> Pcs] /\ job \in [Workers -> Job]
           /\ ckpt \in [Runs -> Ckpt] /\ raised \in [Runs -> Nat] /\ 0 \notin Items
           /\ \A r \in Runs : ckpt[r].intr \in Nat
           /\ delivered \in [Items -> Seq(1 .. MaxInterrupts)]
           /\ \A i \in Items : delivered[i] \in Seq(1 .. MaxInterrupts) /\ Fresh(i, 0)
           /\ \A i \in Items : rows[i].status # "absent" => rows[i].run \in Runs
           /\ \A i \in Items : \A n \in DOMAIN delivered[i] : delivered[i][n] \in Nat
           /\ \A p \in Workers : job[p].item \in 0 .. MaxItems /\ job[p].intr \in Nat
           /\ \A p \in Workers : job[p].item # 0 => job[p].item \in Items
  <1>1. TypeOK /\ StoresWellFormed
    BY DEF IndInv
  <1>2. \A p \in Workers : job[p] \in Job
    BY <1>1 DEF TypeOK
  <1>3. \A p \in Workers : job[p].item \in 0 .. MaxItems /\ job[p].intr \in 0 .. MaxInterrupts
    BY <1>2, JobFields
  <1>4. \A i \in Items : delivered[i] \in Seq(1 .. MaxInterrupts)
    BY <1>1 DEF TypeOK
  <1>5. \A i \in Items : \A n \in DOMAIN delivered[i] : delivered[i][n] \in 1 .. MaxInterrupts
    BY <1>4, ElementOf
  <1>6. \A r \in Runs : ckpt[r].intr \in 0 .. MaxInterrupts
    BY <1>1 DEF TypeOK, Ckpt
  <1>7. \A i \in Items : Fresh(i, 0)
    BY <1>5, HitlAssumption DEF Fresh
  <1> QED BY <1>1, <1>3, <1>4, <1>5, <1>6, <1>7, HitlAssumption DEF TypeOK, StoresWellFormed, Items

\* A step of one call that answers no interrupt and raises none.
LEMMA LocalAnswers ==
    ASSUME IndInv, Answers, NEW p \in Workers, NEW to, NEW j \in Job,
           pc' = [pc EXCEPT ![p] = to], job' = [job EXCEPT ![p] = j],
           UNCHANGED <<graph, delivered>>,
           \A i \in Items : rows'[i].run = rows[i].run /\ (rows'[i].status = "absent" <=> rows[i].status = "absent"),
           j.item # 0 => rows[j.item].run = j.run,
           to \in {"check", "claim", "resume"} => j.intr = 0,
           to = "gate" => Fresh(j.item, j.intr) /\ j.intr <= raised[j.run]
    PROVE  Answers'
  <1>1. ckpt' = ckpt /\ raised' = raised /\ delivered' = delivered
    BY DEF graph
  <1>2. \A i \in Items : RowAnswers(i)'
    BY <1>1 DEF Answers, RowAnswers, Fresh
  <1>3. \A r \in Runs : ckpt'[r].intr <= raised'[r]
    BY <1>1 DEF Answers
  <1>4. ASSUME NEW q \in Workers PROVE CallAnswers(q)'
    <2>1. CASE q = p
      <3>1. pc'[q] = to /\ job'[q] = j
        BY <2>1, AnswerFacts
      <3>2. j.item # 0 => j.item \in Items
        BY JobFields, HitlAssumption DEF Items
      <3> QED BY <1>1, <3>1, <3>2 DEF CallAnswers, Fresh
    <2>2. CASE q # p
      <3>1. pc'[q] = pc[q] /\ job'[q] = job[q]
        BY <2>2, AnswerFacts
      <3>2. job[q].item # 0 => job[q].item \in Items
        BY AnswerFacts
      <3>3. CallAnswers(q)
        BY DEF Answers
      <3> QED BY <1>1, <3>1, <3>2, <3>3 DEF CallAnswers, Fresh
    <2> QED BY <2>1, <2>2
  <1> QED BY <1>2, <1>3, <1>4 DEF Answers

LEMMA FinishAnswers ==
    ASSUME IndInv, Answers, NEW p \in Workers, Finish(p), UNCHANGED <<graph, delivered>>,
           \A i \in Items : rows'[i].run = rows[i].run /\ (rows'[i].status = "absent" <=> rows[i].status = "absent")
    PROVE  Answers'
  BY IdleFields, LocalAnswers DEF Finish

\* Moving on without touching the locals, before or after the gate.
LEMMA GotoAnswers ==
    ASSUME IndInv, Answers, NEW p \in Workers, NEW to \in {"claim", "resume", "audit", "reopen"},
           Goto(p, to), UNCHANGED <<graph, job, delivered>>,
           to \in {"claim", "resume"} => pc[p] \in {"check", "claim"},
           \A i \in Items : rows'[i].run = rows[i].run /\ (rows'[i].status = "absent" <=> rows[i].status = "absent")
    PROVE  Answers'
  <1>1. job[p] \in Job /\ job' = [job EXCEPT ![p] = job[p]]
    BY AnswerFacts
  <1>2. CallAnswers(p)
    BY DEF Answers
  <1>3. pc' = [pc EXCEPT ![p] = to]
    BY DEF Goto
  <1>4. job[p].item # 0 => rows[job[p].item].run = job[p].run
    BY <1>2 DEF CallAnswers
  <1>5. to \in {"check", "claim", "resume"} => job[p].intr = 0
    BY <1>2 DEF CallAnswers
  <1> QED BY <1>1, <1>3, <1>4, <1>5, LocalAnswers

\* The steps that only read, and those that end a call.
LEMMA ReadingAnswers ==
    ASSUME IndInv, Answers, NEW p \in Workers,
           \/ \E r \in Runs : Scan(p, r)
           \/ \E i \in Items, a \in Choices : BeginDecide(p, i, a)
           \/ SelectPending(p) \/ LiveCheck(p) \/ Refuse(p) \/ GateRaises(p) \/ SegmentRaises(p)
           \/ Audit(p) \/ AuditFails(p)
    PROVE  Answers'
  <1>1. rows' = rows /\ UNCHANGED <<graph, delivered>>
    BY DEF Scan, BeginDecide, SelectPending, LiveCheck, Refuse, GateRaises, SegmentRaises, Audit, AuditFails, tables
  <1>2. ASSUME NEW r \in Runs, Scan(p, r) PROVE Answers'
    <2> DEFINE k == Call(r, ckpt[r].at + 1, 0, "none")
    <2>1. ckpt[r].at \in 0 .. NGates /\ ckpt[r].at < NGates
      BY <1>2 DEF IndInv, TypeOK, Ckpt, StoresWellFormed, Scan
    <2>2. k \in Job /\ k.item = 0
      <3>1. ckpt[r].at + 1 \in 0 .. NGates /\ 0 \in 0 .. MaxItems
        BY <2>1, HitlAssumption
      <3> QED BY <3>1, CallFields
    <2>3. pc' = [pc EXCEPT ![p] = "insert"] /\ job' = [job EXCEPT ![p] = k]
      BY <1>2 DEF Scan, Goto
    <2> HIDE DEF k
    <2> QED BY <1>1, <2>2, <2>3, LocalAnswers
  <1>3. ASSUME NEW i \in Items, NEW a \in Choices, BeginDecide(p, i, a) PROVE Answers'
    <2> DEFINE k == Call(rows[i].run, rows[i].gate, i, a)
    <2>1. rows[i].run \in Runs /\ rows[i].gate \in 0 .. NGates
      BY <1>3, RowFields DEF IndInv, TypeOK, StoresWellFormed, BeginDecide
    <2>2. i \in 0 .. MaxItems /\ a \in Actions
      BY HitlAssumption DEF Items
    <2>3. k \in Job /\ k.run = rows[i].run /\ k.item = i
      BY <2>1, <2>2, CallFields
    <2>4. k.intr = 0
      BY DEF Call
    <2>5. pc' = [pc EXCEPT ![p] = "check"] /\ job' = [job EXCEPT ![p] = k]
      BY <1>3 DEF BeginDecide, Goto
    <2> HIDE DEF k
    <2> QED BY <1>1, <2>3, <2>4, <2>5, LocalAnswers
  <1>4. CASE Finish(p)
    BY <1>1, <1>4, FinishAnswers
  <1>5. \A i \in Items : rows'[i].run = rows[i].run /\ (rows'[i].status = "absent" <=> rows[i].status = "absent")
    BY <1>1
  <1>6. CASE LiveCheck(p) /\ ~ Finish(p)
    <2>1. Goto(p, "claim") /\ pc[p] = "check" /\ UNCHANGED <<graph, job, delivered>>
      BY <1>6 DEF LiveCheck
    <2> QED BY <1>5, <2>1, GotoAnswers
  <1>7. CASE (GateRaises(p) \/ SegmentRaises(p)) /\ ~ Finish(p)
    <2>1. Goto(p, "reopen") /\ UNCHANGED <<graph, job, delivered>>
      BY <1>7 DEF GateRaises, SegmentRaises
    <2> QED BY <1>5, <2>1, GotoAnswers
  <1> QED BY <1>2, <1>3, <1>4, <1>6, <1>7 DEF SelectPending, Refuse, Audit, AuditFails

\* The steps of the table.
LEMMA TableAnswers ==
    ASSUME IndInv, Answers, NEW p \in Workers, Claim(p) \/ Reopen(p)
    PROVE  Answers'
  <1> DEFINE i == job[p].item
  <1>1. UNCHANGED <<graph, delivered>> /\ job[p] \in Job /\ i \in Items
        /\ JobWellFormed(pc[p], job[p]) /\ rows[i].status # "absent"
    <2>1. JobWellFormed(pc[p], job[p]) /\ pc[p] \in {"claim", "reopen"} /\ job[p] \in Job
      BY DEF IndInv, JobsWellFormed, Claim, Reopen, TypeOK
    <2> QED BY <2>1, AnswerFacts DEF JobWellFormed, Claim, Reopen
  <1>2. ASSUME NEW s \in {"pending"} \cup Decided, SetStatus(i, s)
        PROVE  \A k \in Items : rows'[k].run = rows[k].run /\ (rows'[k].status = "absent" <=> rows[k].status = "absent")
    <2>1. rows \in [Items -> Row] /\ rows[i] \in Row
      BY <1>1, AnswerFacts
    <2> DEFINE w == [rows[i] EXCEPT !.status = s]
    <2>2. w.run = rows[i].run /\ w.status = s
      BY <2>1, StatusUpdate
    <2>3. rows' = [rows EXCEPT ![i] = w]
      BY <1>2 DEF SetStatus
    <2> HIDE DEF w
    <2>4. s # "absent"
      BY StatusFacts
    <2> QED BY <1>1, <2>1, <2>2, <2>3, <2>4
  <1>3. CASE Finish(p) /\ UNCHANGED rows
    BY <1>1, <1>3, FinishAnswers
  <1>4. CASE Finish(p) /\ SetStatus(i, "pending")
    BY <1>1, <1>2, <1>4, FinishAnswers
  <1>5. CASE SetStatus(i, ActionToStatus[job[p].action]) /\ Goto(p, "resume") /\ pc[p] = "claim" /\ UNCHANGED job
    <2>1. ActionToStatus[job[p].action] \in Decided
      BY <1>1, AnswerFacts, StatusFacts DEF JobWellFormed
    <2>2. \A k \in Items : rows'[k].run = rows[k].run /\ (rows'[k].status = "absent" <=> rows[k].status = "absent")
      BY <1>2, <1>5, <2>1
    <2> QED BY <1>1, <1>5, <2>2, GotoAnswers
  <1>6. CASE Claim(p)
    BY <1>3, <1>5, <1>6 DEF Claim
  <1>7. CASE Reopen(p)
    BY <1>3, <1>4, <1>7 DEF Reopen
  <1> QED BY <1>6, <1>7

\* A new row has answered nothing.
LEMMA InsertAnswers ==
    ASSUME IndInv, Answers, NEW p \in Workers, InsertPending(p)
    PROVE  Answers'
  <1>0. job[p] \in Job /\ job' = [job EXCEPT ![p] = job[p]] /\ CallAnswers(p)
        /\ pc' = [pc EXCEPT ![p] = "select"] /\ UNCHANGED <<graph, delivered>>
    BY AnswerFacts DEF InsertPending, Goto, Answers
  <1>1. CASE UNCHANGED rows
    <2>1. job[p].item # 0 => rows[job[p].item].run = job[p].run
      BY <1>0 DEF CallAnswers
    <2>2. \A i \in Items : rows'[i].run = rows[i].run /\ (rows'[i].status = "absent" <=> rows[i].status = "absent")
      BY <1>1
    <2> QED BY <1>0, <2>1, <2>2, LocalAnswers
  <1>2. CASE rows' # rows
    <2>1. PICK n \in Items : /\ rows[n].status = "absent"
                             /\ rows' = [rows EXCEPT ![n] = [status |-> "pending", run |-> job[p].run, gate |-> job[p].gate]]
      BY <1>2 DEF InsertPending
    <2>2. ckpt' = ckpt /\ raised' = raised /\ delivered' = delivered /\ job' = job
      BY <1>0 DEF graph, InsertPending
    <2>3. \A k \in Items : k # n => rows'[k] = rows[k]
      BY <2>1, AnswerFacts
    <2>4. ASSUME NEW k \in Items PROVE RowAnswers(k)'
      <3>1. RowAnswers(k)
        BY DEF Answers
      <3>2. CASE k = n
        BY <2>1, <2>2, <3>1, <3>2 DEF RowAnswers, Fresh
      <3>3. CASE k # n
        BY <2>2, <2>3, <3>1, <3>3 DEF RowAnswers, Fresh
      <3> QED BY <3>2, <3>3
    <2>5. ASSUME NEW q \in Workers PROVE CallAnswers(q)'
      <3>1. CallAnswers(q) /\ JobWellFormed(pc[q], job[q])
        BY DEF Answers, IndInv, JobsWellFormed
      <3>2. pc'[q] = IF q = p THEN "select" ELSE pc[q]
        BY <1>0, AnswerFacts
      <3>3. job[q].item # 0 => job[q].item # n /\ job[q].item \in Items
        BY <2>1, <3>1, AnswerFacts DEF JobWellFormed
      <3>4. job'[q].item # 0 => rows'[job'[q].item].run = job'[q].run
        BY <2>2, <2>3, <3>1, <3>3 DEF CallAnswers
      <3> QED BY <2>2, <3>1, <3>2, <3>4 DEF CallAnswers, Fresh
    <2>6. \A r \in Runs : ckpt'[r].intr <= raised'[r]
      BY <2>2 DEF Answers
    <2> QED BY <2>4, <2>5, <2>6 DEF Answers
  <1> QED BY <1>1, <1>2

\* The payload goes to the interrupt the newest checkpoint waits in, which this row has
\* not answered; a gate that has not interrupted has no number.
LEMMA ResumeAnswers ==
    ASSUME IndInv, Answers, NEW p \in Workers, Resume(p)
    PROVE  Answers'
  <1> DEFINE i == job[p].item
             r == job[p].run
             c == ckpt[r]
             ahead == [job[p] EXCEPT !.gate = c.at + 1, !.intr = c.intr]
             again == [job[p] EXCEPT !.gate = c.at + 1]
             here == [job[p] EXCEPT !.gate = c.at]
  <1>1. job[p] \in Job /\ JobWellFormed("resume", job[p]) /\ CallAnswers(p) /\ pc[p] = "resume"
    BY AnswerFacts DEF IndInv, JobsWellFormed, Answers, Resume
  <1>2. r \in Runs /\ i \in Items /\ rows[i].status # "absent" /\ rows[i].run = r /\ job[p].intr = 0
    BY <1>1, AnswerFacts DEF JobWellFormed, CallAnswers
  <1>3. Fresh(i, c.intr) /\ Fresh(i, 0) /\ c.intr <= raised[r] /\ 0 <= raised[r]
    BY <1>2, AnswerFacts DEF Answers, RowAnswers
  <1>4. c.at \in 0 .. NGates /\ c.intr \in 0 .. MaxInterrupts /\ (c.phase = "paused" => c.at < NGates)
    BY <1>2 DEF IndInv, TypeOK, Ckpt, StoresWellFormed
  <1>5. rows' = rows /\ UNCHANGED <<graph, delivered>> /\ job = [job EXCEPT ![p] = job[p]]
    BY AnswerFacts DEF Resume, tables
  <1>6. c.at + 1 \in 0 .. NGates => /\ ahead \in Job /\ ahead.item = i /\ ahead.run = r /\ ahead.intr = c.intr
                                     /\ again \in Job /\ again.item = i /\ again.run = r /\ again.intr = 0
    BY <1>1, <1>2, <1>4 DEF Job
  <1>7. here \in Job /\ here.item = i /\ here.run = r
    BY <1>1, <1>4 DEF Job
  <1>8. c.at < NGates => c.at + 1 \in 0 .. NGates
    BY <1>4, HitlAssumption
  <1>9. \/ c.at < NGates /\ pc' = [pc EXCEPT ![p] = "gate"] /\ job' = [job EXCEPT ![p] = ahead]
        \/ c.at < NGates /\ pc' = [pc EXCEPT ![p] = "gate"] /\ job' = [job EXCEPT ![p] = again]
        \/ pc' = [pc EXCEPT ![p] = "segment"] /\ job' = [job EXCEPT ![p] = here]
        \/ pc' = [pc EXCEPT ![p] = "audit"] /\ job' = [job EXCEPT ![p] = job[p]]
    BY <1>4, <1>5 DEF Resume, Goto
  <1> HIDE DEF ahead, again, here
  <1>10. CASE c.at < NGates /\ pc' = [pc EXCEPT ![p] = "gate"] /\ job' = [job EXCEPT ![p] = ahead]
    BY <1>2, <1>3, <1>5, <1>6, <1>8, <1>10, LocalAnswers
  <1>11. CASE c.at < NGates /\ pc' = [pc EXCEPT ![p] = "gate"] /\ job' = [job EXCEPT ![p] = again]
    BY <1>2, <1>3, <1>5, <1>6, <1>8, <1>11, LocalAnswers
  <1>12. CASE pc' = [pc EXCEPT ![p] = "segment"] /\ job' = [job EXCEPT ![p] = here]
    BY <1>2, <1>5, <1>7, <1>12, LocalAnswers
  <1>13. CASE pc' = [pc EXCEPT ![p] = "audit"] /\ job' = [job EXCEPT ![p] = job[p]]
    BY <1>1, <1>2, <1>5, <1>13, LocalAnswers
  <1> QED BY <1>9, <1>10, <1>11, <1>12, <1>13
\* A step of one call that writes the checkpoint of its run: either it leaves the run in
\* no interrupt, or in one that is new.
LEMMA GraphAnswers ==
    ASSUME IndInv, Answers, NEW p \in Workers, NEW to \in {"idle", "segment", "audit"}, NEW j \in Job,
           pc' = [pc EXCEPT ![p] = to], job' = [job EXCEPT ![p] = j],
           rows' = rows, delivered' = delivered,
           j.item # 0 => rows[j.item].run = j.run,
           NEW r \in Runs, NEW c \in Ckpt, ckpt' = [ckpt EXCEPT ![r] = c],
           \/ c.intr = 0 /\ raised' = raised
           \/ c.intr = raised[r] + 1 /\ raised' = [raised EXCEPT ![r] = @ + 1]
    PROVE  Answers'
  <1>1. \A s \in Runs : /\ raised[s] \in Nat /\ raised'[s] \in Nat /\ raised[s] <= raised'[s]
                        /\ ckpt'[s] = IF s = r THEN c ELSE ckpt[s]
    BY AnswerFacts
  <1>2. ASSUME NEW i \in Items PROVE RowAnswers(i)'
    <2>1. RowAnswers(i)
      BY DEF Answers
    <2>2. ASSUME rows[i].status # "absent" PROVE Fresh(i, ckpt'[rows[i].run].intr)
      <3>1. rows[i].run \in Runs
        BY <2>2, AnswerFacts
      <3>2. CASE rows[i].run # r
        BY <1>1, <2>1, <2>2, <3>1, <3>2 DEF RowAnswers
      <3>3. CASE rows[i].run = r /\ c.intr = 0
        BY <1>1, <3>3, AnswerFacts
      <3>4. CASE rows[i].run = r /\ c.intr = raised[r] + 1
        <4>1. \A n \in DOMAIN delivered[i] : delivered[i][n] \in Nat /\ delivered[i][n] <= raised[r]
          BY <2>1, <2>2, <3>4, AnswerFacts DEF RowAnswers
        <4>2. raised[r] \in Nat
          BY <1>1
        <4> QED BY <1>1, <3>4, <4>1, <4>2 DEF Fresh
      <3> QED BY <3>2, <3>3, <3>4
    <2>3. ASSUME rows[i].status # "absent"
          PROVE  \A n \in DOMAIN delivered[i] : delivered[i][n] <= raised'[rows[i].run]
      <3>1. rows[i].run \in Runs
        BY <2>3, AnswerFacts
      <3>2. \A n \in DOMAIN delivered[i] : delivered[i][n] \in Nat /\ delivered[i][n] <= raised[rows[i].run]
        BY <2>1, <2>3, AnswerFacts DEF RowAnswers
      <3> QED BY <1>1, <3>1, <3>2
    <2> QED BY <2>1, <2>2, <2>3 DEF RowAnswers, Fresh
  <1>3. ASSUME NEW s \in Runs PROVE ckpt'[s].intr <= raised'[s]
    <2>1. ckpt[s].intr \in Nat /\ ckpt[s].intr <= raised[s]
      BY AnswerFacts DEF Answers
    <2>2. CASE s # r
      BY <1>1, <2>1, <2>2
    <2>3. CASE s = r
      <3>1. raised[r] \in Nat /\ raised \in [Runs -> Nat]
        BY AnswerFacts
      <3> QED BY <1>1, <2>3, <3>1
    <2> QED BY <2>2, <2>3
  <1>4. ASSUME NEW q \in Workers PROVE CallAnswers(q)'
    <2>1. CASE q = p
      <3>1. pc'[q] = to /\ job'[q] = j
        BY <2>1, AnswerFacts
      <3> QED BY <3>1 DEF CallAnswers
    <2>2. CASE q # p
      <3>1. pc'[q] = pc[q] /\ job'[q] = job[q]
        BY <2>2, AnswerFacts
      <3>2. CallAnswers(q) /\ JobWellFormed(pc[q], job[q]) /\ job[q].intr \in Nat
        BY AnswerFacts DEF Answers, IndInv, JobsWellFormed
      <3>3. pc[q] = "gate" => job[q].intr <= raised'[job[q].run]
        <4>1. pc[q] = "gate" => job[q].run \in Runs /\ job[q].intr <= raised[job[q].run]
          BY <3>2 DEF JobWellFormed, CallAnswers
        <4> QED BY <1>1, <3>2, <4>1
      <3> QED BY <3>1, <3>2, <3>3 DEF CallAnswers, Fresh
    <2> QED BY <2>1, <2>2
  <1> QED BY <1>2, <1>3, <1>4 DEF Answers

LEMMA RunAnswers ==
    ASSUME IndInv, Answers, NEW p \in Workers, NEW r \in Runs,
           Start(p, r) \/ \E h \in 0 .. NGates : Replay(p, r, h)
    PROVE  Answers'
  <1>1. PICK h \in 0 .. NGates :
           /\ ckpt' = [ckpt EXCEPT ![r] = [phase |-> "running", at |-> h, intr |-> 0]]
           /\ pc' = [pc EXCEPT ![p] = "segment"]
           /\ job' = [job EXCEPT ![p] = Call(r, h, 0, "none")]
    BY HitlAssumption DEF Start, Replay, Goto
  <1>2. rows' = rows /\ raised' = raised /\ delivered' = delivered
    BY DEF Start, Replay, tables
  <1> DEFINE k == Call(r, h, 0, "none")
             c == [phase |-> "running", at |-> h, intr |-> 0]
  <1>3. k \in Job /\ k.item = 0
    <2>1. 0 \in 0 .. MaxItems
      BY HitlAssumption
    <2> QED BY <2>1, CallFields
  <1>4. c \in Ckpt /\ c.intr = 0
    BY HitlAssumption, NewCkpt
  <1> HIDE DEF k, c
  <1> QED BY <1>1, <1>2, <1>3, <1>4, GraphAnswers DEF k, c

LEMMA SegmentAnswers ==
    ASSUME IndInv, Answers, NEW p \in Workers,
           SegmentEnds(p) \/ \E g \in Gates : SegmentPauses(p, g)
    PROVE  Answers'
  <1> DEFINE r == job[p].run
  <1>1. r \in Runs /\ pc[p] = "segment" /\ CallAnswers(p) /\ job[p] \in Job /\ InvokeReturns(p)
    BY AnswerFacts DEF SegmentEnds, SegmentPauses, IndInv, JobsWellFormed, JobWellFormed, Answers
  <1>2. \E to \in {"idle", "audit"}, j \in Job :
           /\ pc' = [pc EXCEPT ![p] = to] /\ job' = [job EXCEPT ![p] = j]
           /\ j.item # 0 => rows[j.item].run = j.run
    <2>1. CASE job[p].item # 0
      <3>1. pc' = [pc EXCEPT ![p] = "audit"] /\ job' = [job EXCEPT ![p] = job[p]]
        BY <1>1, <2>1, AnswerFacts DEF InvokeReturns, Goto
      <3> QED BY <1>1, <3>1 DEF CallAnswers
    <2>2. CASE job[p].item = 0
      <3>1. pc' = [pc EXCEPT ![p] = "idle"] /\ job' = [job EXCEPT ![p] = NoJob]
        BY <1>1, <2>2 DEF InvokeReturns, Finish
      <3> QED BY <3>1, IdleFields
    <2> QED BY <2>1, <2>2
  <1>3. \E c \in Ckpt : /\ ckpt' = [ckpt EXCEPT ![r] = c]
                        /\ \/ c.intr = 0 /\ raised' = raised
                           \/ c.intr = raised[r] + 1 /\ raised' = [raised EXCEPT ![r] = @ + 1]
    <2>1. CASE SegmentEnds(p)
      <3> DEFINE c == [phase |-> "done", at |-> NGates, intr |-> 0]
      <3>1. c \in Ckpt /\ c.intr = 0
        BY NewCkpt, HitlAssumption
      <3>2. ckpt' = [ckpt EXCEPT ![r] = c] /\ raised' = raised
        BY <2>1 DEF SegmentEnds
      <3> HIDE DEF c
      <3> QED BY <3>1, <3>2
    <2>2. ASSUME NEW g \in Gates, SegmentPauses(p, g)
          PROVE  \E c \in Ckpt : /\ ckpt' = [ckpt EXCEPT ![r] = c]
                                 /\ \/ c.intr = 0 /\ raised' = raised
                                    \/ c.intr = raised[r] + 1 /\ raised' = [raised EXCEPT ![r] = @ + 1]
      <3> DEFINE m == raised[r] + 1
                 c == [phase |-> "paused", at |-> g - 1, intr |-> m]
      <3>1. g - 1 \in 0 .. NGates /\ m \in 0 .. MaxInterrupts
        BY <1>1, <2>2, HitlAssumption DEF SegmentPauses, IndInv, TypeOK, Gates
      <3>2. ckpt' = [ckpt EXCEPT ![r] = c] /\ raised' = [raised EXCEPT ![r] = @ + 1]
        BY <2>2 DEF SegmentPauses
      <3> HIDE DEF m
      <3>3. c \in Ckpt /\ c.intr = m
        BY <3>1, NewCkpt
      <3> HIDE DEF c
      <3> QED BY <3>2, <3>3 DEF m
    <2> QED BY <2>1, <2>2
  <1>4. rows' = rows /\ delivered' = delivered
    BY DEF SegmentEnds, SegmentPauses, tables
  <1> HIDE DEF r
  <1> QED BY <1>1, <1>2, <1>3, <1>4, GraphAnswers

\* The gate takes the payload: its interrupt is one more this row has answered, and no
\* other call holds this row.
LEMMA GateAnswers ==
    ASSUME IndInv, Answers, NEW p \in Workers, GateReturns(p)
    PROVE  Answers'
  <1> DEFINE r == job[p].run
             m == job[p].intr
             k == [job[p] EXCEPT !.sent = TRUE]
             c == [phase |-> "running", at |-> job[p].gate, intr |-> 0]
  <1>1. /\ job[p] \in Job /\ JobWellFormed("gate", job[p]) /\ CallAnswers(p) /\ pc[p] = "gate"
        /\ ExclusiveClaim
    BY AnswerFacts DEF GateReturns, IndInv, JobsWellFormed, Answers
  <1>0. PICK i \in Items : i = job[p].item
    BY <1>1, AnswerFacts DEF JobWellFormed
  <1>2. /\ r \in Runs /\ i \in Items /\ rows[i].status # "absent" /\ rows[i].run = r
        /\ m \in 0 .. MaxInterrupts /\ job[p].gate \in 0 .. NGates
    BY <1>0, <1>1, AnswerFacts, JobFields DEF JobWellFormed, CallAnswers
  <1>3. Fresh(i, m) /\ m <= raised[r] /\ raised[r] \in Nat
    BY <1>0, <1>1, <1>2, AnswerFacts DEF CallAnswers
  <1>4. k \in Job /\ k.run = r /\ k.item = i
    BY <1>0, <1>1, SentUpdate
  <1>5. c \in Ckpt /\ c.intr = 0
    BY <1>2, NewCkpt, HitlAssumption
  <1>6. /\ pc' = [pc EXCEPT ![p] = "segment"] /\ job' = [job EXCEPT ![p] = k]
        /\ ckpt' = [ckpt EXCEPT ![r] = c] /\ rows' = rows /\ raised' = raised
        /\ delivered' = IF m = 0 THEN delivered ELSE [delivered EXCEPT ![i] = Append(@, m)]
    BY <1>0 DEF GateReturns, Goto, tables
  <1> HIDE DEF k, c
  <1>7. CASE m = 0
    BY <1>2, <1>4, <1>5, <1>6, <1>7, GraphAnswers
  <1>8. CASE m # 0
    <2> DEFINE old == delivered[i]
               new == Append(old, m)
    <2>1. old \in Seq(1 .. MaxInterrupts) /\ m \in 1 .. MaxInterrupts
      BY <1>2, <1>8, AnswerFacts
    <2>2. \A n \in DOMAIN new : (n \in DOMAIN old /\ new[n] = old[n]) \/ (n = Len(old) + 1 /\ new[n] = m)
      BY <2>1
    <2>3. delivered' = [delivered EXCEPT ![i] = new] /\ delivered'[i] = new
      BY <1>2, <1>6, <1>8, AnswerFacts
    <2>4. \A s \in Runs : ckpt'[s] = IF s = r THEN c ELSE ckpt[s]
      BY <1>6, AnswerFacts
    <2>5. RowAnswers(i)
      BY <1>2 DEF Answers
    <2> HIDE DEF new
    <2>6. RowAnswers(i)'
      <3>1. \A a, b \in DOMAIN new : new[a] = new[b] => a = b
        <4>1. \A n \in DOMAIN old : old[n] # m
          BY <1>3 DEF Fresh
        <4>2. \A a, b \in DOMAIN old : old[a] = old[b] => a = b
          BY <2>5 DEF RowAnswers
        <4> QED BY <2>2, <4>1, <4>2
      <3>2. \A n \in DOMAIN new : new[n] # 0 /\ new[n] <= raised[r]
        <4>1. \A n \in DOMAIN old : old[n] <= raised[r]
          BY <1>2, <2>5 DEF RowAnswers
        <4>2. \A n \in DOMAIN old : old[n] # 0
          BY <1>2, AnswerFacts DEF Fresh
        <4> QED BY <1>3, <1>8, <2>2, <4>1, <4>2
      <3>3. ckpt'[r].intr = 0
        BY <1>2, <1>5, <2>4
      <3> QED BY <1>2, <1>6, <2>3, <3>1, <3>2, <3>3 DEF RowAnswers, Fresh
    <2>7. ASSUME NEW n \in Items, n # i PROVE RowAnswers(n)'
      <3>1. RowAnswers(n) /\ delivered'[n] = delivered[n] /\ Fresh(n, 0)
        BY <2>3, <2>7, AnswerFacts DEF Answers
      <3>2. rows[n].status # "absent" => Fresh(n, ckpt'[rows[n].run].intr)
        BY <1>5, <2>4, <3>1, AnswerFacts DEF RowAnswers
      <3> QED BY <1>6, <3>1, <3>2 DEF RowAnswers, Fresh
    <2>8. ASSUME NEW s \in Runs PROVE ckpt'[s].intr <= raised'[s]
      <3>1. ckpt[s].intr <= raised[s] /\ raised[s] \in Nat
        BY AnswerFacts DEF Answers
      <3> QED BY <1>5, <1>6, <2>4, <3>1
    <2>9. ASSUME NEW q \in Workers PROVE CallAnswers(q)'
      <3>1. CASE q = p
        <4>1. pc'[q] = "segment" /\ job'[q] = k
          BY <1>6, <3>1, AnswerFacts
        <4> QED BY <1>2, <1>4, <1>6, <4>1 DEF CallAnswers
      <3>2. CASE q # p
        <4>1. pc'[q] = pc[q] /\ job'[q] = job[q]
          BY <1>6, <3>2, AnswerFacts
        <4>2. CallAnswers(q) /\ JobWellFormed(pc[q], job[q])
          BY DEF Answers, IndInv, JobsWellFormed
        <4>3. pc[q] = "gate" => job[q].item # i /\ job[q].item \in Items
          <5>1. pc[q] = "gate" => job[q].item # 0 /\ job[q].item \in Items
            BY <4>2, AnswerFacts DEF JobWellFormed
          <5>2. i # 0
            BY <1>2, AnswerFacts
          <5>3. Holds(p, i)
            BY <1>0, <1>1 DEF Holds, Holding
          <5>4. pc[q] = "gate" /\ job[q].item = i => Holds(q, i)
            BY DEF Holds, Holding
          <5> QED BY <1>0, <1>1, <3>2, <5>1, <5>2, <5>3, <5>4 DEF ExclusiveClaim
        <4>4. pc[q] = "gate" => delivered'[job[q].item] = delivered[job[q].item]
          BY <2>3, <4>3, AnswerFacts
        <4> QED BY <1>6, <4>1, <4>2, <4>4 DEF CallAnswers, Fresh
      <3> QED BY <3>1, <3>2
    <2> QED BY <2>6, <2>7, <2>8, <2>9 DEF Answers
  <1> QED BY <1>7, <1>8

LEMMA CrashAnswers ==
    ASSUME IndInv, Answers, Crash
    PROVE  Answers'
  <1>1. rows' = rows /\ ckpt' = ckpt /\ raised' = raised /\ delivered' = delivered
    BY DEF Crash, tables, graph
  <1>2. \A p \in Workers : pc'[p] = "idle" /\ job'[p] = NoJob
    BY DEF Crash
  <1>3. \A p \in Workers : CallAnswers(p)'
    BY <1>2, IdleFields DEF CallAnswers
  <1> QED BY <1>1, <1>3 DEF Answers, RowAnswers, Fresh

LEMMA AnswersStep ==
    ASSUME IndInv, Answers, [Next]_vars
    PROVE  Answers'
  <1>1. CASE UNCHANGED vars
    BY <1>1 DEF vars, Answers, RowAnswers, CallAnswers, Fresh
  <1>2. ASSUME NEW p \in Workers, Serve(p) PROVE Answers'
    BY <1>2, InsertAnswers, ReadingAnswers, TableAnswers, ResumeAnswers, GateAnswers, SegmentAnswers DEF Serve
  <1>3. ASSUME NEW p \in Workers,
               \/ \E r \in Runs : Start(p, r) \/ Scan(p, r) \/ \E h \in 0 .. NGates : Replay(p, r, h)
               \/ \E i \in Items, a \in Choices : BeginDecide(p, i, a)
               \/ Refuse(p)
        PROVE  Answers'
    BY <1>3, RunAnswers, ReadingAnswers
  <1> QED BY <1>1, <1>2, <1>3, CrashAnswers DEF Next

(* No row has answered anything in the empty table. *)
LEMMA InitAnswers == Init => Answers
  <1> SUFFICES ASSUME Init PROVE Answers
    OBVIOUS
  <1>1. \A i \in Items : delivered[i] = <<>> /\ rows[i].status = "absent"
    BY DEF Init, NoRow
  <1>2. \A i \in Items : RowAnswers(i)
    BY <1>1 DEF RowAnswers
  <1>3. \A p \in Workers : CallAnswers(p)
    BY IdleFields DEF Init, CallAnswers
  <1> QED BY <1>2, <1>3 DEF Init, Answers

(* One row never answers the same interrupt twice, however often its claim is *)
(* rolled back and the row decided again.                                     *)
THEOREM RowsAnswerOnce == Spec => []AnswersInterruptOnce
  <1>1. Init => Answers
    BY InitAnswers
  <1>2. Answers => AnswersInterruptOnce
    BY DEF Answers, RowAnswers, AnswersInterruptOnce
  <1>3. IndInv /\ Answers /\ [Next]_vars => Answers'
    BY AnswersStep
  <1> QED
    BY <1>1, <1>2, <1>3, Invariance, PTL DEF Spec

-----------------------------------------------------------------------------
(* The rollback.                                                            *)

(* Only the rollback itself and a crash take a call out of its rollback. *)
LEMMA LeavesReopen ==
    ASSUME IndInv, Next, NEW p \in Workers, pc[p] = "reopen", pc'[p] # "reopen"
    PROVE  Reopen(p) \/ Crash
  <1> SUFFICES ASSUME ~ Crash PROVE Reopen(p)
    OBVIOUS
  <1>0. pc \in [Workers -> Pcs]
    BY DEF IndInv, TypeOK
  <1>1. ASSUME NEW q \in Workers, NEW to, pc' = [pc EXCEPT ![q] = to], pc[q] # "reopen"
        PROVE  FALSE
    <2>1. q # p
      BY <1>1
    <2> QED BY <1>0, <1>1, <2>1
  <1>2. ASSUME NEW q \in Workers,
               \/ \E r \in Runs : Start(q, r) \/ Scan(q, r) \/ \E h \in 0 .. NGates : Replay(q, r, h)
               \/ \E i \in Items, a \in Choices : BeginDecide(q, i, a)
               \/ Refuse(q)
        PROVE  FALSE
    BY <1>1, <1>2 DEF Start, Scan, Replay, BeginDecide, Refuse, Goto, Finish
  <1>3. ASSUME NEW q \in Workers,
               InsertPending(q) \/ SelectPending(q) \/ LiveCheck(q) \/ Claim(q) \/ Resume(q)
        PROVE  FALSE
    BY <1>1, <1>3 DEF InsertPending, SelectPending, LiveCheck, Claim, Resume, Goto, Finish
  <1>4. ASSUME NEW q \in Workers,
               \/ GateReturns(q) \/ GateRaises(q) \/ (\E g \in Gates : SegmentPauses(q, g))
               \/ SegmentEnds(q) \/ SegmentRaises(q) \/ Audit(q) \/ AuditFails(q)
        PROVE  FALSE
    BY <1>1, <1>4 DEF GateReturns, GateRaises, SegmentPauses, SegmentEnds, SegmentRaises,
                      InvokeReturns, Audit, AuditFails, Goto, Finish
  <1>5. PICK q \in Workers : Reopen(q)
    BY <1>2, <1>3, <1>4 DEF Next, Serve
  <1>6. pc' = [pc EXCEPT ![q] = "idle"]
    BY <1>5 DEF Reopen, Finish
  <1>7. q = p
    BY <1>0, <1>6
  <1> QED BY <1>5, <1>7

(* The rollback of a failed resume leaves the gate with an open row: its own, *)
(* or the one that a scan inserted while the claim was being rolled back.     *)
THEOREM RollbackReopens == Spec => RollbackReopensGate
  <1>1. ASSUME IndInv, [Next]_vars, NEW p \in Workers,
               pc[p] = "reopen", pc'[p] = "idle", faults' = faults
        PROVE  LET i == job[p].item
               IN  \E j \in Items : /\ rows'[j].status = "pending"
                                    /\ rows'[j].run = rows[i].run
                                    /\ rows'[j].gate = rows[i].gate
    <2>1. Reopen(p)
      <3>1. Next
        BY <1>1 DEF vars
      <3>2. ~ Crash
        BY <1>1 DEF Crash, Fault, IndInv, TypeOK
      <3> QED BY <1>1, <3>1, <3>2, LeavesReopen
    <2>2. PICK i \in Items : i = job[p].item
      <3>1. job[p] \in Job /\ job[p].item # 0
        BY <1>1 DEF IndInv, TypeOK, JobsWellFormed, JobWellFormed
      <3> QED BY <3>1, JobFields, HitlAssumption DEF Items
    <2>3. rows \in [Items -> Row] /\ rows[i] \in Row
      BY <1>1 DEF IndInv, TypeOK
    <2>4. CASE PendingRows(rows[i].run, rows[i].gate) # {} /\ rows' = rows
      BY <2>2, <2>4 DEF PendingRows, IsPending
    <2>5. CASE SetStatus(i, "pending")
      <3> DEFINE w == [rows[i] EXCEPT !.status = "pending"]
      <3>1. w.status = "pending" /\ w.run = rows[i].run /\ w.gate = rows[i].gate
        BY <2>3, StatusUpdate
      <3>2. rows' = [rows EXCEPT ![i] = w]
        BY <2>5 DEF SetStatus
      <3> HIDE DEF w
      <3>3. rows'[i] = w
        BY <2>3, <3>2
      <3> QED BY <2>2, <3>1, <3>3
    <2> QED BY <2>1, <2>2, <2>4, <2>5 DEF Reopen
  <1>2. IndInv /\ [Next]_vars =>
          [\A p \in Workers :
              LET i == job[p].item
              IN  pc[p] = "reopen" /\ pc'[p] = "idle" /\ faults' = faults
                    => \E j \in Items : /\ rows'[j].status = "pending"
                                        /\ rows'[j].run = rows[i].run
                                        /\ rows'[j].gate = rows[i].gate]_vars
    BY <1>1
  <1> QED
    BY <1>2, Invariance, PTL DEF Spec, RollbackReopensGate

-----------------------------------------------------------------------------
(* What stays in the tables.                                                *)

(* Three steps write a row, and none takes its run away. *)
LEMMA RowSteps ==
    ASSUME [Next]_vars
    PROVE  rows' = rows \/ \E p \in Workers : InsertPending(p) \/ Claim(p) \/ Reopen(p)
  <1>1. ASSUME NEW p \in Workers, Serve(p), ~ InsertPending(p), ~ Claim(p), ~ Reopen(p) PROVE rows' = rows
    BY <1>1 DEF Serve, SelectPending, LiveCheck, Resume, GateReturns, GateRaises, SegmentPauses, SegmentEnds,
                SegmentRaises, Audit, AuditFails, tables
  <1>2. ASSUME NEW p \in Workers,
               \/ \E r \in Runs : Start(p, r) \/ Scan(p, r) \/ \E h \in 0 .. NGates : Replay(p, r, h)
               \/ \E i \in Items, a \in Choices : BeginDecide(p, i, a)
               \/ Refuse(p)
        PROVE  rows' = rows
    BY <1>2 DEF Start, Scan, Replay, BeginDecide, Refuse, tables
  <1> QED
    BY <1>1, <1>2 DEF Next, Crash, tables, vars

(* The row of a call that claims or rolls back. *)
LEMMA RowOfCall ==
    ASSUME IndInv, NEW p \in Workers, Claim(p) \/ Reopen(p)
    PROVE  \E i \in Items :
             /\ i = job[p].item /\ rows[i].status # "absent"
             /\ \A k \in Items : k # i => rows'[k] = rows[k]
             /\ \/ rows'[i] = rows[i]
                \/ /\ rows'[i].run = rows[i].run /\ rows'[i].gate = rows[i].gate
                   /\ \/ Claim(p) /\ rows[i].status = "pending" /\ pc'[p] = "resume" /\ job' = job
                         /\ rows'[i].status = ActionToStatus[job[p].action]
                      \/ Reopen(p) /\ rows'[i].status = "pending"
  <1>0. rows \in [Items -> Row] /\ pc \in [Workers -> Pcs] /\ job[p] \in Job
    BY DEF IndInv, TypeOK
  <1>1. job[p].item # 0 /\ rows[job[p].item].status # "absent" /\ job[p].action \in Actions
    BY DEF IndInv, JobsWellFormed, JobWellFormed, Claim, Reopen
  <1>2. PICK i \in Items : i = job[p].item
    BY <1>0, <1>1, JobFields, HitlAssumption DEF Items
  <1>3. ASSUME NEW t \in {"pending"} \cup Decided, SetStatus(i, t)
        PROVE  /\ rows'[i].status = t /\ rows'[i].run = rows[i].run /\ rows'[i].gate = rows[i].gate
               /\ \A k \in Items : k # i => rows'[k] = rows[k]
    <2> DEFINE w == [rows[i] EXCEPT !.status = t]
    <2>1. w.status = t /\ w.run = rows[i].run /\ w.gate = rows[i].gate
      BY <1>0, StatusUpdate
    <2>2. rows' = [rows EXCEPT ![i] = w]
      BY <1>3 DEF SetStatus
    <2> HIDE DEF w
    <2> QED BY <1>0, <2>1, <2>2
  <1>4. CASE Claim(p) /\ rows[i].status = "pending"
    <2>1. SetStatus(i, ActionToStatus[job[p].action]) /\ Goto(p, "resume") /\ job' = job
      BY <1>2, <1>4 DEF Claim
    <2>2. pc'[p] = "resume" /\ ActionToStatus[job[p].action] \in Decided
      BY <1>0, <1>1, <2>1, StatusFacts DEF Goto
    <2> QED BY <1>1, <1>2, <1>3, <1>4, <2>1, <2>2
  <1>5. CASE Reopen(p) /\ SetStatus(i, "pending")
    BY <1>1, <1>2, <1>3, <1>5
  <1>6. CASE rows' = rows
    BY <1>1, <1>2, <1>6
  <1> QED
    BY <1>2, <1>4, <1>5, <1>6 DEF Claim, Reopen

(* A row that exists keeps its run. *)
LEMMA RowsStay ==
    ASSUME IndInv, [Next]_vars, NEW i \in Items, rows[i].status # "absent"
    PROVE  rows'[i].status # "absent" /\ rows'[i].run = rows[i].run
  <1>0. rows \in [Items -> Row]
    BY DEF IndInv, TypeOK
  <1>1. CASE rows' = rows
    BY <1>1
  <1>2. ASSUME NEW p \in Workers, InsertPending(p) PROVE rows'[i] = rows[i]
    BY <1>0, <1>2 DEF InsertPending
  <1>3. ASSUME NEW p \in Workers, Claim(p) \/ Reopen(p)
        PROVE  rows'[i].status # "absent" /\ rows'[i].run = rows[i].run
    <2>1. job[p].action \in Actions
      BY <1>3 DEF IndInv, JobsWellFormed, JobWellFormed, Claim, Reopen
    <2> QED BY <1>3, <2>1, RowOfCall, StatusFacts
  <1> QED
    BY <1>1, <1>2, <1>3, RowSteps

(* What is audited stays audited. *)
LEMMA AuditsStay ==
    ASSUME IndInv, [Next]_vars, NEW i \in Items, audits[i] # <<>>
    PROVE  audits'[i] # <<>>
  <1>1. ASSUME NEW p \in Workers, Audit(p) PROVE audits'[i] # <<>>
    BY <1>1, AuditAccounts DEF Keeps
  <1>2. ASSUME NEW p \in Workers, Serve(p), ~ Audit(p) PROVE audits' = audits
    BY <1>2 DEF Serve, InsertPending, SelectPending, LiveCheck, Claim, Resume, GateReturns, GateRaises,
                SegmentPauses, SegmentEnds, SegmentRaises, AuditFails, Reopen, tables
  <1>3. ASSUME NEW p \in Workers,
               \/ \E r \in Runs : Start(p, r) \/ Scan(p, r) \/ \E h \in 0 .. NGates : Replay(p, r, h)
               \/ \E k \in Items, a \in Choices : BeginDecide(p, k, a)
               \/ Refuse(p)
        PROVE  audits' = audits
    BY <1>3 DEF Start, Scan, Replay, BeginDecide, Refuse, tables
  <1> QED
    BY <1>1, <1>2, <1>3 DEF Next, Crash, tables, vars

(* Nothing takes a fault back. *)
LEMMA FaultsStay ==
    ASSUME IndInv, [Next]_vars
    PROVE  faults' \in Nat /\ faults' >= faults
  <1>0. faults \in Nat
    BY HitlAssumption DEF IndInv, TypeOK
  <1>1. ASSUME NEW p \in Workers, Serve(p) PROVE faults' = faults \/ faults' = faults + 1
    BY <1>1 DEF Serve, InsertPending, SelectPending, LiveCheck, Claim, Resume, GateReturns, GateRaises, SegmentPauses,
                SegmentEnds, SegmentRaises, Audit, AuditFails, Reopen, Fault, budget
  <1>2. ASSUME NEW p \in Workers,
               \/ \E r \in Runs : Start(p, r) \/ Scan(p, r) \/ \E h \in 0 .. NGates : Replay(p, r, h)
               \/ \E k \in Items, a \in Choices : BeginDecide(p, k, a)
               \/ Refuse(p)
        PROVE  faults' = faults
    BY <1>2 DEF Start, Scan, Replay, BeginDecide, Refuse, budget
  <1>3. faults' = faults \/ faults' = faults + 1
    BY <1>1, <1>2 DEF Next, Crash, Fault, vars
  <1> QED
    BY <1>0, <1>3

(* While nothing fails a decision stands. *)
LEMMA DecisionsStay ==
    ASSUME IndInv, Accounted, [Next]_vars, faults = 0, NEW i \in Items, rows[i].status \in Decided
    PROVE  rows'[i] = rows[i]
  <1>0. rows \in [Items -> Row] /\ rows[i].status # "pending" /\ rows[i].status # "absent"
    BY StatusFacts DEF IndInv, TypeOK
  <1>1. \A p \in Workers : ~ Reopen(p)
    BY DEF Accounted, Reopen
  <1>2. ASSUME NEW p \in Workers, InsertPending(p) PROVE rows'[i] = rows[i]
    BY <1>0, <1>2 DEF InsertPending
  <1>3. ASSUME NEW p \in Workers, Claim(p) PROVE rows'[i] = rows[i]
    BY <1>0, <1>1, <1>3, RowOfCall
  <1> QED
    BY <1>1, <1>2, <1>3, RowSteps

(* A decision is made by a claim. *)
LEMMA DecisionIsClaimed ==
    ASSUME IndInv, [Next]_vars, NEW i \in Items, rows'[i].status \in Decided, rows[i].status \notin Decided
    PROVE  \E p \in Workers : Claim(p) /\ Holds(p, i)' /\ pc'[p] = "resume" /\ rows[i].status = "pending"
  <1>0. rows \in [Items -> Row] /\ "pending" \notin Decided
    BY StatusFacts DEF IndInv, TypeOK
  <1>1. \A p \in Workers : ~ InsertPending(p)
    BY <1>0 DEF InsertPending
  <1>2. PICK p \in Workers : Claim(p) \/ Reopen(p)
    BY <1>1, RowSteps
  <1>3. i = job[p].item /\ Claim(p) /\ rows[i].status = "pending" /\ pc'[p] = "resume" /\ job' = job
    BY <1>0, <1>2, RowOfCall
  <1> QED
    BY <1>3 DEF Holds, Holding

-----------------------------------------------------------------------------
(* The refinement of ApprovalLedger.  A step of one call moves the row the   *)
(* call holds, and every other row stays where it is because no two calls    *)
(* hold one row (ExclusiveClaim).                                            *)

LEMMA InvFacts ==
    ASSUME IndInv
    PROVE  /\ TypeOK /\ JobsWellFormed /\ HeldUnaudited /\ ExclusiveClaim /\ AuditTrailAgrees
           /\ pc \in [Workers -> Pcs] /\ job \in [Workers -> Job]
           /\ rows \in [Items -> Row] /\ audits \in [Items -> Seq(Actions)]
           /\ 0 \notin Items
  BY HitlAssumption DEF IndInv, TypeOK, Items

-----------------------------------------------------------------------------
(* Where a row stands.                                                      *)

(* A row that a call holds is claimed, or resumed once the call audits. *)
LEMMA HeldState ==
    ASSUME IndInv, NEW p \in Workers, NEW i \in Items, Holds(p, i)
    PROVE  /\ pc[p] = "audit" => LedgerState(i) = "resumed"
           /\ pc[p] # "audit" => LedgerState(i) = "claimed"
  <1>1. job[p].item = i /\ i # 0 /\ job[p].action \in Actions /\ audits[i] = <<>>
    BY InvFacts DEF Holds, HeldUnaudited, JobsWellFormed, JobWellFormed
  <1>2. rows[i].status = ActionToStatus[job[p].action] /\ \A q \in Workers : Holds(q, i) => p = q
    BY <1>1, InvFacts DEF ExclusiveClaim
  <1>3. rows[i].status # "absent" /\ rows[i].status # "pending"
    BY <1>1, <1>2, StatusFacts
  <1> QED
    BY <1>1, <1>2, <1>3 DEF LedgerState

(* How the record of a row, its audit trail and its holders give its place in *)
(* the ledger: the facts the actions use, for the state before a step and, by *)
(* the lemma below, for the state after it.                                   *)
OpenPlaces ==
    \A i \in Items :
        /\ rows[i].status = "absent" => LedgerState(i) = "absent" /\ LedgerVerdict(i) = "none"
        /\ rows[i].status = "pending" => LedgerState(i) = "open" /\ LedgerVerdict(i) = "none"

DecidedPlaces ==
    \A i \in Items, a \in Actions :
        rows[i].status = ActionToStatus[a] =>
            /\ LedgerVerdict(i) = a
            /\ audits[i] # <<>> => LedgerState(i) = "audited"
            /\ audits[i] = <<>> /\ (\A p \in Workers : ~ Holds(p, i)) => LedgerState(i) = "orphaned"

HeldPlaces ==
    \A p \in Workers, i \in Items :
        Holds(p, i) => /\ pc[p] = "audit" => LedgerState(i) = "resumed"
                       /\ pc[p] # "audit" => LedgerState(i) = "claimed"

LEMMA OpenFacts == OpenPlaces
  BY StatusFacts DEF OpenPlaces, LedgerState, LedgerVerdict

LEMMA DecidedFacts == DecidedPlaces
  <1> SUFFICES ASSUME NEW i \in Items, NEW a \in Actions, rows[i].status = ActionToStatus[a]
               PROVE  /\ LedgerVerdict(i) = a
                      /\ audits[i] # <<>> => LedgerState(i) = "audited"
                      /\ audits[i] = <<>> /\ (\A p \in Workers : ~ Holds(p, i))
                           => LedgerState(i) = "orphaned"
    BY DEF DecidedPlaces
  <1>1. rows[i].status \in Decided /\ \A b \in Actions : ActionToStatus[b] = rows[i].status <=> b = a
    BY StatusFacts
  <1>2. rows[i].status # "absent" /\ rows[i].status # "pending"
    BY StatusFacts
  <1>3. LedgerVerdict(i) = a
    BY <1>1 DEF LedgerVerdict
  <1> QED
    BY <1>2, <1>3 DEF LedgerState

LEMMA NextFacts == OpenPlaces' /\ DecidedPlaces' /\ (IndInv' => HeldPlaces')
  <1>1. IndInv => HeldPlaces
    BY HeldState DEF HeldPlaces
  <1> QED
    BY <1>1, OpenFacts, DecidedFacts, PTL

-----------------------------------------------------------------------------
(* Rows that a step does not move.                                          *)

(* A row whose record, audit trail and holders do not change stays where it is. *)
LEMMA Frame ==
    ASSUME NEW i \in Items, rows'[i] = rows[i], audits'[i] = audits[i],
           \A q \in Workers : Holds(q, i)' <=> Holds(q, i),
           \A q \in Workers : Holds(q, i) => (pc'[q] = "audit" <=> pc[q] = "audit")
    PROVE  LedgerState(i)' = LedgerState(i) /\ LedgerVerdict(i)' = LedgerVerdict(i)
  <1>1. (\E q \in Workers : Holds(q, i) /\ pc[q] = "audit")' <=> \E q \in Workers : Holds(q, i) /\ pc[q] = "audit"
    OBVIOUS
  <1>2. (\E q \in Workers : Holds(q, i))' <=> \E q \in Workers : Holds(q, i)
    OBVIOUS
  <1>3. LedgerState(i)' = LedgerState(i)
    BY <1>1, <1>2 DEF LedgerState
  <1>4. LedgerVerdict(i)' = LedgerVerdict(i)
    BY DEF LedgerVerdict
  <1> QED
    BY <1>3, <1>4

(* p is the only call that moves. *)
Alone(p) == \A q \in Workers : q # p => pc'[q] = pc[q] /\ job'[q] = job[q]

(* A step of one call leaves a row where it is when the call neither takes nor *)
(* drops it, and is in its audit after the step iff it was before.             *)
LEMMA AloneFrame ==
    ASSUME NEW p \in Workers, Alone(p),
           NEW i \in Items, rows'[i] = rows[i], audits'[i] = audits[i],
           Holds(p, i)' <=> Holds(p, i),
           Holds(p, i) => (pc'[p] = "audit" <=> pc[p] = "audit")
    PROVE  LedgerState(i)' = LedgerState(i) /\ LedgerVerdict(i)' = LedgerVerdict(i)
  <1>1. \A q \in Workers : Holds(q, i)' <=> Holds(q, i)
    BY DEF Alone, Holds
  <1>2. \A q \in Workers : Holds(q, i) => (pc'[q] = "audit" <=> pc[q] = "audit")
    BY DEF Alone
  <1> QED
    BY <1>1, <1>2, Frame

(* A step that moves no row is a stutter of the ledger. *)
LEMMA Stutter ==
    ASSUME \A i \in Items : LedgerState(i)' = LedgerState(i) /\ LedgerVerdict(i)' = LedgerVerdict(i)
    PROVE  [Ledger!LedgerNext]_(Ledger!ledgerVars)
  <1>1. [i \in Items |-> LedgerState(i)]' = [i \in Items |-> LedgerState(i)]
    OBVIOUS
  <1>2. [i \in Items |-> LedgerVerdict(i)]' = [i \in Items |-> LedgerVerdict(i)]
    OBVIOUS
  <1> QED
    BY <1>1, <1>2 DEF Ledger!ledgerVars

(* A step that moves row i alone is a move of the ledger. *)
LEMMA Moves ==
    ASSUME NEW i \in Items,
           \A k \in Items : k # i => LedgerState(k)' = LedgerState(k)
    PROVE  Ledger!Move(i, LedgerState(i), LedgerState(i)')
  BY DEF Ledger!Move

LEMMA SameVerdicts ==
    ASSUME \A k \in Items : LedgerVerdict(k)' = LedgerVerdict(k)
    PROVE  UNCHANGED [i \in Items |-> LedgerVerdict(i)]
  OBVIOUS

(* The call changes its own place and locals only. *)
LEMMA StepAlone ==
    ASSUME IndInv, NEW p \in Workers, NEW to, NEW j,
           pc' = [pc EXCEPT ![p] = to], job' = [job EXCEPT ![p] = j]
    PROVE  Alone(p) /\ pc'[p] = to /\ job'[p] = j
  BY InvFacts DEF Alone

LEMMA FinishAlone ==
    ASSUME IndInv, NEW p \in Workers, Finish(p)
    PROVE  Alone(p) /\ pc'[p] = "idle" /\ \A i : ~ Holds(p, i)'
  <1>1. Alone(p) /\ pc'[p] = "idle"
    BY StepAlone DEF Finish
  <1> QED
    BY <1>1 DEF Holds, Holding

LEMMA GotoAlone ==
    ASSUME IndInv, NEW p \in Workers, NEW to, Goto(p, to), job' = job
    PROVE  Alone(p) /\ pc'[p] = to /\ job'[p] = job[p]
  BY InvFacts DEF Alone, Goto

(* A call that holds no row before and after the step moves none. *)
LEMMA Bystander ==
    ASSUME NEW p \in Workers, Alone(p), UNCHANGED tables,
           \A i \in Items : ~ Holds(p, i) /\ ~ Holds(p, i)'
    PROVE  [Ledger!LedgerNext]_(Ledger!ledgerVars)
  <1>1. ASSUME NEW i \in Items
        PROVE  LedgerState(i)' = LedgerState(i) /\ LedgerVerdict(i)' = LedgerVerdict(i)
    BY AloneFrame DEF tables
  <1> QED
    BY <1>1, Stutter

(* A call that stays on its row, before its audit, moves none. *)
LEMMA Working ==
    ASSUME NEW p \in Workers, Alone(p), UNCHANGED tables,
           pc[p] \in Holding \ {"audit"}, pc'[p] \in Holding \ {"audit"},
           job'[p].item = job[p].item
    PROVE  [Ledger!LedgerNext]_(Ledger!ledgerVars)
  <1>1. ASSUME NEW i \in Items
        PROVE  LedgerState(i)' = LedgerState(i) /\ LedgerVerdict(i)' = LedgerVerdict(i)
    <2>1. Holds(p, i)' <=> Holds(p, i)
      BY DEF Holds
    <2> QED
      BY <2>1, AloneFrame DEF tables
  <1> QED
    BY <1>1, Stutter

-----------------------------------------------------------------------------
(* The actions.                                                             *)

(* Starting, replaying and scanning a run, and reading a row to decide it, *)
(* happen outside the ledger.                                              *)
LEMMA StartMaps ==
    ASSUME IndInv, NEW p \in Workers,
           NEW r \in Runs \cup {None}, NEW g \in 0 .. NGates,
           NEW i \in 0 .. MaxItems, NEW a \in Actions \cup {"none"},
           pc[p] = "idle", NEW to \in Pcs, to \in Holding => i = 0,
           Goto(p, to), job' = [job EXCEPT ![p] = Call(r, g, i, a)], UNCHANGED tables
    PROVE  [Ledger!LedgerNext]_(Ledger!ledgerVars)
  <1>1. Alone(p) /\ pc'[p] = to /\ job'[p] = Call(r, g, i, a)
    BY StepAlone DEF Goto
  <1>2. job'[p].item = i
    BY <1>1, CallFields
  <1>3. \A k \in Items : ~ Holds(p, k) /\ ~ Holds(p, k)'
    BY <1>1, <1>2, InvFacts DEF Holds, Holding
  <1> QED
    BY <1>1, <1>3, Bystander

LEMMA IdleMaps ==
    ASSUME IndInv, NEW p \in Workers,
           \/ \E r \in Runs : Start(p, r) \/ Scan(p, r) \/ \E h \in 0 .. NGates : Replay(p, r, h)
           \/ \E i \in Items, a \in Choices : BeginDecide(p, i, a)
    PROVE  [Ledger!LedgerNext]_(Ledger!ledgerVars)
  <1>0. /\ "segment" \in Pcs /\ 0 \in 0 .. NGates /\ 0 \in 0 .. MaxItems
        /\ "none" \in Actions \cup {"none"} /\ \A r \in Runs : r \in Runs \cup {None}
    BY HitlAssumption DEF Pcs, Holding
  <1>1. ASSUME NEW r \in Runs, Start(p, r) PROVE [Ledger!LedgerNext]_(Ledger!ledgerVars)
    <2>1. pc[p] = "idle" /\ Goto(p, "segment") /\ UNCHANGED tables
          /\ job' = [job EXCEPT ![p] = Call(r, 0, 0, "none")]
      BY <1>1 DEF Start
    <2> QED
      BY <1>0, <2>1, StartMaps
  <1>2. ASSUME NEW r \in Runs, NEW h \in 0 .. NGates, Replay(p, r, h)
        PROVE  [Ledger!LedgerNext]_(Ledger!ledgerVars)
    <2>1. pc[p] = "idle" /\ Goto(p, "segment") /\ UNCHANGED tables
          /\ job' = [job EXCEPT ![p] = Call(r, h, 0, "none")]
      BY <1>2 DEF Replay
    <2> QED
      BY <1>0, <2>1, StartMaps
  <1>3. ASSUME NEW r \in Runs, Scan(p, r) PROVE [Ledger!LedgerNext]_(Ledger!ledgerVars)
    <2>1. pc[p] = "idle" /\ Goto(p, "insert") /\ UNCHANGED tables
          /\ job' = [job EXCEPT ![p] = Call(r, ckpt[r].at + 1, 0, "none")]
      BY <1>3 DEF Scan
    <2>2. ckpt[r].at + 1 \in 0 .. NGates
      BY <1>3, HitlAssumption DEF Scan, IndInv, TypeOK, Ckpt, StoresWellFormed
    <2>3. "insert" \in Pcs /\ "insert" \notin Holding
      BY DEF Pcs, Holding
    <2> QED
      BY <1>0, <2>1, <2>2, <2>3, StartMaps
  <1>4. ASSUME NEW i \in Items, NEW a \in Choices, BeginDecide(p, i, a)
        PROVE  [Ledger!LedgerNext]_(Ledger!ledgerVars)
    <2>1. pc[p] = "idle" /\ Goto(p, "check") /\ UNCHANGED tables
          /\ job' = [job EXCEPT ![p] = Call(rows[i].run, rows[i].gate, i, a)]
      BY <1>4 DEF BeginDecide
    <2>2. rows[i].run \in Runs \cup {None} /\ rows[i].gate \in 0 .. NGates
          /\ i \in 0 .. MaxItems /\ a \in Actions \cup {"none"}
      BY InvFacts, RowFields, HitlAssumption DEF Items
    <2>3. "check" \in Pcs /\ "check" \notin Holding
      BY DEF Pcs, Holding
    <2> QED
      BY <2>1, <2>2, <2>3, StartMaps
  <1> QED
    BY <1>1, <1>2, <1>3, <1>4

(* Outside its claim a call moves no row by leaving or by a failed check. *)
LEMMA OutsideMaps ==
    ASSUME IndInv, NEW p \in Workers, Refuse(p) \/ SelectPending(p) \/ LiveCheck(p)
    PROVE  [Ledger!LedgerNext]_(Ledger!ledgerVars)
  <1>1. pc[p] \notin Holding /\ UNCHANGED tables
    BY DEF Refuse, SelectPending, LiveCheck, Holding
  <1>2. CASE Finish(p)
    BY <1>1, <1>2, FinishAlone, Bystander DEF Holds
  <1>3. CASE Goto(p, "claim") /\ job' = job
    <2>1. Alone(p) /\ pc'[p] = "claim"
      BY <1>3, GotoAlone
    <2>2. \A i \in Items : ~ Holds(p, i) /\ ~ Holds(p, i)'
      BY <1>1, <2>1 DEF Holds, Holding
    <2> QED
      BY <1>1, <2>1, <2>2, Bystander
  <1> QED
    BY <1>2, <1>3 DEF Refuse, SelectPending, LiveCheck

(* A new row opens; a swallowed IntegrityError changes nothing. *)
LEMMA InsertMaps ==
    ASSUME IndInv, NEW p \in Workers, InsertPending(p)
    PROVE  [Ledger!LedgerNext]_(Ledger!ledgerVars)
  <1>1. Alone(p) /\ pc'[p] = "select" /\ UNCHANGED <<audits, job>> /\ pc[p] = "insert"
    BY GotoAlone DEF InsertPending
  <1>2. \A i \in Items : ~ Holds(p, i) /\ ~ Holds(p, i)'
    BY <1>1 DEF Holds, Holding
  <1>3. CASE rows' = rows
    BY <1>1, <1>2, <1>3, Bystander DEF tables
  <1>4. CASE rows' # rows
    <2>1. PICK i \in Items :
             /\ rows[i].status = "absent"
             /\ rows' = [rows EXCEPT ![i] = [status |-> "pending", run |-> job[p].run, gate |-> job[p].gate]]
      BY <1>4 DEF InsertPending
    <2>2. /\ rows'[i].status = "pending"
          /\ \A k \in Items : k # i => rows'[k] = rows[k]
      BY <2>1, InvFacts
    <2>3. \A k \in Items : k # i => LedgerState(k)' = LedgerState(k) /\ LedgerVerdict(k)' = LedgerVerdict(k)
      BY <1>1, <1>2, <2>2, AloneFrame
    <2>4. LedgerState(i) = "absent" /\ LedgerVerdict(i) = "none"
      BY <2>1, OpenFacts DEF OpenPlaces
    <2>5. LedgerState(i)' = "open" /\ LedgerVerdict(i)' = "none"
      BY <2>2, NextFacts DEF OpenPlaces
    <2>6. Ledger!Move(i, "absent", "open")
      BY <2>3, <2>4, <2>5, Moves
    <2>7. UNCHANGED [k \in Items |-> LedgerVerdict(k)]
      BY <2>3, <2>4, <2>5, SameVerdicts
    <2> QED
      BY <2>6, <2>7 DEF Ledger!LedgerNext, Ledger!OpenRow
  <1> QED
    BY <1>3, <1>4

(* The winner of a claim takes the row. *)
LEMMA ClaimMaps ==
    ASSUME IndInv, NEW p \in Workers, Claim(p)
    PROVE  [Ledger!LedgerNext]_(Ledger!ledgerVars)
  <1>1. pc[p] = "claim" /\ UNCHANGED audits
    BY DEF Claim
  <1>2. PICK i \in Items, a \in Actions :
             i = job[p].item /\ a = job[p].action /\ \A k \in Items : ~ Holds(p, k)
    BY <1>1, InvFacts, JobFields, HitlAssumption
       DEF JobsWellFormed, JobWellFormed, Items, Holds, Holding
  <1> DEFINE new == [rows[i] EXCEPT !.status = ActionToStatus[a]]
  <1>3. CASE rows[i].status # "pending"
    <2>1. Finish(p) /\ UNCHANGED tables
      BY <1>1, <1>2, <1>3 DEF Claim, tables
    <2> QED
      BY <1>2, <2>1, FinishAlone, Bystander
  <1>4. CASE rows[i].status = "pending"
    <2>1. Goto(p, "resume") /\ job' = job /\ rows' = [rows EXCEPT ![i] = new]
      BY <1>2, <1>4 DEF Claim, SetStatus
    <2>2. Alone(p) /\ pc'[p] = "resume"
      BY <2>1, GotoAlone
    <2>3. new \in Row /\ new.status = ActionToStatus[a]
      <3>1. rows[i] \in Row /\ ActionToStatus[a] \in {"absent", "pending"} \cup Decided
        BY <1>2, InvFacts, StatusFacts
      <3> QED
        BY <3>1, StatusUpdate
    <2> HIDE DEF new
    <2>4. rows'[i] = new /\ \A k \in Items : k # i => rows'[k] = rows[k]
      BY <1>2, <2>1, InvFacts
    <2>5. \A k \in Items : Holds(p, k)' => k = i
      BY <1>2, <2>1 DEF Holds
    <2>6. Holds(p, i)'
      BY <1>2, <2>1, <2>2 DEF Holds, Holding
    <2>7. \A k \in Items : k # i => /\ LedgerState(k)' = LedgerState(k)
                                  /\ LedgerVerdict(k)' = LedgerVerdict(k)
      BY <1>1, <1>2, <2>2, <2>4, <2>5, AloneFrame
    <2>8. LedgerState(i) = "open"
      BY <1>2, <1>4, OpenFacts DEF OpenPlaces
    <2>9. LedgerState(i)' = "claimed"
      BY <1>2, <2>2, <2>6, ClaimKeeps, NextFacts DEF HeldPlaces
    <2>10. LedgerVerdict(i)' = a
      BY <1>2, <2>3, <2>4, NextFacts DEF DecidedPlaces
    <2>11. Ledger!Move(i, "open", "claimed")
      BY <1>2, <2>7, <2>8, <2>9, Moves
    <2>12. [k \in Items |-> LedgerVerdict(k)]' =
             [[k \in Items |-> LedgerVerdict(k)] EXCEPT ![i] = a]
      BY <1>2, <2>7, <2>10
    <2> QED
      BY <1>2, <2>11, <2>12 DEF Ledger!LedgerNext, Ledger!TakeRow
  <1> QED
    BY <1>3, <1>4

(* A call that held row i before the step either stands in its audit after it, *)
(* which finishes the resume, or drops the row.  The tables do not change.     *)
LEMMA ResumeReturns ==
    ASSUME IndInv, IndInv', NEW p \in Workers, Alone(p), UNCHANGED tables,
           pc[p] \in Holding \ {"audit"}, pc'[p] = "audit", job'[p].item = job[p].item,
           job[p].item # 0
    PROVE  [Ledger!LedgerNext]_(Ledger!ledgerVars)
  <1>1. PICK i \in Items : i = job[p].item
    BY InvFacts, JobFields, HitlAssumption DEF Items
  <1>2. Holds(p, i) /\ Holds(p, i)' /\ \A k \in Items : k # i => ~ Holds(p, k) /\ ~ Holds(p, k)'
    BY <1>1 DEF Holds, Holding
  <1>3. LedgerState(i) = "claimed" /\ LedgerState(i)' = "resumed"
    BY <1>2, HeldState, NextFacts DEF HeldPlaces
  <1>4. \A k \in Items : k # i => LedgerState(k)' = LedgerState(k) /\ LedgerVerdict(k)' = LedgerVerdict(k)
    BY <1>2, AloneFrame DEF tables
  <1>5. LedgerVerdict(i)' = LedgerVerdict(i)
    BY DEF LedgerVerdict, tables
  <1>6. Ledger!Move(i, "claimed", "resumed")
    BY <1>3, <1>4, Moves
  <1>7. UNCHANGED [k \in Items |-> LedgerVerdict(k)]
    BY <1>4, <1>5, SameVerdicts
  <1> QED
    BY <1>6, <1>7 DEF Ledger!LedgerNext, Ledger!FinishResume

(* A call that ends without an audit row for the row it held loses it. *)
LEMMA Abandons ==
    ASSUME IndInv, NEW p \in Workers, Finish(p), UNCHANGED tables,
           pc[p] \in Holding, job[p].item # 0
    PROVE  [Ledger!LedgerNext]_(Ledger!ledgerVars)
  <1>1. PICK i \in Items : i = job[p].item
    BY InvFacts, JobFields, HitlAssumption DEF Items
  <1>2. PICK a \in Actions : a = job[p].action
    BY <1>1, InvFacts DEF JobsWellFormed, JobWellFormed
  <1>3. Alone(p) /\ \A k \in Items : ~ Holds(p, k)'
    BY FinishAlone
  <1>4. Holds(p, i) /\ \A k \in Items : k # i => ~ Holds(p, k)
    BY <1>1 DEF Holds
  <1>5. /\ LedgerState(i) \in {"claimed", "resumed"}
        /\ audits[i] = <<>> /\ rows[i].status = ActionToStatus[a]
        /\ \A q \in Workers : Holds(q, i) => q = p
    BY <1>1, <1>2, <1>4, InvFacts, HeldState DEF HeldUnaudited, ExclusiveClaim
  <1>6. \A q \in Workers : ~ Holds(q, i)'
    BY <1>3, <1>5 DEF Alone, Holds
  <1>7. LedgerState(i)' = "orphaned" /\ LedgerVerdict(i)' = LedgerVerdict(i)
    BY <1>5, <1>6, DecidedFacts, NextFacts DEF DecidedPlaces, tables
  <1>8. \A k \in Items : k # i => LedgerState(k)' = LedgerState(k) /\ LedgerVerdict(k)' = LedgerVerdict(k)
    BY <1>3, <1>4, AloneFrame DEF tables
  <1>9. [k \in Items |-> LedgerState(k)]' =
          [k \in Items |-> IF k \in {i} THEN "orphaned" ELSE [m \in Items |-> LedgerState(m)][k]]
    BY <1>7, <1>8
  <1>10. UNCHANGED [k \in Items |-> LedgerVerdict(k)]
    BY <1>7, <1>8, SameVerdicts
  <1>11. Ledger!Lose({i})
    BY <1>5, <1>9, <1>10 DEF Ledger!Lose
  <1> QED
    BY <1>11 DEF Ledger!LedgerNext

(* The resume starts: re-executing a gate or a segment is part of the claim, a *)
(* graph at its end returns at once.                                           *)
LEMMA ResumeMaps ==
    ASSUME IndInv, NEW p \in Workers, Resume(p)
    PROVE  [Ledger!LedgerNext]_(Ledger!ledgerVars)
  <1>1. IndInv' /\ UNCHANGED tables /\ pc[p] = "resume" /\ pc[p] \in Holding \ {"audit"}
    BY ResumeKeeps DEF Resume, Holding
  <1>2. job[p] \in Job /\ job[p].item # 0
    BY <1>1, InvFacts DEF JobsWellFormed, JobWellFormed
  <1>3. CASE ckpt[job[p].run].phase = "paused"
    <2> DEFINE g == ckpt[job[p].run].at + 1
               n == ckpt[job[p].run].intr
               k == [job[p] EXCEPT !.gate = g, !.intr = n]
    <2>1. Goto(p, "gate") /\ job' = [job EXCEPT ![p] = k]
      BY <1>3 DEF Resume
    <2> HIDE DEF g, n
    <2>2. k.item = job[p].item
      BY ONLY <1>2 DEF Job, k
    <2> HIDE DEF k
    <2>3. Alone(p) /\ pc'[p] = "gate" /\ job'[p].item = job[p].item
      BY <2>1, <2>2, StepAlone DEF Goto
    <2> QED
      BY <1>1, <2>3, Working DEF Holding
  <1>4. CASE ckpt[job[p].run].phase = "running"
    <2> DEFINE a == ckpt[job[p].run].at
               next == [job[p] EXCEPT !.gate = a + 1]
               left == [job[p] EXCEPT !.gate = a]
    <2>1. \/ Goto(p, "gate") /\ job' = [job EXCEPT ![p] = next]
          \/ Goto(p, "segment") /\ job' = [job EXCEPT ![p] = left]
      BY <1>4 DEF Resume
    <2> HIDE DEF a
    <2>2. next.item = job[p].item /\ left.item = job[p].item
      BY ONLY <1>2 DEF Job, next, left
    <2> HIDE DEF next, left
    <2>3. Alone(p) /\ pc'[p] \in {"gate", "segment"} /\ job'[p].item = job[p].item
      BY <2>1, <2>2, StepAlone DEF Goto
    <2> QED
      BY <1>1, <2>3, Working DEF Holding
  <1>5. CASE ckpt[job[p].run].phase = "done"
    <2>1. Goto(p, "audit") /\ job' = job
      BY <1>5 DEF Resume
    <2>2. Alone(p) /\ pc'[p] = "audit" /\ job'[p].item = job[p].item
      BY <2>1, GotoAlone
    <2> QED
      BY <1>1, <1>2, <2>2, ResumeReturns
  <1> QED
    BY <1>3, <1>4, <1>5 DEF Resume

(* Inside the resume call the row stays claimed. *)
LEMMA GateMaps ==
    ASSUME IndInv, NEW p \in Workers, GateReturns(p) \/ GateRaises(p)
    PROVE  [Ledger!LedgerNext]_(Ledger!ledgerVars)
  <1>1. UNCHANGED tables /\ pc[p] \in Holding \ {"audit"} /\ job[p] \in Job
    BY InvFacts DEF GateReturns, GateRaises, Holding
  <1>2. CASE GateReturns(p)
    <2> DEFINE k == [job[p] EXCEPT !.sent = TRUE]
    <2>1. Goto(p, "segment") /\ job' = [job EXCEPT ![p] = k]
      BY <1>2 DEF GateReturns
    <2>2. k.item = job[p].item
      BY <1>1, SentUpdate
    <2> HIDE DEF k
    <2>3. Alone(p) /\ pc'[p] = "segment" /\ job'[p].item = job[p].item
      BY <2>1, <2>2, StepAlone DEF Goto
    <2> QED
      BY <1>1, <2>3, Working DEF Holding
  <1>3. CASE GateRaises(p)
    <2>1. Alone(p) /\ pc'[p] = "reopen" /\ job'[p] = job[p]
      BY <1>3, GotoAlone DEF GateRaises
    <2> QED
      BY <1>1, <2>1, Working DEF Holding
  <1> QED
    BY <1>2, <1>3

(* A segment that ends or pauses returns the resume call, if there is one. *)
LEMMA SegmentMaps ==
    ASSUME IndInv, NEW p \in Workers,
           (\E g \in Gates : SegmentPauses(p, g)) \/ SegmentEnds(p) \/ SegmentRaises(p)
    PROVE  [Ledger!LedgerNext]_(Ledger!ledgerVars)
  <1>1. IndInv' /\ UNCHANGED tables /\ pc[p] \in Holding \ {"audit"}
    BY SegmentPausesKeeps, SegmentEndsKeeps, RaisingKeeps
       DEF SegmentPauses, SegmentEnds, SegmentRaises, Holding
  <1>2. CASE job[p].item = 0
    <2>1. Finish(p)
      BY <1>2 DEF SegmentPauses, SegmentEnds, SegmentRaises, InvokeReturns
    <2>2. \A i \in Items : ~ Holds(p, i)
      BY <1>2, InvFacts DEF Holds
    <2> QED
      BY <1>1, <2>1, <2>2, FinishAlone, Bystander
  <1>3. CASE job[p].item # 0
    <2>1. job' = job /\ (Goto(p, "audit") \/ Goto(p, "reopen"))
      BY <1>3 DEF SegmentPauses, SegmentEnds, SegmentRaises, InvokeReturns
    <2>2. CASE Goto(p, "audit") /\ job' = job
      <3>1. Alone(p) /\ pc'[p] = "audit" /\ job'[p].item = job[p].item
        BY <2>2, GotoAlone
      <3> QED
        BY <1>1, <1>3, <3>1, ResumeReturns
    <2>3. CASE Goto(p, "reopen") /\ job' = job
      <3>1. Alone(p) /\ pc'[p] = "reopen" /\ job'[p].item = job[p].item
        BY <2>3, GotoAlone
      <3> QED
        BY <1>1, <3>1, Working DEF Holding
    <2> QED
      BY <2>1, <2>2, <2>3
  <1> QED
    BY <1>2, <1>3

(* The audit makes the decision final. *)
LEMMA AuditMaps ==
    ASSUME IndInv, NEW p \in Workers, Audit(p)
    PROVE  [Ledger!LedgerNext]_(Ledger!ledgerVars)
  <1>1. pc[p] = "audit" /\ Finish(p) /\ rows' = rows /\ job[p].item # 0
    BY InvFacts DEF Audit, JobsWellFormed, JobWellFormed
  <1>2. PICK i \in Items : i = job[p].item
    BY <1>1, InvFacts, JobFields, HitlAssumption DEF Items
  <1>3. PICK a \in Actions : a = job[p].action
    BY <1>1, InvFacts DEF JobsWellFormed, JobWellFormed
  <1>4. Alone(p) /\ \A k \in Items : ~ Holds(p, k)'
    BY <1>1, FinishAlone
  <1>5. Holds(p, i) /\ \A k \in Items : k # i => ~ Holds(p, k)
    BY <1>1, <1>2 DEF Holds, Holding
  <1>6. LedgerState(i) = "resumed" /\ audits[i] = <<>> /\ rows[i].status = ActionToStatus[a]
    BY <1>1, <1>2, <1>3, <1>5, InvFacts, HeldState DEF HeldUnaudited, ExclusiveClaim
  <1>7. audits' = [audits EXCEPT ![i] = Append(@, a)]
    BY <1>2, <1>3 DEF Audit
  <1>8. Append(audits[i], a) = <<a>> /\ <<a>> # <<>>
    BY <1>6
  <1>9. audits'[i] # <<>> /\ \A k \in Items : k # i => audits'[k] = audits[k]
    BY <1>7, <1>8, InvFacts
  <1>10. LedgerState(i)' = "audited" /\ LedgerVerdict(i)' = LedgerVerdict(i)
    BY <1>1, <1>6, <1>9, DecidedFacts, NextFacts DEF DecidedPlaces
  <1>11. \A k \in Items : k # i => LedgerState(k)' = LedgerState(k) /\ LedgerVerdict(k)' = LedgerVerdict(k)
    BY <1>1, <1>4, <1>5, <1>9, AloneFrame
  <1>12. Ledger!Move(i, "resumed", "audited")
    BY <1>6, <1>10, <1>11, Moves
  <1>13. UNCHANGED [k \in Items |-> LedgerVerdict(k)]
    BY <1>10, <1>11, SameVerdicts
  <1> QED
    BY <1>12, <1>13 DEF Ledger!LedgerNext, Ledger!FinishAudit

(* A failed audit leaves the row decided and out of everybody's hands. *)
LEMMA AuditFailsMaps ==
    ASSUME IndInv, NEW p \in Workers, AuditFails(p)
    PROVE  [Ledger!LedgerNext]_(Ledger!ledgerVars)
  <1>1. pc[p] \in Holding /\ Finish(p) /\ UNCHANGED tables /\ job[p].item # 0
    BY InvFacts DEF AuditFails, JobsWellFormed, JobWellFormed, Holding
  <1> QED
    BY <1>1, Abandons

(* A rollback opens the row, or loses it to the twin row of its gate. *)
LEMMA ReopenMaps ==
    ASSUME IndInv, NEW p \in Workers, Reopen(p)
    PROVE  [Ledger!LedgerNext]_(Ledger!ledgerVars)
  <1>1. pc[p] = "reopen" /\ pc[p] \in Holding /\ Finish(p) /\ UNCHANGED audits /\ job[p].item # 0
    BY InvFacts DEF Reopen, JobsWellFormed, JobWellFormed, Holding
  <1>2. CASE rows' = rows
    BY <1>1, <1>2, Abandons DEF tables
  <1>3. CASE rows' # rows
    <2>1. PICK i \in Items : i = job[p].item
      BY <1>1, InvFacts, JobFields, HitlAssumption DEF Items
    <2> DEFINE new == [rows[i] EXCEPT !.status = "pending"]
    <2>2. rows' = [rows EXCEPT ![i] = new]
      BY <1>3, <2>1 DEF Reopen, SetStatus
    <2>3. new.status = "pending"
      <3>1. rows[i] \in Row
        BY InvFacts
      <3> QED
        BY <3>1, StatusUpdate
    <2> HIDE DEF new
    <2>4. rows'[i].status = "pending" /\ \A k \in Items : k # i => rows'[k] = rows[k]
      BY <2>2, <2>3, InvFacts
    <2>5. Alone(p) /\ \A k \in Items : ~ Holds(p, k)'
      BY <1>1, FinishAlone
    <2>6. Holds(p, i) /\ \A k \in Items : k # i => ~ Holds(p, k)
      BY <1>1, <2>1 DEF Holds
    <2>7. LedgerState(i) = "claimed"
      BY <1>1, <2>6, HeldState
    <2>8. LedgerState(i)' = "open" /\ LedgerVerdict(i)' = "none"
      BY <2>4, NextFacts DEF OpenPlaces
    <2>9. \A k \in Items : k # i => /\ LedgerState(k)' = LedgerState(k)
                                  /\ LedgerVerdict(k)' = LedgerVerdict(k)
      BY <1>1, <2>4, <2>5, <2>6, AloneFrame
    <2>10. Ledger!Move(i, "claimed", "open")
      BY <2>7, <2>8, <2>9, Moves
    <2>11. [k \in Items |-> LedgerVerdict(k)]' =
             [[k \in Items |-> LedgerVerdict(k)] EXCEPT ![i] = "none"]
      BY <2>8, <2>9
    <2> QED
      BY <2>10, <2>11 DEF Ledger!LedgerNext, Ledger!RollBack
  <1> QED
    BY <1>2, <1>3

(* A crash loses every row that was held. *)
LEMMA CrashMaps ==
    ASSUME IndInv, Crash
    PROVE  [Ledger!LedgerNext]_(Ledger!ledgerVars)
  <1> DEFINE lost == {i \in Items : \E p \in Workers : Holds(p, i)}
  <1>1. UNCHANGED tables /\ \A q \in Workers : \A i \in Items : ~ Holds(q, i)'
    <2>1. \A q \in Workers : pc'[q] = "idle"
      BY DEF Crash
    <2> QED
      BY <2>1 DEF Crash, Holds, Holding
  <1>2. ASSUME NEW i \in Items, i \notin lost
        PROVE  LedgerState(i)' = LedgerState(i) /\ LedgerVerdict(i)' = LedgerVerdict(i)
    BY <1>1, <1>2, Frame DEF tables
  <1>3. ASSUME NEW i \in Items, i \in lost
        PROVE  /\ LedgerState(i) \in {"claimed", "resumed"}
               /\ LedgerState(i)' = "orphaned" /\ LedgerVerdict(i)' = LedgerVerdict(i)
    <2>1. PICK p \in Workers : Holds(p, i)
      BY <1>3
    <2>2. job[p].item = i /\ i # 0
      BY <2>1, InvFacts DEF Holds
    <2>3. PICK a \in Actions : a = job[p].action
      BY <2>2, InvFacts DEF JobsWellFormed, JobWellFormed
    <2>4. audits[i] = <<>> /\ rows[i].status = ActionToStatus[a]
      BY <2>1, <2>2, <2>3, InvFacts DEF HeldUnaudited, ExclusiveClaim
    <2> QED
      BY <1>1, <2>1, <2>4, HeldState, DecidedFacts, NextFacts DEF DecidedPlaces, tables
  <1>4. CASE lost = {}
    BY <1>2, <1>4, Stutter
  <1>5. CASE lost # {}
    <2> HIDE DEF lost
    <2>1. [k \in Items |-> LedgerState(k)]' =
            [k \in Items |-> IF k \in lost THEN "orphaned" ELSE [m \in Items |-> LedgerState(m)][k]]
      BY <1>2, <1>3
    <2>2. UNCHANGED [k \in Items |-> LedgerVerdict(k)]
      BY <1>2, <1>3, SameVerdicts
    <2>3. lost \in SUBSET Items
      BY DEF lost
    <2>4. Ledger!Lose(lost)
      BY <1>3, <1>5, <2>1, <2>2, <2>3 DEF Ledger!Lose
    <2> QED
      BY <2>3, <2>4 DEF Ledger!LedgerNext
  <1> QED
    BY <1>4, <1>5

-----------------------------------------------------------------------------

(* Every step is a step of the ledger or moves no row. *)
LEMMA StepMaps == IndInv /\ [Next]_vars => [Ledger!LedgerNext]_(Ledger!ledgerVars)
  <1> SUFFICES ASSUME IndInv, [Next]_vars PROVE [Ledger!LedgerNext]_(Ledger!ledgerVars)
    OBVIOUS
  <1>1. ASSUME NEW p \in Workers, Serve(p) PROVE [Ledger!LedgerNext]_(Ledger!ledgerVars)
    BY <1>1, InsertMaps, OutsideMaps, ClaimMaps, ResumeMaps, GateMaps, SegmentMaps,
       AuditMaps, AuditFailsMaps, ReopenMaps
       DEF Serve
  <1>2. ASSUME NEW p \in Workers,
               \/ \E r \in Runs : Start(p, r) \/ Scan(p, r) \/ \E h \in 0 .. NGates : Replay(p, r, h)
               \/ \E i \in Items, a \in Choices : BeginDecide(p, i, a)
        PROVE  [Ledger!LedgerNext]_(Ledger!ledgerVars)
    BY <1>2, IdleMaps
  <1>3. ASSUME NEW p \in Workers, Refuse(p) PROVE [Ledger!LedgerNext]_(Ledger!ledgerVars)
    BY <1>3, OutsideMaps
  <1>4. ASSUME Crash PROVE [Ledger!LedgerNext]_(Ledger!ledgerVars)
    BY <1>4, CrashMaps
  <1>5. CASE UNCHANGED vars
    <2>1. ASSUME NEW i \in Items
          PROVE  LedgerState(i)' = LedgerState(i) /\ LedgerVerdict(i)' = LedgerVerdict(i)
      <3>1. \A q \in Workers : (Holds(q, i)' <=> Holds(q, i)) /\ pc'[q] = pc[q]
        BY <1>5 DEF vars, Holds
      <3> QED
        BY <1>5, <3>1, Frame DEF vars
    <2> QED
      BY <2>1, Stutter
  <1> QED
    BY <1>1, <1>2, <1>3, <1>4, <1>5 DEF Next

(* The empty table is the empty ledger. *)
LEMMA InitMaps == Init => Ledger!LedgerInit
  <1> SUFFICES ASSUME Init PROVE Ledger!LedgerInit
    OBVIOUS
  <1>1. \A i \in Items : rows[i].status = "absent"
    BY DEF Init, NoRow
  <1>2. \A i \in Items : LedgerState(i) = "absent" /\ LedgerVerdict(i) = "none"
    BY <1>1, OpenFacts DEF OpenPlaces
  <1> QED
    BY <1>2 DEF Ledger!LedgerInit

(* The queue implements the ledger: a decided row goes back to open only from *)
(* a resume call that has not returned, an audited or orphaned row never      *)
(* changes again, and no decision is ever replaced by another, whatever        *)
(* crashes, failures, scans, replays and double submits interleave.           *)
THEOREM LedgerImplemented == Spec => ImplementsLedger
  <1>1. Init => Ledger!LedgerInit
    BY InitMaps
  <1>2. IndInv /\ [Next]_vars => [Ledger!LedgerNext]_(Ledger!ledgerVars)
    BY StepMaps
  <1> QED
    BY <1>1, <1>2, Invariance, PTL DEF Spec, ImplementsLedger, Ledger!LedgerSpec

=============================================================================
