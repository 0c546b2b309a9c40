--------------------------- MODULE ResearchProofs ---------------------------
(***************************************************************************)
(* Proofs about Research for every set of threads, runs and collections:   *)
(* a research run is a run of the approval queue, so that everything that  *)
(* HitlProofs shows of the queue holds of it; no run stalls silently; and  *)
(* an approved draft reaches the disk when nothing fails.                  *)
(***************************************************************************)
EXTENDS Research, HitlProofs

(* The gate is the fifth node. *)
LEMMA FiveNodes == GateNode = 5 /\ Gates = {1} /\ NGates = 1
  BY ResearchAssumption DEF GateNode, RESEARCH_ORDER, Gates

(* The fields of the checkpointed state and of the hand-over. *)
LEMMA StateFields ==
    ASSUME NEW s \in ResearchState
    PROVE  /\ s.named \in Slugs \cup {NoSlug} /\ s.slug \in Slugs \cup {NoSlug}
           /\ s.visited \in 0 .. 5 /\ s.board \in BOOLEAN /\ s.draft \in BOOLEAN
           /\ s.decision \in Verdicts /\ s.failed \in BOOLEAN
  BY FiveNodes DEF ResearchState

LEMMA StartFields ==
    ASSUME NEW slug \in Slugs, NEW named \in Slugs
    PROVE  LET s == SeedState(slug, named)
           IN  /\ s \in ResearchState /\ s.named = named /\ s.visited = 0
               /\ s.decision = "none" /\ s.failed = FALSE /\ s.draft = FALSE /\ s.board = FALSE
  <1> DEFINE n == NotStarted
  <1>1. /\ n \in ResearchState /\ n.visited = 0 /\ n.decision = "none"
        /\ n.failed = FALSE /\ n.draft = FALSE /\ n.board = FALSE
    BY FiveNodes DEF NotStarted, ResearchState, Verdicts
  <1>2. SeedState(slug, named) = [n EXCEPT !.slug = slug, !.named = named]
    BY DEF SeedState
  <1> HIDE DEF n
  <1> QED
    BY <1>1, <1>2 DEF ResearchState

LEMMA NewFields ==
    /\ NotStarted \in ResearchState /\ NotStarted.named = NoSlug /\ NotStarted.visited = 0
    /\ NotStarted.decision = "none"
  BY FiveNodes DEF NotStarted, ResearchState, Verdicts

LEMMA HandFields ==
    /\ NoHand \in Hand /\ NoHand.step = "none"
    /\ \A h \in Hand : h.run \in Runs \cup {None} /\ h.text \in Texts
                       /\ h.step \in {"none", "history", "get", "create", "update", "audit"}
  BY DEF NoHand, Hand, Texts

LEMMA ContractFields ==
    /\ NoFile \in Contract
    /\ \A c \in Contract, t \in Texts : [c EXCEPT !.text = t] \in Contract
    /\ \A c \in Contract, s \in {"active", "retired"} : [c EXCEPT !.status = s] \in Contract
    /\ \A t \in Texts : [status |-> "draft", text |-> t] \in Contract
  BY DEF NoFile, Contract, Texts

-----------------------------------------------------------------------------
(* A research run is a run of the queue.                                    *)

(* What a worker does. *)
WorkerStep(p) ==
    \/ \E r \in Runs : StartRequest(p, r)
    \/ ListQueue(p)
    \/ \E i \in Items, a \in Choices : DecideBegins(p, i, a)
    \/ Works(p)

(* Every step of a research run is a step of the queue or leaves the queue alone. *)
LEMMA QueueStep == [ResearchNext]_allVars => [Next]_vars
  <1> SUFFICES ASSUME [ResearchNext]_allVars PROVE [Next]_vars
    OBVIOUS
  <1>1. ASSUME NEW p \in Workers, NEW r \in Runs, StartRequest(p, r) PROVE Next
    BY <1>1 DEF StartRequest, StartResearch, Next
  <1>2. ASSUME NEW p \in Workers, ListQueue(p) PROVE Next
    BY <1>2 DEF ListQueue, Next
  <1>3. ASSUME NEW p \in Workers, NEW i \in Items, NEW a \in Choices, DecideBegins(p, i, a) PROVE Next
    BY <1>3 DEF DecideBegins, Next
  <1>4. ASSUME NEW p \in Workers, HitlStep(p) \/ GateDecides(p) \/ GateRefuses(p) \/ DecisionAudited(p) PROVE Next
    BY <1>4 DEF HitlStep, GateDecides, GateRefuses, DecisionAudited, Next, Serve
  <1>5. ASSUME NEW p \in Workers, Node(p) PROVE Next \/ UNCHANGED vars
    <2>1. CASE CollectionGateAsks(p)
      BY <2>1, FiveNodes DEF CollectionGateAsks, Next, Serve
    <2>2. CASE StartFails(p)
      BY <2>2 DEF StartFails, Next, Serve
    <2> QED
      BY <1>5, <2>1, <2>2 DEF Node, InspirationReview, StyleSynthesis, MoodBoard, ContractDraft, Visits
  <1>6. ASSUME NEW p \in Workers, Handover(p) PROVE UNCHANGED vars
    BY <1>6 DEF Handover, BuildHandoff, FindCandidate, CreateCandidate, UpdateCandidate, HandoffAudited, HandoffFails
  <1>7. ASSUME ResearchCrash PROVE Next \/ UNCHANGED vars
    BY <1>7 DEF ResearchCrash, Next
  <1>8. ASSUME NEW s \in Slugs, LifecycleStep(s) PROVE UNCHANGED vars
    BY <1>8 DEF LifecycleStep
  <1>9. CASE UNCHANGED allVars
    BY <1>9 DEF allVars
  <1> QED
    BY <1>1, <1>2, <1>3, <1>4, <1>5, <1>6, <1>7, <1>8, <1>9 DEF ResearchNext, Works

(* Deciding research runs is the approval queue at work: the research graph, its *)
(* failures and the hand-over add no step that the queue of the item pipeline    *)
(* does not have, and every theorem about the queue holds of research runs.      *)
THEOREM ResearchIsAQueue == ResearchSpec => Spec
  <1>1. ResearchInit => Init
    BY DEF ResearchInit
  <1>2. [ResearchNext]_allVars => [Next]_vars
    BY QueueStep
  <1> QED
    BY <1>1, <1>2, PTL DEF ResearchSpec, Spec

-----------------------------------------------------------------------------
(* The progress of a run.                                                   *)

ResearchTypes ==
    /\ research \in [Runs -> ResearchState]
    /\ store \in [Slugs -> Contract]
    /\ hand \in [Workers -> Hand]
    /\ slips \in 0 .. MaxSlips

\* The thread of a start.
Starting(p) == pc[p] = "segment" /\ job[p].item = 0

\* A run that has begun has a theme; the nodes in front of the gate have filled the draft
\* that it asks about; and a gate that asked and no longer waits was answered.
RunProgress(r) ==
    LET s == research[r]
    IN  /\ ckpt[r].phase = "new" => s = NotStarted /\ raised[r] = 0
        /\ ckpt[r].phase # "new" => s.named \in Slugs
        /\ ckpt[r].phase = "paused" => raised[r] > 0 /\ s.board /\ s.draft
        /\ raised[r] > 0 /\ ckpt[r].phase # "paused" => s.visited = GateNode
        /\ s.visited \in {3, 4} => s.board
        /\ s.visited = 4 => s.draft
        /\ s.decision # "none" => s.visited = GateNode

\* A run that seems to work has a thread, unless something slipped.
Shows(r) ==
    \/ ckpt[r].phase \in {"new", "paused"}
    \/ research[r].failed
    \/ research[r].visited = GateNode
    \/ slips > 0
    \/ \E p \in Workers : Starting(p) /\ job[p].run = r

\* A call that inserts a row has seen the gate ask, a thread in the graph works on a run
\* that has begun, and a call behind the gate has answered it.
CallProgress(p) ==
    /\ pc[p] = "insert" => raised[job[p].run] > 0
    /\ pc[p] = "segment" => ckpt[job[p].run].phase # "new"
    /\ pc[p] = "segment" /\ job[p].item # 0 => research[job[p].run].visited = GateNode

Progress ==
    /\ \A r \in Runs : RunProgress(r) /\ Shows(r)
    /\ \A p \in Workers : CallProgress(p)
    /\ \A i \in Items : rows[i].status # "absent" => raised[rows[i].run] > 0

ResearchInv == IndInv /\ Answers /\ ResearchTypes /\ Progress

LEMMA ResearchFacts ==
    ASSUME ResearchInv
    PROVE  /\ pc \in [Workers -> Pcs] /\ job \in [Workers -> Job] /\ hand \in [Workers -> Hand]
           /\ research \in [Runs -> ResearchState] /\ ckpt \in [Runs -> Ckpt]
           /\ raised \in [Runs -> Nat] /\ rows \in [Items -> Row]
           /\ store \in [Slugs -> Contract] /\ slips \in Nat /\ faults \in Nat
           /\ \A r \in Runs : raised[r] \in Nat /\ research[r] \in ResearchState
           /\ \A p \in Workers : pc[p] # "idle" => job[p].run \in Runs
           /\ \A p \in Workers : job[p].item # 0 =>
                job[p].item \in Items /\ rows[job[p].item].status # "absent"
                /\ rows[job[p].item].run = job[p].run
           /\ \A i \in Items : rows[i].status # "absent" => rows[i].run \in Runs
  <1>1. IndInv /\ Answers /\ ResearchTypes
    BY DEF ResearchInv
  <1>2. TypeOK /\ JobsWellFormed
    BY <1>1 DEF IndInv
  <1>3. \A p \in Workers : job[p].item # 0 =>
          rows[job[p].item].status # "absent" /\ rows[job[p].item].run = job[p].run
    BY <1>1, <1>2 DEF JobsWellFormed, JobWellFormed, Answers, CallAnswers
  <1>4. \A p \in Workers : pc[p] # "idle" => job[p].run \in Runs
    BY <1>2 DEF JobsWellFormed, JobWellFormed
  <1>5. faults \in Nat /\ slips \in Nat
    BY <1>1, <1>2, ResearchAssumption, HitlAssumption DEF TypeOK, ResearchTypes
  <1> QED
    BY <1>1, <1>2, <1>3, <1>4, <1>5, AnswerFacts DEF TypeOK, ResearchTypes

(* A step of a worker moves no other worker. *)
LEMMA WorkerAlone ==
    ASSUME ResearchInv, NEW p \in Workers, WorkerStep(p)
    PROVE  Alone(p) /\ \A q \in Workers : q # p => hand'[q] = hand[q]
  <1>0. pc \in [Workers -> Pcs] /\ job \in [Workers -> Job] /\ hand \in [Workers -> Hand]
    BY ResearchFacts
  <1>1. ASSUME NEW to, pc' = [pc EXCEPT ![p] = to], \/ job' = job
                                                  \/ \E j : job' = [job EXCEPT ![p] = j]
        PROVE  Alone(p)
    BY <1>0, <1>1 DEF Alone
  <1>2. ASSUME UNCHANGED vars PROVE Alone(p)
    BY <1>2 DEF vars, Alone
  <1>3. ASSUME \E r \in Runs : StartRequest(p, r) PROVE Alone(p) /\ hand' = hand
    BY <1>1, <1>3 DEF StartRequest, StartResearch, Start, Goto
  <1>4. ASSUME \/ ListQueue(p) \/ HitlStep(p) \/ GateDecides(p) \/ GateRefuses(p)
               \/ \E i \in Items, a \in Choices : DecideBegins(p, i, a)
        PROVE  Alone(p) /\ hand' = hand
    <2>1. CASE ListQueue(p) \/ \E i \in Items, a \in Choices : DecideBegins(p, i, a)
      BY <1>1, <2>1 DEF ListQueue, DecideBegins, Scan, BeginDecide, Goto, ownVars
    <2>2. CASE GateDecides(p) \/ GateRefuses(p)
      BY <1>1, <2>2 DEF GateDecides, GateRefuses, GateReturns, GateRaises, Goto, ownVars
    <2>3. CASE HitlStep(p)
      BY <1>1, <2>3 DEF HitlStep, InsertPending, SelectPending, LiveCheck, Refuse, Claim, Resume, Reopen,
                        AuditFails, SegmentEnds, InvokeReturns, Goto, Finish, ownVars
    <2> QED BY <1>4, <2>1, <2>2, <2>3
  <1>5. ASSUME DecisionAudited(p) PROVE Alone(p) /\ \A q \in Workers : q # p => hand'[q] = hand[q]
    BY <1>0, <1>1, <1>5 DEF DecisionAudited, Audit, Finish
  <1>6. ASSUME Node(p) PROVE Alone(p) /\ hand' = hand
    <2>1. CASE CollectionGateAsks(p) \/ StartFails(p)
      BY <1>1, <2>1 DEF CollectionGateAsks, StartFails, SegmentPauses, SegmentRaises, InvokeReturns,
                        Goto, Finish, ownVars
    <2> QED
      BY <1>2, <1>6, <2>1 DEF Node, InspirationReview, StyleSynthesis, MoodBoard, ContractDraft, Visits
  <1>7. ASSUME Handover(p) PROVE Alone(p) /\ \A q \in Workers : q # p => hand'[q] = hand[q]
    <2>1. \E h : hand' = [hand EXCEPT ![p] = h]
      BY <1>7 DEF Handover, BuildHandoff, FindCandidate, CreateCandidate, UpdateCandidate, HandoffAudited,
                  HandoffFails, Step
    <2> QED
      BY <1>0, <1>2, <1>7, <2>1 DEF Handover, BuildHandoff, FindCandidate, CreateCandidate, UpdateCandidate,
                  HandoffAudited, HandoffFails
  <1> QED
    BY <1>3, <1>4, <1>5, <1>6, <1>7 DEF WorkerStep, Works

(* What a node in front of the gate does to the state of its run. *)
Advances(p, n) ==
    LET s == research[job[p].run]
    IN  /\ research' = [research EXCEPT ![job[p].run] = n]
        /\ n \in ResearchState /\ n.named = s.named /\ n.decision = s.decision
        /\ n.visited = s.visited + 1 /\ s.visited \in 0 .. 3
        /\ s.draft => n.draft
        /\ s.board => n.board
        /\ s.failed => n.failed
        /\ s.visited = 2 => n.board
        /\ s.visited = 3 => n.draft

LEMMA NodeFacts ==
    ASSUME ResearchInv, NEW p \in Workers,
           InspirationReview(p) \/ StyleSynthesis(p) \/ MoodBoard(p) \/ ContractDraft(p)
    PROVE  /\ \E n : Advances(p, n)
           /\ job[p].run \in Runs /\ Starting(p) /\ UNCHANGED <<vars, store, hand, slips>>
  <1>1. /\ job[p].run \in Runs /\ Starting(p) /\ UNCHANGED <<vars, store, hand, slips>>
    BY ResearchFacts DEF InspirationReview, StyleSynthesis, MoodBoard, ContractDraft, Before, Visits, Starting
  <1>2. PICK r \in Runs, s \in ResearchState : r = job[p].run /\ s = research[r]
    BY <1>1, ResearchFacts
  <1>3. CASE InspirationReview(p)
    <2> DEFINE n == [s EXCEPT !.visited = s.visited + 1]
    <2>1. research' = [research EXCEPT ![r] = n] /\ s.visited = 0
      BY <1>2, <1>3 DEF InspirationReview, Before, Visits
    <2>2. n \in ResearchState /\ n.named = s.named /\ n.decision = s.decision /\ n.visited = 1
          /\ n.draft = s.draft /\ n.board = s.board /\ n.failed = s.failed
      BY <2>1, FiveNodes DEF ResearchState
    <2> HIDE DEF n
    <2>3. Advances(p, n)
      BY <1>2, <2>1, <2>2 DEF Advances
    <2> QED BY <1>1, <2>3
  <1>4. CASE StyleSynthesis(p)
    <2>1. PICK unlogged \in BOOLEAN : Visits(p, [s EXCEPT !.failed = @ \/ unlogged]) /\ s.visited = 1
      BY <1>2, <1>4 DEF StyleSynthesis, Before
    <2> DEFINE m == [s EXCEPT !.failed = s.failed \/ unlogged]
               n == [m EXCEPT !.visited = m.visited + 1]
    <2>2. research' = [research EXCEPT ![r] = n]
      BY <1>2, <2>1 DEF Visits
    <2>3. m \in ResearchState /\ m.named = s.named /\ m.decision = s.decision /\ m.visited = 1
          /\ m.draft = s.draft /\ m.board = s.board /\ (s.failed => m.failed)
      BY <2>1 DEF ResearchState
    <2> HIDE DEF m
    <2>4. n \in ResearchState /\ n.named = m.named /\ n.decision = m.decision /\ n.visited = 2
          /\ n.draft = m.draft /\ n.board = m.board /\ n.failed = m.failed
      BY <2>3, FiveNodes DEF ResearchState
    <2> HIDE DEF n
    <2>5. Advances(p, n)
      BY <1>2, <2>1, <2>2, <2>3, <2>4 DEF Advances
    <2> QED BY <1>1, <2>5
  <1>5. CASE MoodBoard(p)
    <2>0. s.visited = 2
      <3>1. Before(p, 3)
        BY <1>5 DEF MoodBoard
      <3> QED BY <1>2, <3>1 DEF Before
    <2>1. PICK unlogged \in BOOLEAN :
             Visits(p, [research[job[p].run] EXCEPT !.board = TRUE, !.failed = @ \/ unlogged])
      BY <1>5 DEF MoodBoard
    <2> DEFINE m == [s EXCEPT !.board = TRUE, !.failed = s.failed \/ unlogged]
               n == [m EXCEPT !.visited = m.visited + 1]
    <2>2. research' = [research EXCEPT ![r] = n]
      BY <1>2, <2>1 DEF Visits
    <2>3. m \in ResearchState /\ m.named = s.named /\ m.decision = s.decision /\ m.visited = 2
          /\ m.draft = s.draft /\ m.board = TRUE /\ (s.failed => m.failed)
      BY <2>0, <2>1 DEF ResearchState
    <2> HIDE DEF m
    <2>4. n \in ResearchState /\ n.named = m.named /\ n.decision = m.decision /\ n.visited = 3
          /\ n.draft = m.draft /\ n.board = m.board /\ n.failed = m.failed
      BY <2>3, FiveNodes DEF ResearchState
    <2> HIDE DEF n
    <2>5. Advances(p, n)
      BY <1>2, <2>0, <2>2, <2>3, <2>4 DEF Advances
    <2> QED BY <1>1, <2>5
  <1>6. CASE ContractDraft(p)
    <2> DEFINE m == [s EXCEPT !.draft = TRUE]
               n == [m EXCEPT !.visited = m.visited + 1]
    <2>1. Visits(p, m) /\ s.visited = 3
      BY <1>2, <1>6 DEF ContractDraft, Before
    <2>2. research' = [research EXCEPT ![r] = n]
      BY <1>2, <2>1 DEF Visits
    <2>3. m \in ResearchState /\ m.named = s.named /\ m.decision = s.decision /\ m.visited = 3
          /\ m.draft = TRUE /\ m.board = s.board /\ m.failed = s.failed
      BY <2>1 DEF ResearchState
    <2> HIDE DEF m
    <2>4. n \in ResearchState /\ n.named = m.named /\ n.decision = m.decision /\ n.visited = 4
          /\ n.draft = m.draft /\ n.board = m.board /\ n.failed = m.failed
      BY <2>3, FiveNodes DEF ResearchState
    <2> HIDE DEF n
    <2>5. Advances(p, n)
      BY <1>2, <2>1, <2>2, <2>3, <2>4 DEF Advances
    <2> QED BY <1>1, <2>5
  <1> QED
    BY <1>3, <1>4, <1>5, <1>6

(* A run that a step leaves alone keeps its progress. *)
LEMMA RunFrame ==
    ASSUME NEW r \in Runs, RunProgress(r),
           ckpt'[r] = ckpt[r], raised'[r] = raised[r], research'[r] = research[r]
    PROVE  RunProgress(r)'
  BY DEF RunProgress

(* The nodes in front of the gate. *)
LEMMA NodeProgress ==
    ASSUME ResearchInv, NEW p \in Workers,
           InspirationReview(p) \/ StyleSynthesis(p) \/ MoodBoard(p) \/ ContractDraft(p)
    PROVE  ResearchTypes' /\ Progress'
  <1>1. PICK n : Advances(p, n)
    BY NodeFacts
  <1>2. job[p].run \in Runs /\ Starting(p) /\ UNCHANGED <<vars, store, hand, slips>>
    BY NodeFacts
  <1>3. PICK r \in Runs : r = job[p].run
    BY <1>2
  <1>4. /\ research' = [research EXCEPT ![r] = n] /\ n \in ResearchState
        /\ research'[r] = n /\ \A q \in Runs : q # r => research'[q] = research[q]
    BY <1>1, <1>3, ResearchFacts DEF Advances
  <1>5. ResearchTypes'
    BY <1>2, <1>4, ResearchFacts DEF ResearchTypes, ResearchInv
  <1>6. ckpt' = ckpt /\ raised' = raised /\ pc' = pc /\ job' = job /\ rows' = rows
    BY <1>2 DEF vars
  <1>7. ASSUME NEW q \in Runs PROVE RunProgress(q)' /\ Shows(q)'
    <2>1. RunProgress(q) /\ Shows(q)
      BY DEF ResearchInv, Progress
    <2>2. CASE q # r
      BY <1>2, <1>4, <1>6, <2>1, <2>2 DEF RunProgress, Shows, Starting
    <2>3. CASE q = r
      <3>1. RunProgress(r)'
        <4>1. ckpt[r].phase # "new"
          BY <1>2, <1>3 DEF ResearchInv, Progress, CallProgress, Starting
        <4>2. research[r].visited # GateNode /\ (raised[r] > 0 => ckpt[r].phase = "paused")
              /\ research[r].decision = "none"
          BY <1>1, <1>3, <2>1, <2>3, FiveNodes DEF Advances, RunProgress
        <4>3. n.named = research[r].named /\ n.decision = "none" /\ (research[r].board => n.board)
              /\ (research[r].draft => n.draft)
          BY <1>1, <1>3, <4>2 DEF Advances
        <4>4. (n.visited \in {3, 4} => n.board) /\ (n.visited = 4 => n.draft)
          BY <1>1, <1>3, <2>1, <2>3 DEF Advances, RunProgress
        <4> QED BY <1>4, <1>6, <2>1, <2>3, <4>1, <4>2, <4>3, <4>4 DEF RunProgress
      <3>2. Shows(r)'
        BY <1>2, <1>3, <1>6 DEF Shows, Starting
      <3> QED BY <2>3, <3>1, <3>2
    <2> QED BY <2>2, <2>3
  <1>8. ASSUME NEW q \in Workers PROVE CallProgress(q)'
    <2>1. CallProgress(q) /\ (pc[q] # "idle" => job[q].run \in Runs)
      BY ResearchFacts DEF ResearchInv, Progress
    <2>2. research[r].visited # GateNode
      BY <1>1, <1>3, FiveNodes DEF Advances
    <2> QED BY <1>3, <1>4, <1>6, <2>1, <2>2 DEF CallProgress
  <1>9. \A i \in Items : rows'[i].status # "absent" => raised'[rows'[i].run] > 0
    BY <1>6 DEF ResearchInv, Progress
  <1> QED
    BY <1>5, <1>7, <1>8, <1>9 DEF Progress

(* A start takes a run that has not begun. *)
LEMMA StartFacts ==
    ASSUME ResearchInv, NEW p \in Workers, NEW r \in Runs, StartRequest(p, r)
    PROVE  /\ \E s : /\ research' = [research EXCEPT ![r] = s]
                     /\ s \in ResearchState /\ s.named \in Slugs /\ s.visited = 0 /\ s.decision = "none"
           /\ ckpt[r].phase = "new" /\ ckpt'[r].phase = "running"
           /\ \A q \in Runs : q # r => ckpt'[q] = ckpt[q]
           /\ pc[p] = "idle" /\ pc'[p] = "segment" /\ job'[p].run = r /\ job'[p].item = 0
           /\ UNCHANGED <<rows, audits, raised, delivered, faults, store, hand, slips>>
  <1>1. \E slug \in Slugs, named \in Slugs : StartResearch(p, r, SeedState(slug, named))
    BY DEF StartRequest
  <1>2. Start(p, r) /\ UNCHANGED <<store, hand, slips>>
        /\ \E slug \in Slugs, named \in Slugs : research' = [research EXCEPT ![r] = SeedState(slug, named)]
    BY <1>1 DEF StartResearch
  <1>3. PICK slug \in Slugs, named \in Slugs : research' = [research EXCEPT ![r] = SeedState(slug, named)]
    BY <1>2
  <1> DEFINE s == SeedState(slug, named)
             k == Call(r, 0, 0, "none")
  <1>4. s \in ResearchState /\ s.named \in Slugs /\ s.visited = 0 /\ s.decision = "none"
    BY StartFields
  <1>5. k.run = r /\ k.item = 0
    BY DEF Call
  <1> HIDE DEF s, k
  <1>6. pc' = [pc EXCEPT ![p] = "segment"] /\ job' = [job EXCEPT ![p] = k]
    BY <1>2 DEF Start, Goto, k
  <1>7. pc'[p] = "segment" /\ job'[p] = k
    BY <1>6, ResearchFacts
  <1>8. ckpt'[r].phase = "running" /\ \A q \in Runs : q # r => ckpt'[q] = ckpt[q]
    BY <1>2, ResearchFacts DEF Start
  <1>9. research' = [research EXCEPT ![r] = s]
    BY <1>3 DEF s
  <1> QED
    BY <1>2, <1>4, <1>5, <1>7, <1>8, <1>9 DEF Start, tables, budget

LEMMA StartProgress ==
    ASSUME ResearchInv, NEW p \in Workers, NEW r \in Runs, StartRequest(p, r)
    PROVE  ResearchTypes' /\ Progress'
  <1>1. PICK s : /\ research' = [research EXCEPT ![r] = s]
                 /\ s \in ResearchState /\ s.named \in Slugs /\ s.visited = 0 /\ s.decision = "none"
    BY StartFacts
  <1>2. research'[r] = s /\ \A q \in Runs : q # r => research'[q] = research[q]
    BY <1>1, ResearchFacts
  <1>3. ResearchTypes'
    BY <1>1, StartFacts DEF ResearchTypes, ResearchInv
  <1>4. Alone(p)
    BY WorkerAlone DEF WorkerStep
  <1>5. ASSUME NEW q \in Runs PROVE RunProgress(q)' /\ Shows(q)'
    <2>1. RunProgress(q) /\ Shows(q)
      BY DEF ResearchInv, Progress
    <2>2. CASE q # r
      <3>1. RunProgress(q)'
        BY <1>2, <2>1, <2>2, StartFacts, RunFrame
      <3>2. \A w \in Workers : Starting(w) => Starting(w)' /\ job'[w] = job[w]
        BY <1>4, StartFacts DEF Alone, Starting
      <3> QED BY <1>2, <2>1, <2>2, <3>1, <3>2, StartFacts DEF Shows
    <2>3. CASE q = r
      <3>1. raised'[r] = 0
        BY <2>1, <2>3, StartFacts DEF RunProgress
      <3>2. RunProgress(r)'
        BY <1>1, <1>2, <3>1, StartFacts, FiveNodes DEF RunProgress
      <3>3. Shows(r)'
        BY StartFacts DEF Shows, Starting
      <3> QED BY <2>3, <3>2, <3>3
    <2> QED BY <2>2, <2>3
  <1>6. ASSUME NEW q \in Workers PROVE CallProgress(q)'
    <2>1. CASE q = p
      BY <2>1, StartFacts DEF CallProgress
    <2>2. CASE q # p
      <3>1. pc'[q] = pc[q] /\ job'[q] = job[q] /\ CallProgress(q)
        BY <1>4, <2>2 DEF Alone, ResearchInv, Progress
      <3>2. pc[q] = "segment" => job[q].run \in Runs /\ job[q].run # r
        BY <3>1, ResearchFacts, StartFacts DEF CallProgress
      <3> QED BY <1>2, <3>1, <3>2, StartFacts DEF CallProgress
    <2> QED BY <2>1, <2>2
  <1>7. \A i \in Items : rows'[i].status # "absent" => raised'[rows'[i].run] > 0
    BY StartFacts DEF ResearchInv, Progress
  <1> QED
    BY <1>3, <1>5, <1>6, <1>7 DEF Progress

(* The gate asks with a complete draft. *)
LEMMA AsksFacts ==
    ASSUME ResearchInv, NEW p \in Workers, CollectionGateAsks(p)
    PROVE  /\ Starting(p) /\ job[p].run \in Runs /\ research[job[p].run].visited = 4
           /\ ckpt'[job[p].run].phase = "paused" /\ raised'[job[p].run] > 0
           /\ \A q \in Runs : q # job[p].run => ckpt'[q] = ckpt[q]
           /\ \A q \in Runs : raised'[q] = raised[q] \/ raised'[q] > 0
           /\ \A q \in Runs : q # job[p].run => raised'[q] = raised[q]
           /\ pc'[p] = "idle" /\ job'[p].item = 0
           /\ UNCHANGED <<rows, audits, delivered, faults, ownVars>>
  <1>1. Before(p, 5) /\ SegmentPauses(p, 1) /\ UNCHANGED ownVars
    BY FiveNodes DEF CollectionGateAsks
  <1>2. Starting(p) /\ job[p].run \in Runs /\ research[job[p].run].visited = 4
    BY <1>1, ResearchFacts DEF Before, Starting
  <1>3. PICK r \in Runs : r = job[p].run
    BY <1>2
  <1>4. raised' = [raised EXCEPT ![r] = raised[r] + 1]
        /\ ckpt' = [ckpt EXCEPT ![r] = [phase |-> "paused", at |-> 0, intr |-> raised[r] + 1]]
    BY <1>1, <1>3 DEF SegmentPauses
  <1>5. raised'[r] > 0 /\ ckpt'[r].phase = "paused"
        /\ \A q \in Runs : q # r => ckpt'[q] = ckpt[q] /\ raised'[q] = raised[q]
    BY <1>4, ResearchFacts
  <1>6. Finish(p)
    BY <1>1, <1>2 DEF SegmentPauses, InvokeReturns, Starting
  <1>7. pc'[p] = "idle" /\ job'[p].item = 0
    <2>1. pc'[p] = "idle" /\ job'[p] = NoJob
      BY <1>6, ResearchFacts DEF Finish
    <2> QED BY <2>1, IdleFields
  <1> QED
    BY <1>1, <1>2, <1>3, <1>5, <1>7 DEF SegmentPauses, tables, budget

LEMMA AsksProgress ==
    ASSUME ResearchInv, NEW p \in Workers, CollectionGateAsks(p)
    PROVE  ResearchTypes' /\ Progress'
  <1>1. ResearchTypes' /\ research' = research /\ slips' = slips /\ rows' = rows
    BY AsksFacts DEF ResearchTypes, ResearchInv, ownVars
  <1>2. Alone(p)
    BY WorkerAlone DEF WorkerStep, Works, Node
  <1>3. PICK r \in Runs : r = job[p].run
    BY AsksFacts
  <1>4. ASSUME NEW q \in Runs PROVE RunProgress(q)' /\ Shows(q)'
    <2>1. RunProgress(q) /\ Shows(q)
      BY DEF ResearchInv, Progress
    <2>2. CASE q # r
      <3>1. RunProgress(q)'
        BY <1>1, <1>3, <2>1, <2>2, AsksFacts, RunFrame
      <3>2. \A w \in Workers : Starting(w) /\ job[w].run = q => Starting(w)' /\ job'[w] = job[w]
        BY <1>2, <1>3, <2>2 DEF Alone, Starting
      <3> QED BY <1>1, <1>3, <2>1, <2>2, <3>1, <3>2, AsksFacts DEF Shows
    <2>3. CASE q = r
      <3>1. ckpt'[r].phase = "paused" /\ raised'[r] > 0 /\ research[r].visited = 4 /\ ckpt[r].phase # "new"
        BY <1>3, AsksFacts DEF Starting, ResearchInv, Progress, CallProgress
      <3> QED BY <1>1, <2>1, <2>3, <3>1 DEF RunProgress, Shows
    <2> QED BY <2>2, <2>3
  <1>5. ASSUME NEW q \in Workers PROVE CallProgress(q)'
    <2>1. CASE q = p
      BY <2>1, AsksFacts DEF CallProgress
    <2>2. CASE q # p
      <3>1. pc'[q] = pc[q] /\ job'[q] = job[q] /\ CallProgress(q)
        BY <1>2, <2>2 DEF Alone, ResearchInv, Progress
      <3>2. pc[q] # "idle" => job[q].run \in Runs
        BY ResearchFacts
      <3>3. raised[job[q].run] > 0 /\ pc[q] # "idle" => raised'[job[q].run] > 0
        BY <3>2, AsksFacts
      <3>4. ckpt[job[q].run].phase # "new" /\ pc[q] # "idle" => ckpt'[job[q].run].phase # "new"
        BY <3>2, AsksFacts
      <3> QED BY <1>1, <3>1, <3>3, <3>4 DEF CallProgress
    <2> QED BY <2>1, <2>2
  <1>6. ASSUME NEW i \in Items, rows'[i].status # "absent" PROVE raised'[rows'[i].run] > 0
    <2>1. rows[i].run \in Runs /\ raised[rows[i].run] > 0
      BY <1>1, <1>6, ResearchFacts DEF ResearchInv, Progress
    <2> QED BY <1>1, <2>1, AsksFacts
  <1> QED
    BY <1>1, <1>4, <1>5, <1>6 DEF Progress

(* A failed start shows, or its record slipped. *)
LEMMA FailsFacts ==
    ASSUME ResearchInv, NEW p \in Workers, StartFails(p)
    PROVE  /\ Starting(p) /\ job[p].run \in Runs /\ faults' = faults + 1
           /\ pc'[p] = "idle" /\ job'[p].item = 0
           /\ UNCHANGED <<rows, audits, ckpt, raised, delivered, store, hand>>
           /\ \/ /\ slips' = slips
                 /\ \E s : /\ research' = [research EXCEPT ![job[p].run] = s]
                           /\ s \in ResearchState /\ s.named = research[job[p].run].named
                           /\ s.visited = research[job[p].run].visited
                           /\ s.decision = research[job[p].run].decision
                           /\ s.board = research[job[p].run].board
                           /\ s.draft = research[job[p].run].draft /\ s.failed
              \/ research' = research /\ slips' = slips + 1 /\ slips' \in 0 .. MaxSlips
  <1>1. Starting(p) /\ SegmentRaises(p) /\ UNCHANGED <<store, hand>>
    BY DEF StartFails, Before, Starting
  <1>2. job[p].run \in Runs
    BY <1>1, ResearchFacts DEF Starting
  <1>3. Finish(p) /\ faults' = faults + 1 /\ UNCHANGED <<rows, audits, ckpt, raised, delivered>>
    BY <1>1 DEF SegmentRaises, Starting, Fault, tables, graph
  <1>4. pc'[p] = "idle" /\ job'[p].item = 0
    <2>1. pc'[p] = "idle" /\ job'[p] = NoJob
      BY <1>3, ResearchFacts DEF Finish
    <2> QED BY <2>1, IdleFields
  <1>5. CASE Slip /\ research' = research
    BY <1>1, <1>2, <1>3, <1>4, <1>5, ResearchFacts, ResearchAssumption DEF Slip
  <1>6. CASE research' = [research EXCEPT ![job[p].run] = [@ EXCEPT !.failed = TRUE]] /\ slips' = slips
    <2>1. PICK r \in Runs, w \in ResearchState : r = job[p].run /\ w = research[r]
      BY <1>2, ResearchFacts
    <2> DEFINE s == [w EXCEPT !.failed = TRUE]
    <2>2. research' = [research EXCEPT ![r] = s]
      BY <1>6, <2>1
    <2>3. s \in ResearchState /\ s.named = w.named /\ s.visited = w.visited /\ s.decision = w.decision
          /\ s.board = w.board /\ s.draft = w.draft /\ s.failed
      BY DEF ResearchState
    <2> HIDE DEF s
    <2> QED BY <1>1, <1>2, <1>3, <1>4, <1>6, <2>1, <2>2, <2>3
  <1> QED
    BY <1>5, <1>6 DEF StartFails

LEMMA FailsProgress ==
    ASSUME ResearchInv, NEW p \in Workers, StartFails(p)
    PROVE  ResearchTypes' /\ Progress'
  <1>1. PICK r \in Runs : r = job[p].run
    BY FailsFacts
  <1>2. /\ research' \in [Runs -> ResearchState] /\ slips' \in 0 .. MaxSlips /\ slips' >= slips
        /\ \A q \in Runs : /\ research'[q].named = research[q].named
                           /\ research'[q].visited = research[q].visited
                           /\ research'[q].decision = research[q].decision
                           /\ research'[q].board = research[q].board
                           /\ research'[q].draft = research[q].draft
                           /\ q # r => research'[q] = research[q]
    BY <1>1, FailsFacts, ResearchFacts DEF ResearchInv, ResearchTypes
  <1>3. research'[r].failed \/ slips' > 0
    BY <1>1, FailsFacts, ResearchFacts
  <1>4. ResearchTypes'
    BY <1>2, FailsFacts DEF ResearchTypes, ResearchInv
  <1>5. Alone(p)
    BY WorkerAlone DEF WorkerStep, Works, Node
  <1>6. ASSUME NEW q \in Runs PROVE RunProgress(q)' /\ Shows(q)'
    <2>1. RunProgress(q) /\ Shows(q)
      BY DEF ResearchInv, Progress
    <2>2. CASE q # r
      <3>1. RunProgress(q)'
        BY <1>2, <2>1, <2>2, FailsFacts, RunFrame
      <3>2. \A w \in Workers : Starting(w) /\ job[w].run = q => Starting(w)' /\ job'[w] = job[w]
        BY <1>1, <1>5, <2>2 DEF Alone, Starting
      <3> QED BY <1>2, <2>1, <2>2, <3>1, <3>2, FailsFacts, ResearchFacts DEF Shows
    <2>3. CASE q = r
      <3>1. ckpt[r].phase # "new"
        BY <1>1, FailsFacts DEF Starting, ResearchInv, Progress, CallProgress
      <3> QED BY <1>2, <1>3, <2>1, <2>3, <3>1, FailsFacts DEF RunProgress, Shows
    <2> QED BY <2>2, <2>3
  <1>7. ASSUME NEW q \in Workers PROVE CallProgress(q)'
    <2>1. CASE q = p
      BY <2>1, FailsFacts DEF CallProgress
    <2>2. CASE q # p
      <3>1. pc'[q] = pc[q] /\ job'[q] = job[q] /\ CallProgress(q)
        BY <1>5, <2>2 DEF Alone, ResearchInv, Progress
      <3>2. pc[q] # "idle" => job[q].run \in Runs
        BY ResearchFacts
      <3> QED BY <1>2, <3>1, <3>2, FailsFacts DEF CallProgress
    <2> QED BY <2>1, <2>2
  <1>8. \A i \in Items : rows'[i].status # "absent" => raised'[rows'[i].run] > 0
    BY FailsFacts DEF ResearchInv, Progress
  <1> QED
    BY <1>4, <1>6, <1>7, <1>8 DEF Progress

(* What the steps of the queue that the research state does not see do to the rest. *)
LEMMA QuietFacts ==
    ASSUME ResearchInv, NEW p \in Workers,
           \/ ListQueue(p) \/ HitlStep(p) \/ GateRefuses(p) \/ DecisionAudited(p)
           \/ \E i \in Items, a \in Choices : DecideBegins(p, i, a)
    PROVE  /\ UNCHANGED <<research, store, slips, raised>> /\ hand' \in [Workers -> Hand]
           /\ ~ Starting(p)
           /\ ckpt' = ckpt \/ (SegmentEnds(p) /\ job[p].item # 0)
           /\ pc'[p] = "insert" => job'[p].run \in Runs /\ ckpt[job'[p].run].phase = "paused"
           /\ pc'[p] = "segment" => /\ pc[p] = "resume" /\ job'[p].run = job[p].run
                                    /\ ckpt[job[p].run].phase = "running"
           /\ \A i \in Items : rows'[i].status # "absent" =>
                \/ rows[i].status # "absent" /\ rows'[i].run = rows[i].run
                \/ pc[p] = "insert" /\ rows'[i].run = job[p].run
  <1>0. pc \in [Workers -> Pcs] /\ job \in [Workers -> Job] /\ ckpt \in [Runs -> Ckpt]
        /\ rows \in [Items -> Row] /\ job[p] \in Job
    BY ResearchFacts
  <1>1. CASE ListQueue(p)
    <2>1. PICK r \in Runs : Scan(p, r)
      BY <1>1 DEF ListQueue
    <2> DEFINE k == Call(r, ckpt[r].at + 1, 0, "none")
    <2>2. k.run = r
      BY DEF Call
    <2>3. pc' = [pc EXCEPT ![p] = "insert"] /\ job' = [job EXCEPT ![p] = k]
      BY <2>1 DEF Scan, Goto
    <2> HIDE DEF k
    <2> QED BY <1>0, <1>1, <2>1, <2>2, <2>3, ResearchFacts DEF ListQueue, Scan, Starting, ownVars, tables, graph
  <1>2. CASE \E i \in Items, a \in Choices : DecideBegins(p, i, a)
    <2>1. PICK i \in Items, a \in Choices : DecideBegins(p, i, a)
      BY <1>2
    <2>2. pc' = [pc EXCEPT ![p] = "check"] /\ pc[p] = "idle"
      BY <2>1 DEF DecideBegins, BeginDecide, Goto
    <2> QED BY <1>0, <2>1, <2>2, ResearchFacts DEF DecideBegins, BeginDecide, Starting, ownVars, tables, graph
  <1>3. CASE GateRefuses(p)
    <2>1. pc' = [pc EXCEPT ![p] = "reopen"] /\ pc[p] = "gate"
      BY <1>3 DEF GateRefuses, GateRaises, Goto
    <2> QED BY <1>0, <1>3, <2>1, ResearchFacts DEF GateRefuses, GateRaises, Starting, ownVars, tables, graph
  <1>4. CASE DecisionAudited(p)
    <2>1. pc' = [pc EXCEPT ![p] = "idle"] /\ pc[p] = "audit"
      BY <1>4 DEF DecisionAudited, Audit, Finish
    <2>2. hand' \in [Workers -> Hand]
      <3> DEFINE h == [NoHand EXCEPT !.step = "history", !.run = job[p].run]
      <3>1. job[p].run \in Runs
        BY <2>1, ResearchFacts
      <3>2. h \in Hand
        BY <3>1, HandFields DEF Hand
      <3>3. hand' = hand \/ hand' = [hand EXCEPT ![p] = h]
        BY <1>4 DEF DecisionAudited
      <3> HIDE DEF h
      <3> QED BY <3>2, <3>3, ResearchFacts
    <2> QED BY <1>0, <1>4, <2>1, <2>2 DEF DecisionAudited, Audit, Starting, graph
  <1>5. CASE HitlStep(p) /\ Resume(p)
    <2> DEFINE c == ckpt[job[p].run]
               ahead == [job[p] EXCEPT !.gate = c.at + 1, !.intr = c.intr]
               again == [job[p] EXCEPT !.gate = c.at + 1]
               here == [job[p] EXCEPT !.gate = c.at]
    <2>1. \/ pc' = [pc EXCEPT ![p] = "gate"]
          \/ pc' = [pc EXCEPT ![p] = "segment"] /\ job' = [job EXCEPT ![p] = here] /\ c.phase = "running"
          \/ pc' = [pc EXCEPT ![p] = "audit"]
      BY <1>5 DEF Resume, Goto
    <2>2. here.run = job[p].run
      BY <1>0 DEF Job
    <2> HIDE DEF here
    <2>3. pc[p] = "resume" /\ UNCHANGED <<tables, graph, ownVars>>
      BY <1>5 DEF Resume, HitlStep
    <2> QED BY <1>0, <2>1, <2>2, <2>3, ResearchFacts DEF Starting, ownVars, tables, graph
  <1>6. CASE HitlStep(p) /\ SegmentEnds(p) /\ job[p].item # 0
    <2>1. pc' = [pc EXCEPT ![p] = "audit"]
      BY <1>6 DEF SegmentEnds, InvokeReturns, Goto
    <2> QED BY <1>0, <1>6, <2>1, ResearchFacts DEF HitlStep, SegmentEnds, Starting, ownVars, tables
  <1>7. CASE HitlStep(p) /\ InsertPending(p)
    <2>1. pc' = [pc EXCEPT ![p] = "select"] /\ pc[p] = "insert"
      BY <1>7 DEF InsertPending, Goto
    <2>2. \/ rows' = rows
          \/ \E i \in Items : rows' = [rows EXCEPT ![i] = [status |-> "pending", run |-> job[p].run, gate |-> job[p].gate]]
      BY <1>7 DEF InsertPending
    <2> QED BY <1>0, <1>7, <2>1, <2>2, ResearchFacts DEF HitlStep, InsertPending, Starting, ownVars, graph
  <1>8. CASE HitlStep(p) /\ (Claim(p) \/ Reopen(p))
    <2>1. pc'[p] \in {"idle", "resume"} /\ pc[p] \in {"claim", "reopen"}
      BY <1>0, <1>8 DEF Claim, Reopen, Goto, Finish
    <2>2. job[p].item # 0
      BY <2>1 DEF ResearchInv, IndInv, JobsWellFormed, JobWellFormed
    <2>3. PICK i \in Items : i = job[p].item /\ rows[i].status # "absent"
      BY <2>2, ResearchFacts
    <2>4. rows' = rows \/ \E t \in {"pending"} \cup Decided : SetStatus(i, t)
      <3>1. Claim(p) => job[p].action \in Actions
        BY <2>2 DEF ResearchInv, IndInv, JobsWellFormed, JobWellFormed
      <3> QED BY <1>8, <2>3, <3>1, StatusFacts DEF Claim, Reopen
    <2>5. \A k \in Items : rows'[k].status # "absent" => rows[k].status # "absent" /\ rows'[k].run = rows[k].run
      <3>1. ASSUME NEW t \in {"pending"} \cup Decided, SetStatus(i, t)
            PROVE  \A k \in Items : rows'[k].status # "absent" => rows[k].status # "absent" /\ rows'[k].run = rows[k].run
        <4> DEFINE w == [rows[i] EXCEPT !.status = t]
        <4>1. w.run = rows[i].run
          BY <1>0, <2>3, <3>1, StatusUpdate
        <4>2. rows' = [rows EXCEPT ![i] = w]
          BY <3>1 DEF SetStatus
        <4> HIDE DEF w
        <4> QED BY <1>0, <2>3, <4>1, <4>2
      <3> QED BY <2>4, <3>1
    <2>6. UNCHANGED <<ownVars, graph>>
      BY <1>8 DEF HitlStep, Claim, Reopen
    <2> QED BY <2>1, <2>5, <2>6, ResearchFacts DEF Starting, ownVars, graph
  <1>9. CASE HitlStep(p) /\ (SelectPending(p) \/ LiveCheck(p) \/ Refuse(p) \/ AuditFails(p))
    <2>1. pc'[p] \in {"idle", "claim"} /\ pc[p] \in {"select", "check", "claim", "audit"}
      BY <1>0, <1>9 DEF SelectPending, LiveCheck, Refuse, AuditFails, Goto, Finish
    <2>2. UNCHANGED <<tables, graph, ownVars>>
      BY <1>9 DEF SelectPending, LiveCheck, Refuse, AuditFails, HitlStep
    <2> QED BY <2>1, <2>2, ResearchFacts DEF Starting, ownVars, tables, graph
  <1> QED
    BY <1>1, <1>2, <1>3, <1>4, <1>5, <1>6, <1>7, <1>8, <1>9 DEF HitlStep

LEMMA QuietProgress ==
    ASSUME ResearchInv, NEW p \in Workers,
           \/ ListQueue(p) \/ HitlStep(p) \/ GateRefuses(p) \/ DecisionAudited(p)
           \/ \E i \in Items, a \in Choices : DecideBegins(p, i, a)
    PROVE  ResearchTypes' /\ Progress'
  <1>1. ResearchTypes'
    BY QuietFacts DEF ResearchTypes, ResearchInv
  <1>2. research' = research /\ slips' = slips /\ raised' = raised
    BY QuietFacts
  <1>3. Alone(p)
    BY WorkerAlone DEF WorkerStep, Works
  <1>4. ASSUME job[p].item # 0 PROVE raised[job[p].run] > 0 /\ job[p].run \in Runs
    BY <1>4, ResearchFacts DEF ResearchInv, Progress
  <1>5. \A q \in Runs :
          \/ ckpt'[q] = ckpt[q]
          \/ ckpt'[q].phase = "done" /\ raised[q] > 0 /\ ckpt[q].phase # "new"
             /\ research[q].visited = GateNode
    <2>1. CASE SegmentEnds(p) /\ job[p].item # 0
      <3>1. PICK r \in Runs : r = job[p].run
        BY <1>4, <2>1
      <3>2. ckpt' = [ckpt EXCEPT ![r] = [phase |-> "done", at |-> NGates, intr |-> 0]]
        BY <2>1, <3>1 DEF SegmentEnds
      <3>3. ckpt'[r].phase = "done" /\ \A q \in Runs : q # r => ckpt'[q] = ckpt[q]
        BY <3>2, ResearchFacts
      <3>4. ckpt[r].phase # "new" /\ research[r].visited = GateNode
        BY <2>1, <3>1 DEF SegmentEnds, ResearchInv, Progress, CallProgress
      <3> QED BY <1>4, <2>1, <3>1, <3>3, <3>4
    <2> QED BY <2>1, QuietFacts
  <1>6. ASSUME NEW q \in Runs PROVE RunProgress(q)' /\ Shows(q)'
    <2>1. RunProgress(q) /\ Shows(q)
      BY DEF ResearchInv, Progress
    <2>2. RunProgress(q)'
      BY <1>2, <1>5, <2>1 DEF RunProgress
    <2>3. \A w \in Workers : Starting(w) => Starting(w)' /\ job'[w] = job[w]
      BY <1>3, QuietFacts DEF Alone, Starting
    <2> QED BY <1>2, <1>5, <2>1, <2>2, <2>3 DEF Shows
  <1>7. \A q \in Runs : ckpt[q].phase # "new" => ckpt'[q].phase # "new"
    BY <1>5
  <1>8. ASSUME NEW q \in Workers PROVE CallProgress(q)'
    <2>1. CASE q = p
      <3>1. pc'[p] = "insert" => raised[job'[p].run] > 0
        BY QuietFacts DEF ResearchInv, Progress, RunProgress
      <3>2. ASSUME pc'[p] = "segment"
            PROVE  ckpt'[job'[p].run].phase # "new" /\ research[job'[p].run].visited = GateNode
        <4>1. PICK r \in Runs : r = job[p].run /\ r = job'[p].run
          BY <3>2, QuietFacts, ResearchFacts
        <4>2. job[p].item # 0
          BY <3>2, QuietFacts DEF ResearchInv, IndInv, JobsWellFormed, JobWellFormed
        <4>3. raised[r] > 0 /\ ckpt[r].phase = "running"
          BY <1>4, <3>2, <4>1, <4>2, QuietFacts
        <4>4. RunProgress(r)
          BY DEF ResearchInv, Progress
        <4> QED BY <1>7, <4>1, <4>3, <4>4 DEF RunProgress
      <3> QED BY <1>2, <2>1, <3>1, <3>2 DEF CallProgress
    <2>2. CASE q # p
      <3>1. pc'[q] = pc[q] /\ job'[q] = job[q] /\ CallProgress(q)
        BY <1>3, <2>2 DEF Alone, ResearchInv, Progress
      <3>2. pc[q] # "idle" => job[q].run \in Runs
        BY ResearchFacts
      <3> QED BY <1>2, <1>7, <3>1, <3>2 DEF CallProgress
    <2> QED BY <2>1, <2>2
  <1>9. ASSUME NEW i \in Items, rows'[i].status # "absent" PROVE raised'[rows'[i].run] > 0
    <2>1. CASE rows[i].status # "absent" /\ rows'[i].run = rows[i].run
      BY <1>2, <2>1 DEF ResearchInv, Progress
    <2>2. CASE pc[p] = "insert" /\ rows'[i].run = job[p].run
      BY <1>2, <2>2 DEF ResearchInv, Progress, CallProgress
    <2> QED BY <1>9, <2>1, <2>2, QuietFacts
  <1> QED
    BY <1>1, <1>6, <1>8, <1>9 DEF Progress

(* The gate takes the answer of a row of its run. *)
LEMMA DecidesFacts ==
    ASSUME ResearchInv, NEW p \in Workers, GateDecides(p)
    PROVE  /\ pc[p] = "gate" /\ pc'[p] = "segment" /\ job[p].run \in Runs /\ job[p].item # 0
           /\ job'[p].run = job[p].run /\ job'[p].item = job[p].item
           /\ ckpt'[job[p].run].phase = "running" /\ ckpt[job[p].run].phase # "new"
           /\ raised[job[p].run] > 0
           /\ \A q \in Runs : q # job[p].run => ckpt'[q] = ckpt[q]
           /\ UNCHANGED <<rows, audits, raised, faults, store, hand, slips>>
           /\ \E s : /\ research' = [research EXCEPT ![job[p].run] = s]
                     /\ s \in ResearchState /\ s.visited = GateNode
                     /\ s.named = research[job[p].run].named
                     /\ s.board = research[job[p].run].board
                     /\ s.draft = research[job[p].run].draft
                     /\ s.decision \in VerdictsOf(job[p].action)
  <1>1. GateReturns(p) /\ pc[p] = "gate" /\ UNCHANGED <<rows, audits, raised, faults, store, hand, slips>>
    BY DEF GateDecides, GateReturns, tables, budget
  <1>2. job[p].item # 0
    BY <1>1 DEF ResearchInv, IndInv, JobsWellFormed, JobWellFormed
  <1>3. PICK r \in Runs, w \in ResearchState : r = job[p].run /\ w = research[r]
    BY <1>1, ResearchFacts
  <1>4. raised[r] > 0
    BY <1>2, <1>3, ResearchFacts DEF ResearchInv, Progress
  <1>5. ckpt[r].phase # "new"
    BY <1>4 DEF ResearchInv, Progress, RunProgress
  <1>6. ckpt' = [ckpt EXCEPT ![r] = [phase |-> "running", at |-> job[p].gate, intr |-> 0]]
    BY <1>1, <1>3 DEF GateReturns
  <1>7. ckpt'[r].phase = "running" /\ \A q \in Runs : q # r => ckpt'[q] = ckpt[q]
    BY <1>6, ResearchFacts
  <1>8. pc'[p] = "segment" /\ job'[p].run = job[p].run /\ job'[p].item = job[p].item
    <2> DEFINE k == [job[p] EXCEPT !.sent = TRUE]
    <2>1. pc' = [pc EXCEPT ![p] = "segment"] /\ job' = [job EXCEPT ![p] = k]
      BY <1>1 DEF GateReturns, Goto
    <2>2. job[p] \in Job
      BY ResearchFacts
    <2>3. k.run = job[p].run /\ k.item = job[p].item
      BY <2>2, SentUpdate
    <2> HIDE DEF k
    <2> QED BY <2>1, <2>3, ResearchFacts
  <1>9. PICK verdict \in VerdictsOf(job[p].action) :
           research' = [research EXCEPT ![job[p].run] = [@ EXCEPT !.visited = GateNode, !.decision = verdict]]
    BY DEF GateDecides
  <1> DEFINE s == [w EXCEPT !.visited = GateNode, !.decision = verdict]
  <1>10. research' = [research EXCEPT ![r] = s]
    BY <1>3, <1>9
  <1>11. s \in ResearchState /\ s.visited = GateNode /\ s.decision = verdict /\ s.named = w.named
         /\ s.board = w.board /\ s.draft = w.draft
    <2>1. verdict \in Verdicts /\ GateNode \in 0 .. GateNode
      BY FiveNodes DEF VerdictsOf, Verdicts
    <2> QED BY <2>1 DEF ResearchState
  <1> HIDE DEF s
  <1> QED
    BY <1>1, <1>2, <1>3, <1>4, <1>5, <1>7, <1>8, <1>9, <1>10, <1>11

LEMMA DecidesProgress ==
    ASSUME ResearchInv, NEW p \in Workers, GateDecides(p)
    PROVE  ResearchTypes' /\ Progress'
  <1>1. PICK r \in Runs : r = job[p].run
    BY DecidesFacts
  <1>2. PICK s \in ResearchState :
           /\ research' = [research EXCEPT ![r] = s]
           /\ s.visited = GateNode /\ s.named = research[r].named
           /\ s.board = research[r].board /\ s.draft = research[r].draft
    BY <1>1, DecidesFacts
  <1>3. research'[r] = s /\ \A q \in Runs : q # r => research'[q] = research[q]
    BY <1>2, ResearchFacts
  <1>4. ResearchTypes'
    BY <1>2, DecidesFacts DEF ResearchTypes, ResearchInv
  <1>5. Alone(p)
    BY WorkerAlone DEF WorkerStep, Works
  <1>6. ASSUME NEW q \in Runs PROVE RunProgress(q)' /\ Shows(q)'
    <2>1. RunProgress(q) /\ Shows(q)
      BY DEF ResearchInv, Progress
    <2>2. CASE q # r
      <3>1. RunProgress(q)'
        BY <1>1, <1>3, <2>1, <2>2, DecidesFacts, RunFrame
      <3>2. \A w \in Workers : Starting(w) => Starting(w)' /\ job'[w] = job[w]
        BY <1>5, DecidesFacts DEF Alone, Starting
      <3> QED BY <1>1, <1>3, <2>1, <2>2, <3>1, <3>2, DecidesFacts DEF Shows
    <2>3. CASE q = r
      BY <1>1, <1>2, <1>3, <2>1, <2>3, DecidesFacts, FiveNodes DEF RunProgress, Shows
    <2> QED BY <2>2, <2>3
  <1>7. ASSUME NEW q \in Workers PROVE CallProgress(q)'
    <2>1. CASE q = p
      BY <1>1, <1>2, <1>3, <2>1, DecidesFacts DEF CallProgress
    <2>2. CASE q # p
      <3>1. pc'[q] = pc[q] /\ job'[q] = job[q] /\ CallProgress(q)
        BY <1>5, <2>2 DEF Alone, ResearchInv, Progress
      <3>2. pc[q] # "idle" => job[q].run \in Runs
        BY ResearchFacts
      <3>3. \A m \in Runs : /\ ckpt[m].phase # "new" => ckpt'[m].phase # "new"
                            /\ research[m].visited = GateNode => research'[m].visited = GateNode
        BY <1>1, <1>2, <1>3, DecidesFacts
      <3> QED BY <3>1, <3>2, <3>3, DecidesFacts DEF CallProgress
    <2> QED BY <2>1, <2>2
  <1>8. \A i \in Items : rows'[i].status # "absent" => raised'[rows'[i].run] > 0
    BY DecidesFacts DEF ResearchInv, Progress
  <1> QED
    BY <1>4, <1>6, <1>7, <1>8 DEF Progress

(* The hand-over touches the contract of one collection. *)
LEMMA HandoverFacts ==
    ASSUME ResearchInv, NEW p \in Workers, Handover(p)
    PROVE  /\ UNCHANGED <<vars, research>> /\ hand' \in [Workers -> Hand]
           /\ store' \in [Slugs -> Contract] /\ slips' \in 0 .. MaxSlips /\ slips' >= slips
  <1>0. /\ hand \in [Workers -> Hand] /\ hand[p] \in Hand /\ store \in [Slugs -> Contract]
        /\ slips \in 0 .. MaxSlips /\ slips \in Nat
    BY ResearchFacts DEF ResearchInv, ResearchTypes
  <1>1. UNCHANGED <<vars, research>>
    BY DEF Handover, BuildHandoff, FindCandidate, CreateCandidate, UpdateCandidate, HandoffAudited, HandoffFails
  <1>2. slips' \in 0 .. MaxSlips /\ slips' >= slips
    BY <1>0, ResearchAssumption DEF Handover, BuildHandoff, FindCandidate, CreateCandidate, UpdateCandidate,
       HandoffAudited, HandoffFails, Slip
  <1>3. hand' \in [Workers -> Hand]
    <2>1. ASSUME NEW to \in {"create", "update", "audit"}, Step(p, to) PROVE hand' \in [Workers -> Hand]
      <3> DEFINE h == [hand[p] EXCEPT !.step = to]
      <3>1. h \in Hand
        BY <1>0 DEF Hand
      <3>2. hand' = [hand EXCEPT ![p] = h]
        BY <2>1 DEF Step
      <3> HIDE DEF h
      <3> QED BY <1>0, <3>1, <3>2
    <2>2. CASE BuildHandoff(p)
      <3>1. ASSUME NEW t \in {"draft", "edited"}
            PROVE  [hand[p] EXCEPT !.step = "get", !.text = t] \in Hand
        BY <1>0 DEF Hand, Texts
      <3>2. \/ hand' = [hand EXCEPT ![p] = NoHand]
            \/ \E t \in {"draft", "edited"} : hand' = [hand EXCEPT ![p] = [hand[p] EXCEPT !.step = "get", !.text = t]]
        BY <2>2 DEF BuildHandoff
      <3> QED BY <1>0, <3>1, <3>2, HandFields
    <2>3. CASE hand' = [hand EXCEPT ![p] = NoHand]
      BY <1>0, <2>3, HandFields
    <2>4. CASE FindCandidate(p)
      <3>1. Step(p, "create") \/ Step(p, "update")
        BY <2>4 DEF FindCandidate
      <3> QED BY <2>1, <3>1
    <2>5. CASE (CreateCandidate(p) \/ UpdateCandidate(p)) /\ Step(p, "audit")
      BY <2>1, <2>5
    <2> QED BY <2>2, <2>3, <2>4, <2>5 DEF Handover, CreateCandidate, UpdateCandidate, HandoffAudited, HandoffFails
  <1>4. store' \in [Slugs -> Contract]
    <2>1. hand[p].text \in Texts
      BY <1>0, HandFields
    <2>2. CASE store' = [store EXCEPT ![Target(p)] = [status |-> "draft", text |-> hand[p].text]]
      <3> DEFINE c == [status |-> "draft", text |-> hand[p].text]
      <3>1. c \in Contract
        BY <2>1, ContractFields
      <3>2. store' = [store EXCEPT ![Target(p)] = c]
        BY <2>2
      <3> HIDE DEF c
      <3> QED BY <1>0, <3>1, <3>2
    <2>3. CASE store' = [store EXCEPT ![Target(p)] = [@ EXCEPT !.text = hand[p].text]]
      <3>1. CASE Target(p) \in Slugs
        <4> DEFINE c == [store[Target(p)] EXCEPT !.text = hand[p].text]
        <4>1. c \in Contract
          BY <1>0, <2>1, <3>1, ContractFields
        <4>2. store' = [store EXCEPT ![Target(p)] = c]
          BY <2>3
        <4> HIDE DEF c
        <4> QED BY <1>0, <4>1, <4>2
      <3>2. CASE Target(p) \notin Slugs
        BY <1>0, <2>3, <3>2
      <3> QED BY <3>1, <3>2
    <2>4. \/ store' = store
          \/ store' = [store EXCEPT ![Target(p)] = [status |-> "draft", text |-> hand[p].text]]
          \/ store' = [store EXCEPT ![Target(p)] = [@ EXCEPT !.text = hand[p].text]]
      BY DEF Handover, BuildHandoff, FindCandidate, CreateCandidate, UpdateCandidate, HandoffAudited, HandoffFails
    <2> QED BY <1>0, <2>2, <2>3, <2>4
  <1> QED
    BY <1>1, <1>2, <1>3, <1>4

(* Other users change the stage of one collection. *)
LEMMA LifecycleFacts ==
    ASSUME ResearchInv, NEW s \in Slugs, LifecycleStep(s)
    PROVE  /\ UNCHANGED <<vars, research, hand>>
           /\ store' \in [Slugs -> Contract] /\ slips' \in 0 .. MaxSlips /\ slips' >= slips
           /\ slips' = slips => \A t \in Slugs : /\ store'[t].text = store[t].text
                                                 /\ store'[t].status = "absent" <=> store[t].status = "absent"
  <1>0. store \in [Slugs -> Contract] /\ slips \in 0 .. MaxSlips /\ slips \in Nat
    BY ResearchFacts DEF ResearchInv, ResearchTypes
  <1>1. UNCHANGED <<vars, research, hand>>
    BY DEF LifecycleStep
  <1>2. slips' \in 0 .. MaxSlips /\ slips' >= slips
    BY <1>0, ResearchAssumption DEF LifecycleStep, Slip
  <1>3. CASE store' = [store EXCEPT ![s] = [status |-> "draft", text |-> "own"]] /\ slips' = slips + 1
    <2> DEFINE c == [status |-> "draft", text |-> "own"]
    <2>1. c \in Contract
      BY ContractFields DEF Texts
    <2>2. store' = [store EXCEPT ![s] = c]
      BY <1>3
    <2> HIDE DEF c
    <2> QED BY <1>0, <1>1, <1>2, <1>3, <2>1, <2>2
  <1>4. ASSUME NEW to \in {"active", "retired"}, store' = [store EXCEPT ![s] = [@ EXCEPT !.status = to]],
               store[s].status # "absent"
        PROVE  /\ store' \in [Slugs -> Contract]
               /\ \A t \in Slugs : /\ store'[t].text = store[t].text
                                   /\ store'[t].status = "absent" <=> store[t].status = "absent"
    <2> DEFINE c == [store[s] EXCEPT !.status = to]
    <2>1. c \in Contract /\ c.text = store[s].text /\ c.status # "absent"
      <3>1. store[s] \in Contract
        BY <1>0
      <3> QED BY <3>1 DEF Contract
    <2>2. store' = [store EXCEPT ![s] = c]
      BY <1>4
    <2> HIDE DEF c
    <2> QED BY <1>0, <1>4, <2>1, <2>2
  <1> QED
    BY <1>1, <1>2, <1>3, <1>4 DEF LifecycleStep, Slip

(* Steps outside the queue and the research state. *)
LEMMA OutsideProgress ==
    ASSUME ResearchInv, UNCHANGED <<vars, research>>, slips' \in 0 .. MaxSlips, slips' >= slips
    PROVE  Progress'
  <1>1. ckpt' = ckpt /\ raised' = raised /\ pc' = pc /\ job' = job /\ rows' = rows /\ research' = research
    BY DEF vars
  <1>2. slips > 0 => slips' > 0
    BY ResearchFacts, ResearchAssumption
  <1>3. Progress
    BY DEF ResearchInv
  <1> QED
    BY <1>1, <1>2, <1>3 DEF Progress, RunProgress, Shows, CallProgress, Starting

(* A crash slips. *)
LEMMA CrashProgress ==
    ASSUME ResearchInv, ResearchCrash
    PROVE  ResearchTypes' /\ Progress'
  <1>1. slips' \in 0 .. MaxSlips /\ slips' > 0 /\ UNCHANGED <<research, store>>
        /\ hand' = [p \in Workers |-> NoHand]
    BY ResearchFacts, ResearchAssumption DEF ResearchCrash, Slip
  <1>2. ResearchTypes'
    BY <1>1, HandFields DEF ResearchTypes, ResearchInv
  <1>3. ckpt' = ckpt /\ raised' = raised /\ rows' = rows
    BY DEF ResearchCrash, Crash, tables, graph, vars
  <1>4. \A p \in Workers : pc'[p] = "idle"
    BY DEF ResearchCrash, Crash, vars
  <1>5. Progress
    BY DEF ResearchInv
  <1> QED
    BY <1>1, <1>2, <1>3, <1>4, <1>5 DEF Progress, RunProgress, Shows, CallProgress

LEMMA NextResearchInv == ResearchInv /\ [ResearchNext]_allVars => ResearchInv'
  <1> SUFFICES ASSUME ResearchInv, [ResearchNext]_allVars PROVE ResearchInv'
    OBVIOUS
  <1>1. IndInv' /\ Answers'
    BY QueueStep, NextIndInv, AnswersStep DEF ResearchInv
  <1>2. ASSUME NEW p \in Workers, WorkerStep(p) PROVE ResearchTypes' /\ Progress'
    <2>1. CASE Handover(p)
      BY <2>1, HandoverFacts, OutsideProgress DEF ResearchTypes, ResearchInv
    <2>2. CASE Node(p)
      BY <2>2, NodeProgress, AsksProgress, FailsProgress DEF Node
    <2> QED
      BY <1>2, <2>1, <2>2, StartProgress, QuietProgress, DecidesProgress DEF WorkerStep, Works
  <1>3. CASE ResearchCrash
    BY <1>1, <1>3, CrashProgress DEF ResearchInv
  <1>4. ASSUME NEW s \in Slugs, LifecycleStep(s) PROVE ResearchTypes' /\ Progress'
    BY <1>4, LifecycleFacts, OutsideProgress DEF ResearchTypes, ResearchInv
  <1>5. CASE UNCHANGED allVars
    <2>1. UNCHANGED <<vars, research>> /\ UNCHANGED <<research, store, hand, slips>>
      BY <1>5 DEF allVars, ownVars
    <2>2. slips' >= slips /\ slips' \in 0 .. MaxSlips
      BY <2>1, ResearchFacts DEF ResearchInv, ResearchTypes
    <2> QED BY <1>1, <2>1, <2>2, OutsideProgress DEF ResearchInv, ResearchTypes
  <1> QED
    BY <1>1, <1>2, <1>3, <1>4, <1>5 DEF ResearchNext, WorkerStep, ResearchInv

LEMMA InitResearchInv == ResearchInit => ResearchInv
  <1> SUFFICES ASSUME ResearchInit PROVE ResearchInv
    OBVIOUS
  <1>1. Init
    BY DEF ResearchInit
  <1>2. IndInv /\ Answers
    BY <1>1, InitIndInv, InitAnswers
  <1>3. ResearchTypes
    <2>1. store \in [Slugs -> Contract]
      BY ContractFields DEF ResearchInit, Texts
    <2> QED BY <2>1, NewFields, HandFields, ResearchAssumption DEF ResearchInit, ResearchTypes
  <1>4. \A r \in Runs : ckpt[r].phase = "new" /\ raised[r] = 0 /\ research[r] = NotStarted
    BY DEF ResearchInit, Init
  <1>5. \A r \in Runs : RunProgress(r) /\ Shows(r)
    BY <1>4, NewFields, FiveNodes DEF RunProgress, Shows
  <1>6. \A p \in Workers : pc[p] = "idle"
    BY <1>1 DEF Init
  <1>7. \A i \in Items : rows[i].status = "absent"
    BY <1>1 DEF Init, NoRow
  <1> QED
    BY <1>2, <1>3, <1>5, <1>6, <1>7 DEF ResearchInv, Progress, CallProgress

(* The inductive invariant: what the checkpoints, the calls of the queue and the *)
(* research state say of a run fits together.                                    *)
THEOREM ResearchInvariance == ResearchSpec => []ResearchInv
  <1> QED
    BY InitResearchInv, NextResearchInv, PTL DEF ResearchSpec

(* Every variable keeps its type; a draft is complete when the gate asks for its *)
(* approval, and a run is decided only behind its gate.                          *)
THEOREM ResearchTypeCorrect == ResearchSpec => []ResearchTypeOK
  <1>1. ResearchInv => ResearchTypeOK
    BY DEF ResearchInv, IndInv, ResearchTypes, Progress, RunProgress, ResearchTypeOK
  <1> QED
    BY <1>1, ResearchInvariance, PTL

(* A run that no thread works on waits for a decision, is complete, or shows its *)
(* failure: only the death of the process, or a failure that could not be        *)
(* recorded, leaves a run that seems to work.                                    *)
THEOREM NoSilentStall == ResearchSpec => []NoRunStallsSilently
  <1>1. ResearchInv => NoRunStallsSilently
    BY DEF ResearchInv, Progress, Shows, Starting, NoRunStallsSilently, DerivedStatus
  <1> QED
    BY <1>1, ResearchInvariance, PTL

-----------------------------------------------------------------------------
(* The way of an approved draft to the disk.                                *)

\* i is the only decision of run r.
Sole(r, i) == DecidedRows(r) = {i}

HasHand(p, r) == hand[p].step # "none" /\ hand[p].run = r

Approved(r) == research[r].decision \in {"approved", "approved_edited"} /\ research[r].draft

\* What is to be on disk, unless another run works for the same collection.
Wanted(r) == IF research[r].decision = "approved_edited" THEN "edited" ELSE "draft"
Shared(r) == \E s \in Runs \ {r} : research[s].named = research[r].named
Stored(r) == store[research[r].named].text = Wanted(r) \/ Shared(r)

\* The stages of the approval i of run r in the hands of call p.
Answering(p, r, i) == Holds(p, i) /\ pc[p] \in {"resume", "gate"} /\ ckpt[r].phase = "paused"
Answered(p, r, i) == Holds(p, i) /\ pc[p] \in {"segment", "audit"} /\ Approved(r)
Fetching(p, r) == HasHand(p, r) /\ hand[p].step = "history" /\ Approved(r)
Placing(p, r) ==
    /\ HasHand(p, r) /\ hand[p].step \in {"get", "create", "update"}
    /\ hand[p].text = Wanted(r)
    /\ hand[p].step = "create" => store[research[r].named].status = "absent" \/ Shared(r)
Placed(r, i) ==
    /\ \A p \in Workers : ~ Holds(p, i) /\ (HasHand(p, r) => hand[p].step = "audit")
    /\ Stored(r)

OnItsWay(r, i) ==
    \/ \E p \in Workers : Answering(p, r, i)
    \/ \E p \in Workers : Answered(p, r, i)
    \/ \E p \in Workers : Fetching(p, r)
    \/ \E p \in Workers : Placing(p, r)
    \/ Placed(r, i)

\* A gate that nobody decided is still waiting.
Waits(r) == faults = 0 /\ raised[r] > 0 /\ DecidedRows(r) = {} => ckpt[r].phase = "paused"

\* A hand-over follows the audit of a decision of its run, and goes on in an idle worker.
HandOrigin(p) ==
    hand[p].step # "none" =>
        /\ pc[p] = "idle" /\ hand[p].run \in Runs
        /\ \E i \in Items : rows[i].run = hand[p].run /\ audits[i] # <<>>

\* One decision is handed over once.
HandAlone(r) ==
    faults = 0 => \A i \in Items, p, q \in Workers :
                     Sole(r, i) /\ HasHand(p, r) /\ HasHand(q, r) => p = q

ApprovalMoves(r) ==
    faults = 0 /\ slips = 0 =>
        \A i \in Items : Sole(r, i) /\ rows[i].status = "approved" => OnItsWay(r, i)

HandoverInv ==
    /\ ResearchInv /\ Accounted
    /\ \A r \in Runs : Waits(r) /\ HandAlone(r)
    /\ \A p \in Workers : HandOrigin(p)

DraftInv == HandoverInv /\ \A r \in Runs : ApprovalMoves(r)

-----------------------------------------------------------------------------
(* The decisions of a run.                                                  *)

LEMMA SoleFacts ==
    ASSUME NEW r \in Runs, NEW i \in Items, Sole(r, i)
    PROVE  /\ rows[i].run = r /\ rows[i].status \in Decided
           /\ \A k \in Items : rows[k].run = r /\ rows[k].status \in Decided => k = i
  <1>1. i \in DecidedRows(r)
    BY DEF Sole
  <1>2. \A k \in Items : rows[k].run = r /\ rows[k].status \in Decided => k \in DecidedRows(r)
    BY DEF DecidedRows
  <1> QED
    BY <1>1, <1>2 DEF Sole, DecidedRows

(* A call that holds a row holds a decided row of its run. *)
LEMMA HeldIsDecided ==
    ASSUME ResearchInv, NEW q \in Workers, pc[q] \in Holding, job[q].item # 0
    PROVE  /\ job[q].item \in Items /\ rows[job[q].item].run = job[q].run
           /\ rows[job[q].item].status = ActionToStatus[job[q].action]
           /\ rows[job[q].item].status \in Decided /\ Holds(q, job[q].item)
  <1>1. job[q].item \in Items /\ rows[job[q].item].run = job[q].run
    BY ResearchFacts
  <1>2. Holds(q, job[q].item)
    BY DEF Holds
  <1>3. rows[job[q].item].status = ActionToStatus[job[q].action] /\ job[q].action \in Actions
    BY <1>2 DEF ResearchInv, IndInv, ExclusiveClaim, JobsWellFormed, JobWellFormed
  <1> QED
    BY <1>1, <1>2, <1>3, StatusFacts

(* When a run has one decision, only its holder works behind the gate. *)
LEMMA SoleHolder ==
    ASSUME ResearchInv, NEW r \in Runs, NEW i \in Items, Sole(r, i),
           NEW q \in Workers, pc[q] \in Holding, job[q].item # 0, job[q].run = r
    PROVE  Holds(q, i)
  BY HeldIsDecided, SoleFacts

LEMMA OneHolder ==
    ASSUME ResearchInv, NEW i \in Items, NEW p \in Workers, NEW q \in Workers, Holds(p, i), Holds(q, i)
    PROVE  p = q
  <1>1. job[p].item = i /\ i # 0 /\ ExclusiveClaim
    BY ResearchFacts, HitlAssumption DEF Holds, Items, ResearchInv, IndInv
  <1> QED
    BY <1>1 DEF ExclusiveClaim

(* The run of a decision has begun. *)
LEMMA DecidedHasBegun ==
    ASSUME ResearchInv, NEW r \in Runs, NEW i \in Items, rows[i].run = r, rows[i].status \in Decided
    PROVE  raised[r] > 0 /\ ckpt[r].phase # "new" /\ research[r].named \in Slugs
  <1>1. raised[r] > 0
    BY StatusFacts DEF ResearchInv, Progress
  <1> QED
    BY <1>1 DEF ResearchInv, Progress, RunProgress

(* A decision that is handed over is audited, and nobody holds it. *)
LEMMA HandedOver ==
    ASSUME HandoverInv, NEW r \in Runs, NEW p \in Workers, HasHand(p, r)
    PROVE  /\ DecidedRows(r) # {}
           /\ \A i \in Items : Sole(r, i) => audits[i] # <<>> /\ \A q \in Workers : ~ Holds(q, i)
  <1>1. PICK k \in Items : rows[k].run = r /\ audits[k] # <<>>
    BY DEF HandoverInv, HandOrigin, HasHand
  <1>2. rows[k].status = ActionToStatus[audits[k][1]] /\ Len(audits[k]) = 1 /\ audits[k] \in Seq(Actions)
    BY <1>1 DEF HandoverInv, ResearchInv, IndInv, AuditTrailAgrees, TypeOK
  <1>3. rows[k].status \in Decided
    BY <1>2, StatusFacts
  <1>4. k \in DecidedRows(r)
    BY <1>1, <1>3 DEF DecidedRows
  <1>5. ASSUME NEW i \in Items, Sole(r, i) PROVE audits[i] # <<>> /\ \A q \in Workers : ~ Holds(q, i)
    <2>1. k = i
      BY <1>1, <1>3, <1>5, SoleFacts
    <2> QED BY <1>1, <2>1 DEF HandoverInv, ResearchInv, IndInv, HeldUnaudited
  <1> QED
    BY <1>4, <1>5

(* While nothing fails, decisions are only added, one at a time. *)
LEMMA DecisionsGrow ==
    ASSUME ResearchInv, Accounted, [Next]_vars, faults' = 0, NEW r \in Runs
    PROVE  /\ faults = 0
           /\ DecidedRows(r) \subseteq DecidedRows(r)'
           /\ \A i \in Items : Sole(r, i) => rows'[i] = rows[i]
  <1>1. faults = 0
    BY FaultsStay, ResearchFacts DEF ResearchInv
  <1>2. \A i \in Items : rows[i].status \in Decided => rows'[i] = rows[i]
    BY <1>1, DecisionsStay DEF ResearchInv
  <1>3. DecidedRows(r) \subseteq DecidedRows(r)'
    BY <1>2 DEF DecidedRows
  <1> QED
    BY <1>1, <1>2, <1>3, SoleFacts

-----------------------------------------------------------------------------
(* What a step leaves of a run that has begun.                              *)

LEMMA ResearchStep ==
    ASSUME ResearchInv, [ResearchNext]_allVars, NEW s \in Runs, ckpt[s].phase # "new"
    PROVE  /\ research'[s].named = research[s].named
           /\ research[s].draft => research'[s].draft
           /\ \/ research'[s].decision = research[s].decision
              \/ \E q \in Workers : GateDecides(q) /\ job[q].run = s
  <1> DEFINE Kept == /\ research'[s].named = research[s].named
                     /\ research[s].draft => research'[s].draft
                     /\ research'[s].decision = research[s].decision
  <1>0. research \in [Runs -> ResearchState]
    BY ResearchFacts
  <1>1. CASE research' = research
    BY <1>1
  <1>2. ASSUME NEW p \in Workers, NEW r \in Runs, StartRequest(p, r) PROVE Kept
    <2>1. r # s
      BY <1>2, StartFacts
    <2> QED BY <1>0, <1>2, <2>1, StartFacts
  <1>3. ASSUME NEW p \in Workers, InspirationReview(p) \/ StyleSynthesis(p) \/ MoodBoard(p) \/ ContractDraft(p)
        PROVE  Kept
    <2>1. PICK n : Advances(p, n)
      BY <1>3, NodeFacts
    <2> QED BY <1>0, <2>1 DEF Advances
  <1>4. ASSUME NEW p \in Workers, StartFails(p) PROVE Kept
    BY <1>0, <1>4, FailsFacts
  <1>5. ASSUME NEW p \in Workers, GateDecides(p)
        PROVE  Kept \/ (/\ research'[s].named = research[s].named
                        /\ research[s].draft => research'[s].draft
                        /\ job[p].run = s)
    BY <1>0, <1>5, DecidesFacts
  <1>6. ASSUME NEW p \in Workers, CollectionGateAsks(p) PROVE research' = research
    BY <1>6, AsksFacts DEF ownVars
  <1>7. ASSUME NEW p \in Workers, Handover(p) PROVE research' = research
    BY <1>7, HandoverFacts
  <1>8. ASSUME NEW p \in Workers,
               \/ ListQueue(p) \/ HitlStep(p) \/ GateRefuses(p) \/ DecisionAudited(p)
               \/ \E i \in Items, a \in Choices : DecideBegins(p, i, a)
        PROVE  research' = research
    BY <1>8, QuietFacts
  <1>9. ASSUME ResearchCrash \/ (\E t \in Slugs : LifecycleStep(t)) \/ UNCHANGED allVars
        PROVE  research' = research
    BY <1>9 DEF ResearchCrash, LifecycleStep, allVars, ownVars
  <1> QED
    BY <1>1, <1>2, <1>3, <1>4, <1>5, <1>6, <1>7, <1>8, <1>9 DEF ResearchNext, Works, Node

(* Runs that share their collection go on sharing it. *)
LEMMA SharedStays ==
    ASSUME ResearchInv, [ResearchNext]_allVars, NEW r \in Runs, ckpt[r].phase # "new", Shared(r)
    PROVE  Shared(r)'
  <1>1. PICK s \in Runs \ {r} : research[s].named = research[r].named
    BY DEF Shared
  <1>2. research[r].named \in Slugs
    BY DEF ResearchInv, Progress, RunProgress
  <1>3. ckpt[s].phase # "new"
    BY <1>1, <1>2, NewFields, ResearchAssumption DEF ResearchInv, Progress, RunProgress
  <1>4. research'[s].named = research[s].named /\ research'[r].named = research[r].named
    BY <1>1, <1>3, ResearchStep
  <1> QED
    BY <1>1, <1>4 DEF Shared

(* Only a call that holds a decision of the run takes it out of its gate. *)
LEMMA PausedStays ==
    ASSUME ResearchInv, [ResearchNext]_allVars, NEW s \in Runs, ckpt[s].phase = "paused"
    PROVE  \/ ckpt'[s].phase = "paused"
           \/ \E q \in Workers : /\ GateDecides(q) \/ SegmentEnds(q)
                                 /\ pc[q] \in Holding /\ job[q].item # 0 /\ job[q].run = s
  <1>1. CASE ckpt' = ckpt
    BY <1>1
  <1>2. ASSUME NEW p \in Workers, NEW r \in Runs, StartRequest(p, r) PROVE ckpt'[s].phase = "paused"
    <2>1. r # s
      BY <1>2, StartFacts
    <2> QED BY <1>2, <2>1, StartFacts
  <1>3. ASSUME NEW p \in Workers, Node(p) PROVE ckpt'[s].phase = "paused"
    <2>1. CASE CollectionGateAsks(p)
      BY <2>1, AsksFacts
    <2>2. CASE StartFails(p)
      BY <2>2, FailsFacts
    <2>3. CASE InspirationReview(p) \/ StyleSynthesis(p) \/ MoodBoard(p) \/ ContractDraft(p)
      BY <2>3, NodeFacts DEF vars
    <2> QED BY <1>3, <2>1, <2>2, <2>3 DEF Node
  <1>4. ASSUME NEW p \in Workers, GateDecides(p), job[p].run # s PROVE ckpt'[s].phase = "paused"
    BY <1>4, DecidesFacts
  <1>5. ASSUME NEW p \in Workers, GateDecides(p), job[p].run = s PROVE pc[p] \in Holding /\ job[p].item # 0
    BY <1>5, DecidesFacts DEF Holding
  <1>6. ASSUME NEW p \in Workers,
               \/ ListQueue(p) \/ HitlStep(p) \/ GateRefuses(p) \/ DecisionAudited(p)
               \/ \E i \in Items, a \in Choices : DecideBegins(p, i, a)
        PROVE  \/ ckpt'[s].phase = "paused"
               \/ SegmentEnds(p) /\ pc[p] \in Holding /\ job[p].item # 0 /\ job[p].run = s
    <2>1. CASE SegmentEnds(p) /\ job[p].item # 0
      <3>1. pc[p] = "segment"
        BY <2>1 DEF SegmentEnds
      <3>2. CASE job[p].run # s
        <4>1. ckpt' = [ckpt EXCEPT ![job[p].run] = [phase |-> "done", at |-> NGates, intr |-> 0]]
          BY <2>1 DEF SegmentEnds
        <4> QED BY <3>2, <4>1, ResearchFacts
      <3> QED BY <2>1, <3>1, <3>2 DEF Holding
    <2> QED BY <1>6, <2>1, QuietFacts
  <1>7. ASSUME NEW p \in Workers, Handover(p) PROVE ckpt' = ckpt
    BY <1>7, HandoverFacts DEF vars
  <1>8. ASSUME ResearchCrash \/ (\E t \in Slugs : LifecycleStep(t)) \/ UNCHANGED allVars PROVE ckpt' = ckpt
    BY <1>8 DEF ResearchCrash, Crash, graph, LifecycleStep, allVars, vars
  <1> QED
    BY <1>1, <1>2, <1>3, <1>4, <1>5, <1>6, <1>7, <1>8 DEF ResearchNext, Works

(* While nothing fails a gate that nobody decided goes on waiting. *)
LEMMA WaitsStep ==
    ASSUME HandoverInv, [ResearchNext]_allVars, NEW r \in Runs
    PROVE  Waits(r)'
  <1> SUFFICES ASSUME faults' = 0, raised'[r] > 0, DecidedRows(r)' = {} PROVE ckpt'[r].phase = "paused"
    BY DEF Waits
  <1>1. faults = 0 /\ DecidedRows(r) = {}
    BY QueueStep, DecisionsGrow DEF HandoverInv
  <1>2. CASE raised[r] > 0
    <2>1. ckpt[r].phase = "paused"
      BY <1>1, <1>2 DEF HandoverInv, Waits
    <2>2. ASSUME NEW q \in Workers, pc[q] \in Holding, job[q].item # 0, job[q].run = r PROVE FALSE
      <3>1. job[q].item \in DecidedRows(r)
        BY <2>2, HeldIsDecided DEF DecidedRows, HandoverInv
      <3> QED BY <1>1, <3>1
    <2> QED BY <2>1, <2>2, PausedStays DEF HandoverInv
  <1>3. CASE ~ (raised[r] > 0)
    <2>0. ResearchInv
      BY DEF HandoverInv
    <2>1. ASSUME NEW p \in Workers, CollectionGateAsks(p), ckpt'[r].phase # "paused" PROVE raised'[r] = raised[r]
      BY <2>0, <2>1, AsksFacts
    <2>2. ASSUME NEW p \in Workers, NEW s \in Runs, StartRequest(p, s) PROVE raised' = raised
      BY <2>0, <2>2, StartFacts
    <2>3. ASSUME NEW p \in Workers, Node(p), ~ CollectionGateAsks(p) PROVE raised' = raised
      BY <2>0, <2>3, NodeFacts, FailsFacts DEF Node, vars
    <2>4. ASSUME NEW p \in Workers, GateDecides(p) \/ Handover(p) PROVE raised' = raised
      BY <2>0, <2>4, DecidesFacts, HandoverFacts DEF vars
    <2>5. ASSUME NEW p \in Workers,
                 \/ ListQueue(p) \/ HitlStep(p) \/ GateRefuses(p) \/ DecisionAudited(p)
                 \/ \E i \in Items, a \in Choices : DecideBegins(p, i, a)
          PROVE  raised' = raised
      BY <2>0, <2>5, QuietFacts
    <2>6. ASSUME ResearchCrash \/ (\E t \in Slugs : LifecycleStep(t)) \/ UNCHANGED allVars PROVE raised' = raised
      BY <2>6 DEF ResearchCrash, Crash, graph, LifecycleStep, allVars, vars
    <2> QED BY <1>3, <2>1, <2>2, <2>3, <2>4, <2>5, <2>6 DEF ResearchNext, Works
  <1> QED
    BY <1>2, <1>3

-----------------------------------------------------------------------------
(* The hand-over belongs to one audited decision.                           *)

(* Each step of the hand-over keeps the run it is about. *)
LEMMA HandoverKeepsRun ==
    ASSUME ResearchInv, NEW p \in Workers, Handover(p), hand'[p].step # "none"
    PROVE  hand[p].step # "none" /\ hand'[p].run = hand[p].run
  <1>0. hand \in [Workers -> Hand] /\ hand[p] \in Hand
    BY ResearchFacts
  <1>1. hand[p].step # "none"
    BY DEF Handover, BuildHandoff, FindCandidate, CreateCandidate, UpdateCandidate, HandoffAudited, HandoffFails
  <1>2. ASSUME hand' = [hand EXCEPT ![p] = NoHand] PROVE FALSE
    BY <1>0, <1>2, HandFields
  <1>3. ASSUME NEW to, Step(p, to) PROVE hand'[p].run = hand[p].run
    <2> DEFINE h == [hand[p] EXCEPT !.step = to]
    <2>1. h.run = hand[p].run
      BY <1>0 DEF Hand
    <2>2. hand' = [hand EXCEPT ![p] = h]
      BY <1>3 DEF Step
    <2> HIDE DEF h
    <2> QED BY <1>0, <2>1, <2>2
  <1>4. CASE BuildHandoff(p)
    <2>1. PICK t : hand' = [hand EXCEPT ![p] = [hand[p] EXCEPT !.step = "get", !.text = t]]
      BY <1>2, <1>4 DEF BuildHandoff
    <2> DEFINE h == [hand[p] EXCEPT !.step = "get", !.text = t]
    <2>2. h.run = hand[p].run
      BY <1>0 DEF Hand
    <2>3. hand' = [hand EXCEPT ![p] = h]
      BY <2>1
    <2> HIDE DEF h
    <2> QED BY <1>0, <1>1, <2>2, <2>3
  <1> QED
    BY <1>1, <1>2, <1>3, <1>4
       DEF Handover, FindCandidate, CreateCandidate, UpdateCandidate, HandoffAudited, HandoffFails

(* An approval that is audited is handed over from its history on. *)
LEMMA AuditedHand ==
    ASSUME ResearchInv, NEW p \in Workers, DecisionAudited(p)
    PROVE  /\ pc[p] = "audit" /\ pc'[p] = "idle" /\ job[p].run \in Runs /\ job[p].item \in Items
           /\ rows[job[p].item].run = job[p].run /\ Holds(p, job[p].item)
           /\ rows' = rows /\ audits'[job[p].item] # <<>>
           /\ \/ job[p].action = "approve" /\ hand'[p].step = "history" /\ hand'[p].run = job[p].run
              \/ job[p].action # "approve" /\ hand' = hand
           /\ UNCHANGED <<research, store, slips, faults>>
           /\ \A i \in Items : ~ Holds(p, i)'
  <1>1. Audit(p) /\ pc[p] = "audit" /\ rows' = rows /\ UNCHANGED <<research, store, slips, faults>>
    BY DEF DecisionAudited, Audit, budget
  <1>2. job[p].item # 0 /\ job[p].action \in Actions
    BY <1>1 DEF ResearchInv, IndInv, JobsWellFormed, JobWellFormed
  <1>3. job[p].run \in Runs /\ job[p].item \in Items /\ rows[job[p].item].run = job[p].run
    BY <1>1, <1>2, ResearchFacts
  <1>4. PICK i \in Items : i = job[p].item
    BY <1>3
  <1>5. audits'[i] # <<>>
    <2>1. audits \in [Items -> Seq(Actions)]
      BY DEF ResearchInv, IndInv, TypeOK
    <2>2. audits[i] \in Seq(Actions)
      BY <2>1
    <2>3. Append(audits[i], job[p].action) # <<>>
      BY <1>2, <2>2, AppendNotEmpty
    <2> QED BY <1>1, <1>4, <2>1, <2>3 DEF Audit
  <1>6. pc'[p] = "idle"
    BY <1>1, ResearchFacts DEF Audit, Finish
  <1>7. CASE job[p].action = "approve"
    <2> DEFINE h == [NoHand EXCEPT !.step = "history", !.run = job[p].run]
    <2>1. h.step = "history" /\ h.run = job[p].run
      BY <1>3, HandFields DEF Hand
    <2>2. hand' = [hand EXCEPT ![p] = h]
      BY <1>7 DEF DecisionAudited
    <2> HIDE DEF h
    <2>3. hand'[p] = h
      BY <2>2, ResearchFacts
    <2> QED BY <1>1, <1>2, <1>3, <1>4, <1>5, <1>6, <1>7, <2>1, <2>3 DEF Holds, Holding
  <1>8. CASE job[p].action # "approve"
    <2>1. hand' = hand
      BY <1>8 DEF DecisionAudited
    <2> QED BY <1>1, <1>2, <1>3, <1>4, <1>5, <1>6, <1>8, <2>1 DEF Holds, Holding
  <1> QED
    BY <1>7, <1>8

(* A worker that hands over does nothing else. *)
LEMMA BusyHand ==
    ASSUME HandoverInv, NEW p \in Workers, hand[p].step # "none", WorkerStep(p)
    PROVE  Handover(p)
  <1>0. ResearchInv
    BY DEF HandoverInv
  <1>1. pc[p] = "idle" /\ ~ Free(p)
    BY DEF Free, HandoverInv, HandOrigin
  <1>2. ~ Node(p)
    BY <1>0, <1>1, NodeFacts, AsksFacts, FailsFacts DEF Node, Starting
  <1>3. ~ HitlStep(p) /\ ~ GateDecides(p) /\ ~ GateRefuses(p) /\ ~ DecisionAudited(p)
    BY <1>1 DEF HitlStep, GateDecides, GateRefuses, GateReturns, GateRaises, InsertPending, SelectPending, LiveCheck,
                Refuse, Claim, Resume, Reopen, AuditFails, SegmentEnds, DecisionAudited, Audit
  <1> QED BY <1>1, <1>2, <1>3 DEF WorkerStep, Works, StartRequest, ListQueue, DecideBegins

(* Who hands over after a step handed over before it, or has just audited. *)
LEMMA HandStep ==
    ASSUME HandoverInv, [ResearchNext]_allVars, NEW p \in Workers, hand'[p].step # "none"
    PROVE  \/ /\ hand[p].step # "none" /\ hand'[p].run = hand[p].run /\ pc'[p] = "idle"
              /\ hand'[p] = hand[p] \/ Handover(p)
           \/ DecisionAudited(p) /\ hand[p].step = "none"
  <1>0. ResearchInv /\ (hand[p].step # "none" => pc[p] = "idle")
    BY DEF HandoverInv, HandOrigin
  <1>1. ASSUME NEW q \in Workers, WorkerStep(q), q # p PROVE hand'[p] = hand[p] /\ pc'[p] = pc[p]
    BY <1>0, <1>1, WorkerAlone DEF Alone
  <1>2. ASSUME Handover(p) PROVE hand[p].step # "none" /\ hand'[p].run = hand[p].run /\ pc'[p] = pc[p]
    BY <1>0, <1>2, HandoverKeepsRun, HandoverFacts DEF vars
  <1>3. ASSUME WorkerStep(p), ~ Handover(p), ~ DecisionAudited(p) PROVE FALSE
    <2>1. hand' = hand
      <3>1. ASSUME Node(p) PROVE hand' = hand
        BY <1>0, <3>1, NodeFacts, AsksFacts, FailsFacts DEF Node, ownVars
      <3>2. ASSUME \E r \in Runs : StartRequest(p, r) PROVE hand' = hand
        BY <1>0, <3>2, StartFacts
      <3>3. ASSUME GateDecides(p) PROVE hand' = hand
        BY <1>0, <3>3, DecidesFacts
      <3> QED BY <1>3, <3>1, <3>2, <3>3 DEF WorkerStep, Works, ListQueue, DecideBegins, HitlStep, GateRefuses, ownVars
    <2>2. CASE hand[p].step = "none"
      BY <2>1, <2>2
    <2>3. CASE hand[p].step # "none"
      BY <1>3, <2>3, BusyHand
    <2> QED BY <2>2, <2>3
  <1>4. ASSUME DecisionAudited(p) PROVE hand[p].step = "none"
    BY <1>0, <1>4, AuditedHand
  <1>5. ASSUME ResearchCrash PROVE FALSE
    BY <1>5, HandFields DEF ResearchCrash
  <1>6. ASSUME (\E t \in Slugs : LifecycleStep(t)) \/ UNCHANGED allVars PROVE hand'[p] = hand[p] /\ pc'[p] = pc[p]
    BY <1>6 DEF LifecycleStep, allVars, ownVars, vars
  <1> QED
    BY <1>0, <1>1, <1>2, <1>3, <1>4, <1>5, <1>6 DEF ResearchNext, WorkerStep

LEMMA OriginStep ==
    ASSUME HandoverInv, [ResearchNext]_allVars, NEW p \in Workers
    PROVE  HandOrigin(p)'
  <1> SUFFICES ASSUME hand'[p].step # "none"
               PROVE  /\ pc'[p] = "idle" /\ hand'[p].run \in Runs
                      /\ \E i \in Items : rows'[i].run = hand'[p].run /\ audits'[i] # <<>>
    BY DEF HandOrigin
  <1>0. ResearchInv /\ IndInv /\ [Next]_vars
    BY QueueStep DEF HandoverInv, ResearchInv
  <1>1. CASE hand[p].step # "none" /\ hand'[p].run = hand[p].run /\ pc'[p] = "idle"
    <2>1. PICK i \in Items : rows[i].run = hand[p].run /\ audits[i] # <<>> /\ hand[p].run \in Runs
      BY <1>1 DEF HandoverInv, HandOrigin
    <2>2. rows[i].status # "absent"
      <3>1. rows[i].status = ActionToStatus[audits[i][1]] /\ Len(audits[i]) = 1 /\ audits[i] \in Seq(Actions)
        BY <1>0, <2>1 DEF IndInv, AuditTrailAgrees, TypeOK
      <3> QED BY <3>1, StatusFacts
    <2> QED BY <1>0, <1>1, <2>1, <2>2, RowsStay, AuditsStay
  <1>2. CASE DecisionAudited(p) /\ hand[p].step = "none"
    BY <1>0, <1>2, AuditedHand
  <1> QED
    BY <1>1, <1>2, HandStep

LEMMA HandAloneStep ==
    ASSUME HandoverInv, [ResearchNext]_allVars, NEW r \in Runs
    PROVE  HandAlone(r)'
  <1> SUFFICES ASSUME faults' = 0, NEW i \in Items, Sole(r, i)', NEW p \in Workers, NEW q \in Workers,
                      HasHand(p, r)', HasHand(q, r)', p # q
               PROVE  FALSE
    BY DEF HandAlone
  <1>0. ResearchInv /\ Accounted /\ [Next]_vars
    BY QueueStep DEF HandoverInv
  <1>1. faults = 0 /\ DecidedRows(r) \subseteq {i}
    BY <1>0, DecisionsGrow DEF Sole
  <1>2. ASSUME NEW w \in Workers, HasHand(w, r) PROVE Sole(r, i) /\ \A v \in Workers : ~ Holds(v, i)
    <2>1. DecidedRows(r) = {i}
      BY <1>1, <1>2, HandedOver
    <2> QED BY <1>2, <2>1, HandedOver DEF Sole
  <1>3. ASSUME NEW w \in Workers, HasHand(w, r)', ~ HasHand(w, r)
        PROVE  DecisionAudited(w) /\ Holds(w, i)
    <2>1. DecisionAudited(w)
      BY <1>3, HandStep DEF HasHand
    <2>2. job[w].run = r /\ Holds(w, job[w].item) /\ rows[job[w].item].run = r /\ rows' = rows
      BY <1>0, <1>3, <2>1, AuditedHand DEF HasHand
    <2>3. Sole(r, i)
      BY <2>2 DEF Sole, DecidedRows
    <2>4. job[w].item # 0 /\ pc[w] \in Holding
      BY <1>0, <2>1, AuditedHand, ResearchFacts, HitlAssumption DEF Items, Holding
    <2> QED BY <1>0, <2>1, <2>2, <2>3, <2>4, SoleHolder
  <1>4. CASE HasHand(p, r) /\ HasHand(q, r)
    BY <1>1, <1>2, <1>4 DEF HandoverInv, HandAlone
  <1>5. CASE HasHand(p, r) /\ ~ HasHand(q, r)
    BY <1>2, <1>3, <1>5
  <1>6. CASE ~ HasHand(p, r) /\ HasHand(q, r)
    BY <1>2, <1>3, <1>6
  <1>7. CASE ~ HasHand(p, r) /\ ~ HasHand(q, r)
    BY <1>0, <1>3, <1>7, OneHolder
  <1> QED
    BY <1>4, <1>5, <1>6, <1>7

-----------------------------------------------------------------------------
(* An approval moves on.                                                    *)

(* Nothing takes a slip back. *)
LEMMA SlipsStay ==
    ASSUME ResearchInv, [ResearchNext]_allVars
    PROVE  slips' \in Nat /\ slips' >= slips
  <1>0. slips \in Nat
    BY ResearchFacts
  <1>1. ASSUME NEW p \in Workers, Handover(p) PROVE slips' \in Nat /\ slips' >= slips
    BY <1>1, HandoverFacts, ResearchAssumption
  <1>2. ASSUME NEW p \in Workers, WorkerStep(p), ~ Handover(p) PROVE slips' = slips \/ slips' = slips + 1
    <2>1. CASE Node(p)
      BY <2>1, NodeFacts, AsksFacts, FailsFacts DEF Node, ownVars
    <2> QED BY <1>2, <2>1, StartFacts, QuietFacts, DecidesFacts DEF WorkerStep, Works
  <1>3. ASSUME ResearchCrash \/ (\E s \in Slugs : LifecycleStep(s)) \/ UNCHANGED allVars
        PROVE  slips' = slips \/ slips' = slips + 1
    BY <1>3 DEF ResearchCrash, LifecycleStep, Slip, allVars, ownVars
  <1> QED
    BY <1>0, <1>1, <1>2, <1>3 DEF ResearchNext, WorkerStep

(* A worker stays where it is unless it moves, or the process dies. *)
LEMMA Undisturbed ==
    ASSUME ResearchInv, [ResearchNext]_allVars, slips' = 0, NEW p \in Workers, ~ WorkerStep(p)
    PROVE  pc'[p] = pc[p] /\ job'[p] = job[p] /\ hand'[p] = hand[p]
  <1>1. ASSUME NEW q \in Workers, WorkerStep(q) PROVE pc'[p] = pc[p] /\ job'[p] = job[p] /\ hand'[p] = hand[p]
    BY <1>1, WorkerAlone DEF Alone
  <1>2. ~ ResearchCrash
    BY ResearchFacts DEF ResearchCrash, Slip
  <1>3. ASSUME (\E s \in Slugs : LifecycleStep(s)) \/ UNCHANGED allVars
        PROVE  pc' = pc /\ job' = job /\ hand' = hand
    BY <1>3 DEF LifecycleStep, allVars, ownVars, vars
  <1> QED
    BY <1>1, <1>2, <1>3 DEF ResearchNext, WorkerStep

(* A contract keeps its text unless a hand-over to it writes it. *)
LEMMA StoreStep ==
    ASSUME ResearchInv, [ResearchNext]_allVars, slips' = slips, NEW t \in Slugs
    PROVE  \/ store'[t].text = store[t].text /\ (store'[t].status = "absent" <=> store[t].status = "absent")
           \/ \E q \in Workers : Handover(q) /\ hand[q].step \in {"create", "update"} /\ Target(q) = t
  <1>0. store \in [Slugs -> Contract]
    BY ResearchFacts
  <1>1. ASSUME NEW p \in Workers, Handover(p), hand[p].step \notin {"create", "update"} PROVE store' = store
    BY <1>1 DEF Handover, BuildHandoff, FindCandidate, CreateCandidate, UpdateCandidate, HandoffAudited, HandoffFails
  <1>2. ASSUME NEW p \in Workers, Handover(p), Target(p) # t PROVE store'[t] = store[t]
    BY <1>0, <1>2
       DEF Handover, BuildHandoff, FindCandidate, CreateCandidate, UpdateCandidate, HandoffAudited, HandoffFails
  <1>3. ASSUME NEW p \in Workers, WorkerStep(p), ~ Handover(p) PROVE store' = store
    <2>1. CASE Node(p)
      BY <2>1, NodeFacts, AsksFacts, FailsFacts DEF Node, ownVars
    <2> QED BY <1>3, <2>1, StartFacts, QuietFacts, DecidesFacts DEF WorkerStep, Works
  <1>4. ASSUME NEW s \in Slugs, LifecycleStep(s)
        PROVE  store'[t].text = store[t].text /\ (store'[t].status = "absent" <=> store[t].status = "absent")
    BY <1>4, LifecycleFacts
  <1>5. ASSUME ResearchCrash \/ UNCHANGED allVars PROVE store' = store
    BY <1>5 DEF ResearchCrash, allVars, ownVars
  <1> QED
    BY <1>1, <1>2, <1>3, <1>4, <1>5 DEF ResearchNext, WorkerStep

(* What is wanted on disk changes only by the answer of the gate. *)
LEMMA SameWish ==
    ASSUME ResearchInv, [ResearchNext]_allVars, NEW r \in Runs, NEW i \in Items, Sole(r, i),
           \A q \in Workers : Holds(q, i) => pc[q] # "gate"
    PROVE  /\ Approved(r) => Approved(r)'
           /\ Wanted(r)' = Wanted(r)
           /\ Shared(r) => Shared(r)'
           /\ research'[r].named = research[r].named /\ research[r].named \in Slugs
  <1>1. ckpt[r].phase # "new" /\ research[r].named \in Slugs
    BY SoleFacts, DecidedHasBegun
  <1>2. ASSUME NEW q \in Workers, GateDecides(q), job[q].run = r PROVE FALSE
    <2>1. pc[q] = "gate" /\ job[q].item # 0 /\ pc[q] \in Holding
      BY <1>2, DecidesFacts DEF Holding
    <2> QED BY <1>2, <2>1, SoleHolder
  <1>3. /\ research'[r].named = research[r].named
        /\ research[r].draft => research'[r].draft
        /\ research'[r].decision = research[r].decision
    BY <1>1, <1>2, ResearchStep
  <1> QED
    BY <1>1, <1>3, SharedStays DEF Approved, Wanted

\* A step without a failure while i is the only decision of run r, an approval.
Onward(r, i) ==
    /\ HandoverInv /\ [ResearchNext]_allVars
    /\ faults = 0 /\ faults' = 0 /\ slips = 0 /\ slips' = 0
    /\ Sole(r, i) /\ rows[i].status = "approved"

LEMMA OnwardFacts ==
    ASSUME NEW r \in Runs, NEW i \in Items, Onward(r, i)
    PROVE  /\ HandoverInv /\ ResearchInv /\ [ResearchNext]_allVars
           /\ faults = 0 /\ faults' = 0 /\ slips = 0 /\ slips' = 0
           /\ Sole(r, i) /\ i # 0
           /\ rows[i].run = r /\ rows[i].status = "approved"
           /\ \A p \in Workers : Holds(p, i) =>
                /\ job[p].item = i /\ job[p].run = r /\ job[p].action = "approve"
                /\ hand[p].step = "none" /\ pc[p] \in Holding
  <1>1. HandoverInv /\ ResearchInv /\ Sole(r, i) /\ rows[i].status = "approved" /\ rows[i].run = r
    BY SoleFacts DEF Onward, HandoverInv
  <1>2. i # 0
    BY HitlAssumption DEF Items
  <1>3. ASSUME NEW p \in Workers, Holds(p, i)
        PROVE  /\ job[p].item = i /\ job[p].run = r /\ job[p].action = "approve"
               /\ hand[p].step = "none" /\ pc[p] \in Holding
    <2>1. job[p].item = i /\ pc[p] \in Holding
      BY <1>3 DEF Holds
    <2>2. job[p].run = r /\ rows[i].status = ActionToStatus[job[p].action]
      BY <1>1, <1>2, <2>1, HeldIsDecided
    <2>3. job[p].action \in Actions
      BY <1>1, <1>2, <2>1 DEF ResearchInv, IndInv, JobsWellFormed, JobWellFormed
    <2>4. job[p].action = "approve"
      BY <1>1, <2>2, <2>3 DEF Actions, ActionToStatus
    <2>5. pc[p] # "idle"
      BY <2>1 DEF Holding
    <2>6. hand[p].step = "none"
      BY <1>1, <2>5 DEF HandoverInv, HandOrigin
    <2> QED BY <2>1, <2>2, <2>4, <2>6
  <1> QED
    BY <1>1, <1>2, <1>3 DEF Onward

(* While the gate has not answered, the call that holds the approval goes on to it. *)
LEMMA AnswerMoves ==
    ASSUME NEW r \in Runs, NEW i \in Items, Onward(r, i), NEW p \in Workers, Answering(p, r, i)
    PROVE  Answering(p, r, i)' \/ Answered(p, r, i)'
  <1>0. ResearchInv /\ [ResearchNext]_allVars /\ faults = 0 /\ faults' = 0 /\ slips' = 0 /\ Sole(r, i) /\ i # 0
    BY OnwardFacts
  <1>1. /\ Holds(p, i) /\ pc[p] \in {"resume", "gate"} /\ ckpt[r].phase = "paused"
        /\ job[p].item = i /\ job[p].run = r /\ job[p].action = "approve" /\ hand[p].step = "none"
    BY OnwardFacts DEF Answering
  <1>2. CASE ~ WorkerStep(p)
    <2>1. pc'[p] = pc[p] /\ job'[p] = job[p]
      BY <1>0, <1>2, Undisturbed
    <2>2. ASSUME NEW q \in Workers, GateDecides(q) \/ SegmentEnds(q),
                 pc[q] \in Holding, job[q].item # 0, job[q].run = r
          PROVE  FALSE
      <3>1. Holds(q, i)
        BY <1>0, <2>2, SoleHolder
      <3>2. q = p
        BY <1>0, <1>1, <3>1, OneHolder
      <3>3. ~ GateDecides(p)
        BY <1>2 DEF WorkerStep, Works
      <3> QED BY <1>1, <2>2, <3>2, <3>3 DEF SegmentEnds
    <2>3. ckpt'[r].phase = "paused"
      BY <1>0, <1>1, <2>2, PausedStays
    <2> QED BY <1>1, <2>1, <2>3 DEF Answering, Holds
  <1>3. CASE HitlStep(p) /\ Resume(p)
    <2> DEFINE k == [job[p] EXCEPT !.gate = ckpt[r].at + 1, !.intr = ckpt[r].intr]
    <2>1. pc' = [pc EXCEPT ![p] = "gate"] /\ job' = [job EXCEPT ![p] = k] /\ ckpt' = ckpt
      BY <1>1, <1>3 DEF Resume, Goto, graph
    <2>2. k.item = i
      <3>1. job[p] \in Job
        BY <1>0, ResearchFacts
      <3> QED BY <1>1, <3>1 DEF Job
    <2> HIDE DEF k
    <2>3. pc'[p] = "gate" /\ job'[p].item = i
      BY <1>0, <2>1, <2>2, ResearchFacts
    <2> QED BY <1>1, <2>1, <2>3 DEF Answering, Holds, Holding
  <1>4. CASE GateDecides(p)
    <2>1. pc'[p] = "segment" /\ job'[p].item = i
      BY <1>0, <1>1, <1>4, DecidesFacts
    <2>2. research'[r].draft = research[r].draft /\ research'[r].decision \in VerdictsOf("approve")
      BY <1>0, <1>1, <1>4, DecidesFacts, ResearchFacts
    <2>3. research[r].draft
      BY <1>0, <1>1 DEF ResearchInv, Progress, RunProgress
    <2>4. Approved(r)'
      BY <2>2, <2>3 DEF Approved, VerdictsOf
    <2> QED BY <2>1, <2>4 DEF Answered, Holds, Holding
  <1>5. CASE GateRefuses(p)
    BY <1>0, <1>5 DEF GateRefuses, GateRaises, Fault
  <1>6. CASE WorkerStep(p)
    <2>1. ~ Node(p) /\ ~ Handover(p)
      <3>1. ~ Starting(p)
        BY <1>1 DEF Starting
      <3> QED BY <1>0, <1>1, <3>1, NodeFacts, AsksFacts, FailsFacts
             DEF Node, Handover, BuildHandoff, FindCandidate, CreateCandidate, UpdateCandidate, HandoffAudited, HandoffFails
    <2>2. ~ Free(p) /\ ~ DecisionAudited(p)
      BY <1>1 DEF Free, DecisionAudited, Audit
    <2>3. HitlStep(p) => Resume(p)
      BY <1>1 DEF HitlStep, InsertPending, SelectPending, LiveCheck, Refuse, Claim, Reopen, AuditFails, SegmentEnds
    <2> QED BY <1>3, <1>4, <1>5, <1>6, <2>1, <2>2, <2>3 DEF WorkerStep, Works, StartRequest, ListQueue, DecideBegins
  <1> QED
    BY <1>2, <1>6

(* An answered approval is audited, and the call goes on to the hand-over. *)
LEMMA AnsweredMoves ==
    ASSUME NEW r \in Runs, NEW i \in Items, Onward(r, i), NEW p \in Workers, Answered(p, r, i)
    PROVE  Answered(p, r, i)' \/ Fetching(p, r)'
  <1>0. ResearchInv /\ [ResearchNext]_allVars /\ faults = 0 /\ faults' = 0 /\ slips' = 0 /\ Sole(r, i) /\ i # 0
    BY OnwardFacts
  <1>1. /\ Holds(p, i) /\ pc[p] \in {"segment", "audit"} /\ Approved(r)
        /\ job[p].item = i /\ job[p].run = r /\ job[p].action = "approve" /\ hand[p].step = "none"
    BY OnwardFacts DEF Answered
  <1>2. Approved(r)'
    <2>1. \A q \in Workers : Holds(q, i) => pc[q] # "gate"
      BY <1>0, <1>1, OneHolder
    <2> QED BY <1>0, <1>1, <2>1, SameWish
  <1>3. CASE ~ WorkerStep(p)
    BY <1>0, <1>1, <1>2, <1>3, Undisturbed DEF Answered, Holds
  <1>4. CASE HitlStep(p) /\ SegmentEnds(p)
    <2>1. pc' = [pc EXCEPT ![p] = "audit"] /\ job' = job
      BY <1>0, <1>1, <1>4 DEF SegmentEnds, InvokeReturns, Goto
    <2>2. pc'[p] = "audit"
      BY <1>0, <2>1, ResearchFacts
    <2> QED BY <1>1, <1>2, <2>1, <2>2 DEF Answered, Holds, Holding
  <1>5. CASE DecisionAudited(p)
    <2>1. hand'[p].step = "history" /\ hand'[p].run = r
      BY <1>0, <1>1, <1>5, AuditedHand
    <2> QED BY <1>2, <2>1 DEF Fetching, HasHand
  <1>6. CASE HitlStep(p) /\ AuditFails(p)
    BY <1>0, <1>6 DEF AuditFails, Fault
  <1>7. CASE WorkerStep(p)
    <2>1. ~ Node(p) /\ ~ Handover(p)
      <3>1. ~ Starting(p)
        BY <1>0, <1>1 DEF Starting
      <3> QED BY <1>0, <1>1, <3>1, NodeFacts, AsksFacts, FailsFacts
             DEF Node, Handover, BuildHandoff, FindCandidate, CreateCandidate, UpdateCandidate, HandoffAudited, HandoffFails
    <2>2. ~ Free(p) /\ ~ GateDecides(p) /\ ~ GateRefuses(p)
      BY <1>1 DEF Free, GateDecides, GateRefuses, GateReturns, GateRaises
    <2>3. HitlStep(p) => SegmentEnds(p) \/ AuditFails(p)
      BY <1>1 DEF HitlStep, InsertPending, SelectPending, LiveCheck, Refuse, Claim, Reopen, Resume
    <2> QED BY <1>4, <1>5, <1>6, <1>7, <2>1, <2>2, <2>3 DEF WorkerStep, Works, StartRequest, ListQueue, DecideBegins
  <1> QED
    BY <1>3, <1>7

(* The newest checkpoint is read, and holds the approved draft. *)
LEMMA FetchMoves ==
    ASSUME NEW r \in Runs, NEW i \in Items, Onward(r, i), NEW p \in Workers, Fetching(p, r)
    PROVE  Fetching(p, r)' \/ Placing(p, r)'
  <1>0. HandoverInv /\ ResearchInv /\ [ResearchNext]_allVars /\ slips = 0 /\ slips' = 0 /\ Sole(r, i)
    BY OnwardFacts
  <1>1. hand[p].step = "history" /\ hand[p].run = r /\ Approved(r) /\ HasHand(p, r)
    BY DEF Fetching, HasHand
  <1>2. Approved(r)' /\ Wanted(r)' = Wanted(r)
    <2>1. \A q \in Workers : ~ Holds(q, i)
      BY <1>0, <1>1, HandedOver
    <2> QED BY <1>0, <1>1, <2>1, SameWish
  <1>3. CASE ~ WorkerStep(p)
    BY <1>0, <1>1, <1>2, <1>3, Undisturbed DEF Fetching, HasHand
  <1>4. CASE WorkerStep(p)
    <2>1. Handover(p)
      BY <1>0, <1>1, <1>4, BusyHand
    <2>2. BuildHandoff(p) \/ HandoffFails(p)
      BY <1>1, <2>1 DEF Handover, FindCandidate, CreateCandidate, UpdateCandidate, HandoffAudited
    <2>3. ~ HandoffFails(p)
      BY <1>0 DEF HandoffFails, Slip
    <2> DEFINE h == [hand[p] EXCEPT !.step = "get", !.text = Wanted(r)]
    <2>4. hand' = [hand EXCEPT ![p] = h]
      <3>1. research[r].decision = "approved" => Wanted(r) = "draft"
        BY DEF Wanted
      <3>2. research[r].decision # "approved" => Wanted(r) = "edited"
        BY <1>1 DEF Wanted, Approved
      <3> QED BY <1>1, <2>2, <2>3, <3>1, <3>2 DEF BuildHandoff, Approved
    <2>5. h.step = "get" /\ h.text = Wanted(r) /\ h.run = r
      <3>1. hand[p] \in Hand
        BY <1>0, ResearchFacts
      <3> QED BY <1>1, <3>1 DEF Hand
    <2> HIDE DEF h
    <2>6. hand'[p] = h
      BY <1>0, <2>4, ResearchFacts
    <2> QED BY <1>2, <2>5, <2>6 DEF Placing, HasHand
  <1> QED
    BY <1>3, <1>4

(* Who hands over to the collection of run r is the hand-over of r or of a run it shares it with. *)
LEMMA HandOfShared ==
    ASSUME HandoverInv, NEW r \in Runs, NEW q \in Workers,
           hand[q].step # "none", Target(q) = research[r].named
    PROVE  HasHand(q, r) \/ Shared(r)
  <1>1. hand[q].run \in Runs
    BY DEF HandoverInv, HandOrigin
  <1> QED
    BY <1>1 DEF HasHand, Shared, Target

(* The draft is placed once the hand-over of it has written the contract. *)
LEMMA BecomesPlaced ==
    ASSUME NEW r \in Runs, NEW i \in Items, Onward(r, i), NEW p \in Workers, HasHand(p, r), Handover(p),
           hand'[p].step \in {"none", "audit"}, Stored(r)'
    PROVE  Placed(r, i)'
  <1>0. HandoverInv /\ ResearchInv /\ faults = 0 /\ Sole(r, i)
    BY OnwardFacts
  <1>1. \A q \in Workers : ~ Holds(q, i)'
    <2>1. \A q \in Workers : ~ Holds(q, i)
      BY <1>0, HandedOver
    <2>2. pc' = pc /\ job' = job
      BY <1>0, HandoverFacts DEF vars
    <2> QED BY <2>1, <2>2 DEF Holds
  <1>2. ASSUME NEW q \in Workers, HasHand(q, r)' PROVE hand'[q].step = "audit"
    <2>1. CASE q = p
      BY <1>2, <2>1 DEF HasHand
    <2>2. CASE q # p
      <3>1. hand'[q] = hand[q]
        BY <1>0, <2>2, WorkerAlone DEF WorkerStep, Works
      <3>2. HasHand(q, r)
        BY <1>2, <3>1 DEF HasHand
      <3> QED BY <1>0, <2>2, <3>2 DEF HandoverInv, HandAlone
    <2> QED BY <2>1, <2>2
  <1> QED
    BY <1>1, <1>2 DEF Placed

(* The hand-over finds the collection, and creates or updates it. *)
LEMMA PlaceMoves ==
    ASSUME NEW r \in Runs, NEW i \in Items, Onward(r, i), NEW p \in Workers, Placing(p, r)
    PROVE  Placing(p, r)' \/ Placed(r, i)'
  <1>0. /\ HandoverInv /\ ResearchInv /\ [ResearchNext]_allVars /\ slips = 0 /\ slips' = 0
        /\ faults = 0 /\ Sole(r, i)
    BY OnwardFacts
  <1>1. /\ HasHand(p, r) /\ hand[p].run = r /\ hand[p].step \in {"get", "create", "update"} /\ hand[p].text = Wanted(r)
        /\ hand[p].step = "create" => store[research[r].named].status = "absent" \/ Shared(r)
    BY DEF Placing, HasHand
  <1>2. PICK t \in Slugs : t = research[r].named
    <2>1. \A q \in Workers : ~ Holds(q, i)
      BY <1>0, <1>1, HandedOver
    <2> QED BY <1>0, <2>1, SameWish
  <1>3. Wanted(r)' = Wanted(r) /\ (Shared(r) => Shared(r)') /\ research'[r].named = t
    <2>1. \A q \in Workers : ~ Holds(q, i)
      BY <1>0, <1>1, HandedOver
    <2> QED BY <1>0, <1>2, <2>1, SameWish
  <1>4. CASE ~ WorkerStep(p)
    <2>1. hand'[p] = hand[p]
      BY <1>0, <1>4, Undisturbed
    <2>2. ASSUME hand[p].step = "create" PROVE store'[t].status = "absent" \/ Shared(r)'
      <3>1. ASSUME NEW q \in Workers, Handover(q), hand[q].step \in {"create", "update"}, Target(q) = t
            PROVE  Shared(r)
        <4>1. HasHand(q, r) => q = p
          BY <1>0, <1>1 DEF HandoverInv, HandAlone
        <4>2. q # p
          BY <1>4, <3>1 DEF WorkerStep, Works
        <4> QED BY <1>0, <1>2, <3>1, <4>1, <4>2, HandOfShared
      <3> QED BY <1>0, <1>1, <1>2, <1>3, <2>2, <3>1, StoreStep
    <2> QED BY <1>1, <1>3, <2>1, <2>2 DEF Placing, HasHand
  <1>5. CASE WorkerStep(p)
    <2>1. Handover(p)
      BY <1>0, <1>1, <1>5, BusyHand DEF HasHand
    <2>2. /\ Target(p) = t /\ store \in [Slugs -> Contract] /\ hand \in [Workers -> Hand] /\ hand[p] \in Hand
      BY <1>0, <1>1, <1>2, ResearchFacts DEF Target
    <2>3. ASSUME NEW to, Step(p, to) PROVE hand'[p].step = to /\ hand'[p].run = r /\ hand'[p].text = hand[p].text
      <3> DEFINE h == [hand[p] EXCEPT !.step = to]
      <3>1. h.step = to /\ h.run = r /\ h.text = hand[p].text
        BY <1>1, <2>2 DEF Hand
      <3>2. hand' = [hand EXCEPT ![p] = h]
        BY <2>3 DEF Step
      <3> HIDE DEF h
      <3> QED BY <2>2, <3>1, <3>2
    <2>4. CASE FindCandidate(p)
      <3>1. store' = store
        BY <2>4 DEF FindCandidate
      <3>2. Step(p, IF store[t].status = "absent" THEN "create" ELSE "update")
        BY <2>2, <2>4 DEF FindCandidate
      <3>3. CASE store[t].status = "absent"
        <4>1. hand'[p].step = "create" /\ hand'[p].run = r /\ hand'[p].text = hand[p].text
          BY <2>3, <3>2, <3>3
        <4> QED BY <1>1, <1>3, <3>1, <3>3, <4>1 DEF Placing, HasHand
      <3>4. CASE store[t].status # "absent"
        <4>1. hand'[p].step = "update" /\ hand'[p].run = r /\ hand'[p].text = hand[p].text
          BY <2>3, <3>2, <3>4
        <4> QED BY <1>1, <1>3, <4>1 DEF Placing, HasHand
      <3> QED BY <3>3, <3>4
    <2>5. CASE CreateCandidate(p) /\ store[t].status = "absent"
      <3> DEFINE c == [status |-> "draft", text |-> hand[p].text]
      <3>1. store' = [store EXCEPT ![t] = c] /\ Step(p, "audit")
        BY <2>2, <2>5 DEF CreateCandidate
      <3>2. c.text = hand[p].text
        OBVIOUS
      <3> HIDE DEF c
      <3>3. store'[t].text = Wanted(r)
        BY <1>1, <2>2, <3>1, <3>2
      <3>4. Stored(r)'
        BY <1>3, <3>3 DEF Stored
      <3> QED BY <1>1, <2>1, <2>3, <3>1, <3>4, BecomesPlaced
    <2>6. CASE CreateCandidate(p) /\ store[t].status # "absent"
      <3>1. Shared(r) /\ hand' = [hand EXCEPT ![p] = NoHand]
        BY <1>1, <1>2, <2>2, <2>6 DEF CreateCandidate
      <3>2. hand'[p].step = "none"
        BY <2>2, <3>1, HandFields
      <3>3. Stored(r)'
        BY <1>3, <3>1 DEF Stored
      <3> QED BY <1>1, <2>1, <3>2, <3>3, BecomesPlaced
    <2>7. CASE UpdateCandidate(p)
      <3> DEFINE c == [store[t] EXCEPT !.text = hand[p].text]
      <3>1. store' = [store EXCEPT ![t] = c] /\ Step(p, "audit")
        BY <2>2, <2>7 DEF UpdateCandidate
      <3>2. c.text = hand[p].text
        BY <2>2 DEF Contract
      <3> HIDE DEF c
      <3>3. store'[t].text = Wanted(r)
        BY <1>1, <2>2, <3>1, <3>2
      <3>4. Stored(r)'
        BY <1>3, <3>3 DEF Stored
      <3> QED BY <1>1, <2>1, <2>3, <3>1, <3>4, BecomesPlaced
    <2>8. ~ BuildHandoff(p) /\ ~ HandoffAudited(p) /\ ~ HandoffFails(p)
      BY <1>0, <1>1 DEF BuildHandoff, HandoffAudited, HandoffFails, Slip
    <2> QED BY <2>1, <2>4, <2>5, <2>6, <2>7, <2>8 DEF Handover
  <1> QED
    BY <1>4, <1>5

(* What was placed stays: nothing hands it over again, and nobody else writes it. *)
LEMMA PlacedStays ==
    ASSUME NEW r \in Runs, NEW i \in Items, Onward(r, i), Placed(r, i)
    PROVE  Placed(r, i)'
  <1>0. /\ HandoverInv /\ ResearchInv /\ [ResearchNext]_allVars /\ slips = 0 /\ slips' = 0
        /\ faults = 0 /\ Sole(r, i) /\ rows[i].status = "approved" /\ rows[i].run = r
    BY OnwardFacts
  <1>1. \A q \in Workers : ~ Holds(q, i) /\ (HasHand(q, r) => hand[q].step = "audit")
    BY DEF Placed
  <1>2. \A q \in Workers : ~ Holds(q, i)'
    <2>1. audits[i] # <<>>
      BY <1>0, <1>1, SoleFacts DEF HandoverInv, Accounted
    <2>2. IndInv /\ [Next]_vars
      BY <1>0, QueueStep DEF ResearchInv
    <2>3. audits'[i] # <<>>
      BY <2>1, <2>2, AuditsStay
    <2>4. HeldUnaudited'
      BY <2>2, NextIndInv DEF IndInv
    <2> QED BY <2>3, <2>4 DEF HeldUnaudited
  <1>3. ASSUME NEW q \in Workers, HasHand(q, r)' PROVE hand'[q].step = "audit"
    <2>0. hand'[q].step # "none" /\ hand'[q].run = r
      BY <1>3 DEF HasHand
    <2>1. ASSUME DecisionAudited(q), hand[q].step = "none" PROVE FALSE
      <3>1. job[q].run = r /\ pc[q] = "audit" /\ job[q].item \in Items
        BY <1>0, <2>0, <2>1, AuditedHand
      <3>2. job[q].item # 0 /\ pc[q] \in Holding
        BY <3>1, HitlAssumption DEF Items, Holding
      <3> QED BY <1>0, <1>1, <3>1, <3>2, SoleHolder
    <2>2. HasHand(q, r) /\ (hand'[q] = hand[q] \/ Handover(q))
      BY <1>0, <2>0, <2>1, HandStep DEF HasHand
    <2>3. hand[q].step = "audit"
      BY <1>1, <2>2
    <2>4. ASSUME Handover(q) PROVE FALSE
      <3>1. hand' = [hand EXCEPT ![q] = NoHand]
        BY <2>3, <2>4
           DEF Handover, BuildHandoff, FindCandidate, CreateCandidate, UpdateCandidate, HandoffAudited, HandoffFails
      <3> QED BY <1>0, <2>0, <3>1, ResearchFacts, HandFields
    <2> QED BY <2>2, <2>3, <2>4
  <1>4. Stored(r)'
    <2>1. PICK t \in Slugs : t = research[r].named
      BY <1>0, <1>1, SameWish
    <2>2. Wanted(r)' = Wanted(r) /\ (Shared(r) => Shared(r)') /\ research'[r].named = t
      BY <1>0, <1>1, <2>1, SameWish
    <2>3. ASSUME NEW q \in Workers, Handover(q), hand[q].step \in {"create", "update"}, Target(q) = t
          PROVE  Shared(r)
      BY <1>0, <1>1, <2>1, <2>3, HandOfShared
    <2>4. store[t].text = Wanted(r) \/ Shared(r)
      BY <2>1 DEF Placed, Stored
    <2>5. store'[t].text = store[t].text \/ Shared(r)
      BY <1>0, <2>3, StoreStep
    <2> QED BY <2>2, <2>4, <2>5 DEF Stored
  <1> QED
    BY <1>2, <1>3, <1>4 DEF Placed

(* An approval that is the only decision of its run was claimed while the gate waited, and *)
(* moves on from there.                                                                    *)
LEMMA MovesStep ==
    ASSUME DraftInv, [ResearchNext]_allVars, NEW r \in Runs
    PROVE  ApprovalMoves(r)'
  <1> SUFFICES ASSUME faults' = 0, slips' = 0, NEW i \in Items, Sole(r, i)', rows'[i].status = "approved"
               PROVE  OnItsWay(r, i)'
    BY DEF ApprovalMoves
  <1>0. /\ HandoverInv /\ ResearchInv /\ IndInv /\ Accounted /\ [Next]_vars /\ ApprovalMoves(r) /\ Waits(r)
    BY QueueStep DEF DraftInv, HandoverInv, ResearchInv
  <1>1. faults = 0 /\ DecidedRows(r) \subseteq {i} /\ rows'[i].run = r /\ rows'[i].status \in Decided
    BY <1>0, DecisionsGrow DEF Sole, DecidedRows
  <1>2. slips = 0
    BY <1>0, SlipsStay, ResearchFacts
  <1>3. CASE Sole(r, i)
    <2>1. Onward(r, i)
      BY <1>0, <1>1, <1>2, <1>3, DecisionsGrow DEF Onward
    <2>2. OnItsWay(r, i)
      BY <1>0, <1>1, <1>2, <1>3, <2>1 DEF ApprovalMoves, Onward
    <2> QED
      BY <2>1, <2>2, AnswerMoves, AnsweredMoves, FetchMoves, PlaceMoves, PlacedStays DEF OnItsWay
  <1>4. CASE DecidedRows(r) = {}
    <2>1. rows[i].status \notin Decided
      <3>1. rows[i].status \in Decided => rows'[i] = rows[i]
        BY <1>0, <1>1, DecisionsStay
      <3> QED BY <1>1, <1>4, <3>1 DEF DecidedRows
    <2>2. PICK p \in Workers : Claim(p) /\ Holds(p, i)' /\ pc'[p] = "resume" /\ rows[i].status = "pending"
      BY <1>0, <1>1, <2>1, DecisionIsClaimed
    <2>3. rows[i].run = r
      BY <1>0, <1>1, <2>2, RowsStay
    <2>4. raised[r] > 0
      BY <1>0, <2>2, <2>3 DEF ResearchInv, Progress
    <2>5. ckpt[r].phase = "paused"
      BY <1>0, <1>1, <1>4, <2>4 DEF Waits
    <2>6. ckpt' = ckpt
      BY <2>2 DEF Claim, graph
    <2>7. Answering(p, r, i)'
      BY <2>2, <2>5, <2>6 DEF Answering
    <2> QED BY <2>7 DEF OnItsWay
  <1> QED
    BY <1>1, <1>3, <1>4 DEF Sole

LEMMA InitDraftInv == ResearchInit => DraftInv
  <1> SUFFICES ASSUME ResearchInit PROVE DraftInv
    OBVIOUS
  <1>1. ResearchInv
    BY InitResearchInv
  <1>2. /\ \A i \in Items : rows[i].status = "absent"
        /\ \A r \in Runs : raised[r] = 0
        /\ \A p \in Workers : pc[p] = "idle" /\ hand[p].step = "none"
    BY HandFields DEF ResearchInit, Init, NoRow
  <1>3. \A i \in Items : rows[i].status \notin Decided /\ rows[i].status # "approved"
    BY <1>2, StatusFacts
  <1>4. Accounted
    BY <1>2, <1>3 DEF Accounted
  <1>5. \A r \in Runs : Waits(r) /\ HandAlone(r) /\ ApprovalMoves(r)
    BY <1>2, <1>3 DEF Waits, HandAlone, HasHand, ApprovalMoves
  <1>6. \A p \in Workers : HandOrigin(p)
    BY <1>2 DEF HandOrigin
  <1> QED
    BY <1>1, <1>4, <1>5, <1>6 DEF DraftInv, HandoverInv

(* The inductive invariant of the hand-over: an undecided gate waits, a hand-over belongs to *)
(* one audited decision, and an approval is at every time at one stage of its way.           *)
THEOREM HandoverInvariance == ResearchSpec => []DraftInv
  <1>1. ASSUME DraftInv, [ResearchNext]_allVars PROVE DraftInv'
    <2>1. ResearchInv /\ Accounted /\ HandoverInv /\ IndInv /\ [Next]_vars
      BY <1>1, QueueStep DEF DraftInv, HandoverInv, ResearchInv
    <2>2. ResearchInv' /\ Accounted'
      BY <1>1, <2>1, NextResearchInv, AccountedStep
    <2>3. \A r \in Runs : Waits(r)' /\ HandAlone(r)' /\ ApprovalMoves(r)'
      BY <1>1, <2>1, WaitsStep, HandAloneStep, MovesStep
    <2>4. \A p \in Workers : HandOrigin(p)'
      BY <1>1, <2>1, OriginStep
    <2> QED BY <2>2, <2>3, <2>4 DEF DraftInv, HandoverInv
  <1> QED
    BY <1>1, InitDraftInv, PTL DEF ResearchSpec

(* The contract that the reviewer approved, with the reviewer's edits, is on disk once the *)
(* decision call is over, when nothing failed, no second decision was taken and no other   *)
(* run works for the same collection: the gate is consumed before the draft is handed      *)
(* over, and no step in between loses it.                                                  *)
THEOREM ApprovedDraftsAreStored == ResearchSpec => []ApprovedDraftIsStored
  <1>1. DraftInv => ApprovedDraftIsStored
    <2> SUFFICES ASSUME DraftInv, NEW r \in Runs, NEW i \in Items,
                        DecidedRows(r) = {i}, rows[i].status = "approved", faults = 0, slips = 0,
                        \A p \in Workers : ~ Holds(p, i) /\ hand[p].run # r
                 PROVE  Stored(r)
      BY DEF ApprovedDraftIsStored, Stored, Wanted, Shared
    <2>1. OnItsWay(r, i)
      BY DEF DraftInv, ApprovalMoves, Sole
    <2> QED
      BY <2>1 DEF OnItsWay, Answering, Answered, Fetching, Placing, HasHand, Placed
  <1> QED
    BY <1>1, HandoverInvariance, PTL

=============================================================================
