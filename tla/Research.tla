------------------------------- MODULE Research -------------------------------
(***************************************************************************)
(* Collection research: the five-node graph that drafts a contract         *)
(* (pipeline/collection_graph.py, pipeline/nodes/research_*.py), its API   *)
(* (api/app/research_runs.py, routers/research.py), and the hand-over of   *)
(* an approved draft to the collections store.                             *)
(*                                                                         *)
(* The API decides research gates with the same HitlService as the item    *)
(* queue, over other ports, so this module extends Hitl: its actions are   *)
(* those of Hitl for a graph whose only gate is the last node, together    *)
(* with what they do to the research state, and the hand-over that the     *)
(* decision endpoint adds behind them.  A research run is never replayed.  *)
(*                                                                         *)
(* The start refuses a collection without inspiration and a service        *)
(* without a model client, and a stored contract has a style: the nodes'   *)
(* answers to a missing input cannot occur and are left out.               *)
(***************************************************************************)
EXTENDS Hitl

CONSTANTS Slugs,    \* collections
          NoSlug,
          MaxSlips  \* bound: deaths of the process, failures of the hand-over and of the
                    \*        record of a failure, collections that others create

ASSUME ResearchAssumption ==
    /\ NGates = 1
    /\ MaxReplays = 0
    /\ NoSlug \notin Slugs
    /\ MaxSlips \in Nat

VARIABLES research, \* the checkpointed CollectionResearchState of each run
          store,    \* the contract of each collection
          hand,     \* the hand-over of each worker
          slips

ownVars == <<research, store, hand, slips>>
allVars == <<vars, ownVars>>

RESEARCH_ORDER == <<"inspiration_review", "style_synthesis", "mood_board",
                    "contract_draft", "collection_gate">>
GateNode == Len(RESEARCH_ORDER)

Verdicts == {"none", "rejected", "approved", "approved_edited"}

\* visited: how many nodes have run;  named: the slug of the theme, which names the
\* draft;  board, draft: rendered, assembled;  failed: errors are recorded.
ResearchState == [slug : Slugs \cup {NoSlug}, named : Slugs \cup {NoSlug}, visited : 0 .. GateNode,
                  board : BOOLEAN, draft : BOOLEAN, decision : Verdicts, failed : BOOLEAN]

NotStarted == [slug |-> NoSlug, named |-> NoSlug, visited |-> 0, board |-> FALSE,
               draft |-> FALSE, decision |-> "none", failed |-> FALSE]

\* What a contract on disk says: what people wrote, the draft of a run, or the draft
\* with the edits of its reviewer.
Texts == {"own", "draft", "edited"}
Contract == [status : {"absent", "draft", "active", "retired"}, text : Texts]
NoFile == [status |-> "absent", text |-> "own"]

\* step: history, get, create or update, audit;  text: the contract to persist.
Hand == [step : {"none", "history", "get", "create", "update", "audit"},
         run : Runs \cup {None}, text : Texts]
NoHand == [step |-> "none", run |-> None, text |-> "own"]

Free(p) == pc[p] = "idle" /\ hand[p].step = "none"

Slip == slips < MaxSlips /\ slips' = slips + 1

ResearchInit ==
    /\ Init
    /\ research = [r \in Runs |-> NotStarted]
    /\ store \in [Slugs -> {NoFile, [status |-> "draft", text |-> "own"]}]
    /\ hand = [p \in Workers |-> NoHand]
    /\ slips = 0

-----------------------------------------------------------------------------
(* POST /api/research/runs and the four nodes in front of the gate.         *)

\* The state that is frozen into the run.  Any slug may be that of the theme.
SeedState(slug, named) == [NotStarted EXCEPT !.slug = slug, !.named = named]

\* The run gets a thread of its own.
StartResearch(p, r, state) ==
    /\ Start(p, r)
    /\ research' = [research EXCEPT ![r] = state]
    /\ UNCHANGED <<store, hand, slips>>

\* Within the budget, for a collection that exists.
StartRequest(p, r) ==
    /\ Free(p)
    /\ \E slug \in {s \in Slugs : store[s].status # "absent"}, named \in Slugs :
         StartResearch(p, r, SeedState(slug, named))

\* The thread of a start stands before node n.
Before(p, n) ==
    /\ pc[p] = "segment" /\ job[p].item = 0
    /\ research[job[p].run].visited = n - 1

Visits(p, state) ==
    /\ research' = [research EXCEPT ![job[p].run] = [state EXCEPT !.visited = @ + 1]]
    /\ UNCHANGED <<vars, store, hand, slips>>

InspirationReview(p) == Before(p, 1) /\ Visits(p, research[job[p].run])

\* A cost row that cannot be written is recorded as an error of the run.
StyleSynthesis(p) ==
    /\ Before(p, 2)
    /\ \E unlogged \in BOOLEAN :
         Visits(p, [research[job[p].run] EXCEPT !.failed = @ \/ unlogged])

\* The sheet gets a file name no earlier board has.
MoodBoard(p) ==
    /\ Before(p, 3)
    /\ \E unlogged \in BOOLEAN :
         Visits(p, [research[job[p].run] EXCEPT !.board = TRUE, !.failed = @ \/ unlogged])

ContractDraft(p) ==
    /\ Before(p, 4)
    /\ Visits(p, [research[job[p].run] EXCEPT !.draft = TRUE])

\* A plausible bug: the gate asks before the draft is assembled.
GateAsksEarly(p) ==
    /\ Before(p, GateNode - 1)
    /\ SegmentPauses(p, 1)
    /\ UNCHANGED ownVars

\* The gate of a run that the API started is on: it interrupts with the draft.
CollectionGateAsks(p) ==
    /\ Before(p, GateNode)
    /\ SegmentPauses(p, 1)
    /\ UNCHANGED ownVars

\* A plausible bug: the failure of a start vanishes with its thread.
StartVanishes(p) ==
    /\ Before(p, 2) \/ Before(p, 3)
    /\ SegmentRaises(p)
    /\ UNCHANGED <<research, store, hand, slips>>

\* A model call raises: the thread records the failure in the state of the run, if it can.
StartFails(p) ==
    /\ Before(p, 2) \/ Before(p, 3)
    /\ SegmentRaises(p)
    /\ \/ /\ research' = [research EXCEPT ![job[p].run] = [@ EXCEPT !.failed = TRUE]]
          /\ UNCHANGED slips
       \/ Slip /\ UNCHANGED research
    /\ UNCHANGED <<store, hand>>

-----------------------------------------------------------------------------
(* The decision endpoint up to the audit row of the decision.               *)

\* list_queue, to be read or as the first step of a decision.
ListQueue(p) ==
    /\ Free(p) /\ \E r \in Runs : Scan(p, r)
    /\ UNCHANGED ownVars

DecideBegins(p, i, a) ==
    /\ Free(p)
    /\ BeginDecide(p, i, a)
    /\ UNCHANGED ownVars

\* The steps of HitlService that the research state does not see.
HitlStep(p) ==
    /\ \/ InsertPending(p) \/ SelectPending(p) \/ LiveCheck(p) \/ Refuse(p)
       \/ Claim(p) \/ Resume(p) \/ Reopen(p) \/ AuditFails(p)
       \/ job[p].item # 0 /\ SegmentEnds(p)
    /\ UNCHANGED ownVars

\* build_resume_payload: an approval may carry an edited contract.
VerdictsOf(action) == IF action = "approve" THEN {"approved", "approved_edited"} ELSE {"rejected"}

\* The gate takes the answer; a valid override is merged into the draft.
GateDecides(p) ==
    /\ GateReturns(p)
    /\ \E verdict \in VerdictsOf(job[p].action) :
         research' = [research EXCEPT ![job[p].run] = [@ EXCEPT !.visited = GateNode,
                                                                !.decision = verdict]]
    /\ UNCHANGED <<store, hand, slips>>

\* The override makes the contract invalid (or the checkpoint cannot be written).
GateRefuses(p) == GateRaises(p) /\ UNCHANGED ownVars

\* Only an approval that was resumed by this call goes on to the hand-over.
DecisionAudited(p) ==
    /\ Audit(p)
    /\ hand' = IF job[p].action = "approve"
               THEN [hand EXCEPT ![p] = [NoHand EXCEPT !.step = "history", !.run = job[p].run]]
               ELSE hand
    /\ UNCHANGED <<research, store, slips>>

-----------------------------------------------------------------------------
(* The hand-over: ports.history, build_handoff_contract, persist_handoff.   *)

Step(p, to) == hand' = [hand EXCEPT ![p] = [@ EXCEPT !.step = to]]

\* The newest checkpoint says what was approved; when it holds no approval (any
\* more) or no draft, the endpoint answers 500.
BuildHandoff(p) ==
    LET s == research[hand[p].run]
    IN  /\ hand[p].step = "history"
        /\ \/ /\ s.decision \in {"approved", "approved_edited"} /\ s.draft
              /\ hand' = [hand EXCEPT ![p] =
                            [@ EXCEPT !.step = "get",
                                      !.text = IF s.decision = "approved" THEN "draft" ELSE "edited"]]
           \/ /\ ~ (s.decision \in {"approved", "approved_edited"} /\ s.draft)
              /\ hand' = [hand EXCEPT ![p] = NoHand]
        /\ UNCHANGED <<vars, research, store, slips>>

Target(p) == research[hand[p].run].named

\* persist_handoff looks for the collection that the draft names.
FindCandidate(p) ==
    /\ hand[p].step = "get"
    /\ Step(p, IF store[Target(p)].status = "absent" THEN "create" ELSE "update")
    /\ UNCHANGED <<vars, research, store, slips>>

\* create refuses a slug that was taken in between.
CreateCandidate(p) ==
    /\ hand[p].step = "create"
    /\ \/ /\ store[Target(p)].status = "absent"
          /\ store' = [store EXCEPT ![Target(p)] = [status |-> "draft", text |-> hand[p].text]]
          /\ Step(p, "audit")
       \/ /\ store[Target(p)].status # "absent"
          /\ hand' = [hand EXCEPT ![p] = NoHand]
          /\ UNCHANGED store
    /\ UNCHANGED <<vars, research, slips>>

\* A plausible bug: the patch carries the draft's status, which update refuses.
UpdateWithStatus(p) ==
    /\ hand[p].step = "update"
    /\ IF store[Target(p)].status = "draft"
       THEN /\ store' = [store EXCEPT ![Target(p)] = [@ EXCEPT !.text = hand[p].text]]
            /\ Step(p, "audit")
       ELSE /\ hand' = [hand EXCEPT ![p] = NoHand]
            /\ UNCHANGED store
    /\ UNCHANGED <<vars, research, slips>>

\* The update leaves every key of the lifecycle alone.
UpdateCandidate(p) ==
    /\ hand[p].step = "update"
    /\ store' = [store EXCEPT ![Target(p)] = [@ EXCEPT !.text = hand[p].text]]
    /\ Step(p, "audit")
    /\ UNCHANGED <<vars, research, slips>>

HandoffAudited(p) ==
    /\ hand[p].step = "audit"
    /\ hand' = [hand EXCEPT ![p] = NoHand]
    /\ UNCHANGED <<vars, research, store, slips>>

\* The store refuses the contract or the disk fails: 500.
HandoffFails(p) ==
    /\ hand[p].step # "none"
    /\ Slip
    /\ hand' = [hand EXCEPT ![p] = NoHand]
    /\ UNCHANGED <<vars, research, store>>

-----------------------------------------------------------------------------
(* The process dies in a call of the queue, or in hand-overs alone.         *)
ResearchCrash ==
    /\ Slip
    /\ \/ Crash
       \/ /\ \A p \in Workers : pc[p] = "idle"
          /\ \E p \in Workers : hand[p].step # "none"
          /\ UNCHANGED vars
    /\ hand' = [p \in Workers |-> NoHand]
    /\ UNCHANGED <<research, store>>

\* Other users create, approve and retire collections.
LifecycleStep(s) ==
    /\ \/ /\ store[s].status = "absent"
          /\ store' = [store EXCEPT ![s] = [status |-> "draft", text |-> "own"]]
          /\ Slip
       \/ /\ store[s].status = "draft"
          /\ store' = [store EXCEPT ![s] = [@ EXCEPT !.status = "active"]]
          /\ UNCHANGED slips
       \/ /\ store[s].status = "active"
          /\ store' = [store EXCEPT ![s] = [@ EXCEPT !.status = "retired"]]
          /\ UNCHANGED slips
    /\ UNCHANGED <<vars, research, hand>>

Node(p) ==
    \/ InspirationReview(p) \/ StyleSynthesis(p) \/ MoodBoard(p)
    \/ ContractDraft(p) \/ CollectionGateAsks(p) \/ StartFails(p)

Handover(p) ==
    \/ BuildHandoff(p) \/ FindCandidate(p) \/ CreateCandidate(p)
    \/ UpdateCandidate(p) \/ HandoffAudited(p) \/ HandoffFails(p)

Works(p) ==
    Node(p) \/ HitlStep(p) \/ GateDecides(p) \/ GateRefuses(p) \/ DecisionAudited(p) \/ Handover(p)

ResearchNext ==
    \/ \E p \in Workers :
         \/ \E r \in Runs : StartRequest(p, r)
         \/ ListQueue(p)
         \/ \E i \in Items, a \in Choices : DecideBegins(p, i, a)
         \/ Works(p)
    \/ ResearchCrash
    \/ \E s \in Slugs : LifecycleStep(s)

ResearchSpec == ResearchInit /\ [][ResearchNext]_allVars

-----------------------------------------------------------------------------
(* Properties.                                                              *)

\* Type invariant; a draft is complete when the gate asks, and only then decided.
ResearchTypeOK ==
    /\ TypeOK
    /\ research \in [Runs -> ResearchState]
    /\ store \in [Slugs -> Contract]
    /\ hand \in [Workers -> Hand]
    /\ slips \in 0 .. MaxSlips
    /\ \A r \in Runs :
         /\ ckpt[r].phase = "paused" => research[r].draft /\ research[r].board
         /\ research[r].decision # "none" => research[r].visited = GateNode

\* derive_research_status: the interrupt first, then the recorded errors, then the
\* progress of the graph.
DerivedStatus(r) ==
    IF ckpt[r].phase = "paused" THEN "awaiting_approval"
    ELSE IF research[r].failed THEN "failed"
    ELSE IF research[r].visited = GateNode THEN "complete"
    ELSE "working"

\* A run that no thread works on says so: it waits for a decision, is complete, or
\* shows its failure.  Only the death of the process, or a failure that could not be
\* recorded, leaves a run that seems to work.
NoRunStallsSilently ==
    \A r \in Runs :
        DerivedStatus(r) = "working" =>
            \/ ckpt[r].phase = "new"
            \/ \E p \in Workers : job[p].run = r /\ pc[p] = "segment"
            \/ slips > 0

\* The decisions that ever reached the gate of run r.
DecidedRows(r) == {i \in Items : rows[i].run = r /\ rows[i].status \in Decided}

\* The gate is consumed before the draft is handed over.  When nothing failed, no
\* second decision was taken and nobody else took the slug meanwhile, the contract
\* that the reviewer approved, with the reviewer's edits, is on disk once the call
\* is over, whatever stage its collection has reached.
ApprovedDraftIsStored ==
    \A r \in Runs, i \in Items :
        /\ DecidedRows(r) = {i} /\ rows[i].status = "approved"
        /\ faults = 0 /\ slips = 0
        /\ \A p \in Workers : ~ Holds(p, i) /\ hand[p].run # r
        => \/ store[research[r].named].text =
                (IF research[r].decision = "approved_edited" THEN "edited" ELSE "draft")
           \/ \E s \in Runs \ {r} : research[s].named = research[r].named

=============================================================================
