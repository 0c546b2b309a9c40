------------------------------ MODULE Pipeline ------------------------------
(***************************************************************************)
(* One run of the item pipeline (pipeline/graph.py and pipeline/nodes):    *)
(* eleven nodes in a locked order, the regeneration loop from aesthetic_qc *)
(* back to art_render, the gates that wait for a reviewer, and what the    *)
(* API does to a run: start, resume, replay (api/app/runs.py, hitl.py).    *)
(*                                                                         *)
(* A step is the execution of one node, whose output is checkpointed as a  *)
(* whole, or one call of the API.  One thread works on the run at a time;  *)
(* what overlapping calls do to one run is the subject of Hitl.            *)
(*                                                                         *)
(* The content of a state key is abstracted to how later nodes read it:    *)
(* "unset", "empty" (a falsy value), "skipped" (the truthy dictionary of a *)
(* node switched off), "made" (a real output).                             *)
(***************************************************************************)
EXTENDS Integers

CONSTANTS MaxRegen,        \* MAX_REGEN_RETRIES of the rubric
          HitlChoices,     \* the sets of nodes whose gate may be on
          DisabledChoices, \* the sets of nodes that may be switched off
          StoredChoices,   \* status of the stored contract, or "none"
          FwChoices,       \* the Fourthwall client: absent, dry, live
          MaxFaults,       \* bound: raising nodes and crashes
          MaxReplays       \* bound: replays requested

\* The locked order, as the successor of each node and its place.
NextNode == [trend_research |-> "contract_approval", contract_approval |-> "listing_copy",
             listing_copy |-> "design_spec", design_spec |-> "art_render",
             art_render |-> "placement", placement |-> "aesthetic_qc",
             aesthetic_qc |-> "technical_qc", technical_qc |-> "fw_create",
             fw_create |-> "publish_gate", publish_gate |-> "shelf", shelf |-> "end"]

Place == [trend_research |-> 1, contract_approval |-> 2, listing_copy |-> 3, design_spec |-> 4,
          art_render |-> 5, placement |-> 6, aesthetic_qc |-> 7, technical_qc |-> 8,
          fw_create |-> 9, publish_gate |-> 10, shelf |-> 11, end |-> 12]

Nodes == DOMAIN NextNode

\* The nodes that honour the enabled flag of their configuration.
Switchable == {"trend_research", "listing_copy", "design_spec", "art_render", "aesthetic_qc"}

\* The gates build_resume_payload knows.
Decidable == {"contract_approval", "aesthetic_qc", "publish_gate"}

Answers == {"approve", "reject", "regenerate"}

Statuses == {"draft", "active", "retired"}

Config == [hitl : SUBSET Nodes, off : SUBSET Switchable, fw : {"absent", "dry", "live"},
           stored : Statuses \cup {"none"}, briefs : BOOLEAN, template : BOOLEAN]

ASSUME PipelineAssumption ==
    /\ MaxRegen \in Nat
    /\ HitlChoices \subseteq SUBSET Nodes
    /\ DisabledChoices \subseteq SUBSET Switchable
    /\ StoredChoices \subseteq Statuses \cup {"none"}
    /\ FwChoices \subseteq {"absent", "dry", "live"}
    /\ MaxFaults \in Nat
    /\ MaxReplays \in Nat

\* The keys of RunState that some node reads.  verdict and attempts are the
\* result and attempts of aesthetic_qc, feedback says that render_feedback holds
\* text, brief that the brief of the chosen cluster was found.
RunState ==
    [clusters : {"unset", "empty", "skipped", "made"},
     contract : {"unset", "empty"} \cup Statuses,
     brief : BOOLEAN,
     copy : {"unset", "empty", "skipped", "made"},
     spec : {"unset", "empty", "skipped", "made"},
     render : {"unset", "empty", "skipped", "made"},
     placement : {"unset", "empty", "made"},
     verdict : {"unset", "skipped", "pass", "fail", "fail-human-review"},
     attempts : Nat,
     feedback : BOOLEAN,
     technical : {"unset", "failed", "passed"},
     product : {"unset", "empty", "made"},
     decision : {"unset", "approved", "refused"},
     shelf : {"unset", "accepted", "rejected"}]

VARIABLES cfg,      \* frozen at the start: flags, node config, client; briefs pass, template exists
          state,    \* the checkpointed RunState
          errors,   \* what was appended to errors: the reporting node, "cost" or "start"
          visited,
          next,     \* the node to execute
          phase,    \* ready (a thread works), paused (interrupted), raised, ended
          answer,   \* the resume value while the gated node re-executes
          starting, \* the thread is the one that started the run
          answers,  \* history: the last answer each gate was sent; a new render resets aesthetic_qc
          regens,   \* history: regenerations since the start or the last replay,
                    \*          counted up to one more than allowed
          faults, replays

vars == <<cfg, state, errors, visited, next, phase, answer, starting, answers,
          regens, faults, replays>>

Init ==
    /\ cfg \in [hitl : HitlChoices, off : DisabledChoices, fw : FwChoices,
                stored : StoredChoices, briefs : BOOLEAN, template : BOOLEAN]
    /\ state = [clusters |-> "unset",
                contract |-> IF cfg.stored = "none" THEN "unset" ELSE cfg.stored,
                brief |-> FALSE, copy |-> "unset", spec |-> "unset", render |-> "unset",
                placement |-> "unset", verdict |-> "unset", attempts |-> 0,
                feedback |-> FALSE, technical |-> "unset", product |-> "unset",
                decision |-> "unset", shelf |-> "unset"]
    /\ errors = {}
    /\ visited = {}
    /\ next = "trend_research"
    /\ phase = "ready"
    /\ answer = "none"
    /\ starting = TRUE
    /\ answers = [n \in Decidable |-> "none"]
    /\ regens = 0
    /\ faults = 0
    /\ replays = 0

-----------------------------------------------------------------------------
(* What every node shares.                                                  *)

On(n) == n \in cfg.hitl
Off(n) == n \in cfg.off
HasContract == state.contract \in Statuses

\* The gate stands in front of the whole node, except for contract_approval,
\* which waits only with drafts to choose from, and for aesthetic_qc, which waits
\* only when its retries are exhausted.
Gated(n) ==
    /\ On(n)
    /\ n = "contract_approval" => state.clusters = "made" /\ ~ HasContract
    /\ n # "aesthetic_qc"

\* The thread executes node n, past its gate.
Enters(n) ==
    /\ phase = "ready" /\ next = n
    /\ Gated(n) => answer # "none"

\* A plausible bug: every failed verdict goes back to the renderer.
RouteIgnoresFeedback(s) ==
    IF s.verdict = "fail" THEN "art_render" ELSE "technical_qc"

RouteAfterAestheticQc(s) ==
    IF s.verdict = "fail" /\ s.feedback THEN "art_render" ELSE "technical_qc"

After(n, s) == IF n = "aesthetic_qc" THEN RouteAfterAestheticQc(s) ELSE NextNode[n]

Arrive(n) ==
    /\ next' = n
    /\ phase' = IF n = "end" THEN "ended" ELSE "ready"

\* The node returns: s is the new state, errs what it appends to errors.
Returns(s, errs) ==
    /\ state' = s
    /\ errors' = errors \cup errs
    /\ visited' = visited \cup {next}
    /\ Arrive(After(next, s))
    /\ answer' = "none"
    /\ answers' = IF next = "art_render" THEN [answers EXCEPT !["aesthetic_qc"] = "none"]
                                         ELSE answers
    /\ regens' = IF next = "aesthetic_qc" /\ next' = "art_render" /\ regens <= MaxRegen
                 THEN regens + 1 ELSE regens
    /\ UNCHANGED <<cfg, starting, faults, replays>>

\* A node that bought a model call also writes a cost row; a failure to do so is
\* appended to errors.
ReturnsAfterModelCall(s, errs) == \E c \in SUBSET {"cost"} : Returns(s, errs \cup c)

\* interrupt(): nothing of the node is kept, the run waits for a resume.
Interrupts ==
    /\ phase' = "paused"
    /\ UNCHANGED <<cfg, state, errors, visited, next, answer, starting, answers,
                   regens, faults, replays>>

\* The execution is lost.  A re-executed gate is interrupted as before.
Halts(errs) ==
    /\ phase' = IF answer # "none" THEN "paused" ELSE "raised"
    /\ answer' = "none"
    /\ errors' = errors \cup errs
    /\ UNCHANGED <<cfg, state, visited, next, starting, answers, regens, replays>>

Fault == faults < MaxFaults /\ faults' = faults + 1

-----------------------------------------------------------------------------
(* The nodes.                                                               *)

\* Scoring and clustering; the clustering model may find no cluster at all.
TrendResearch ==
    /\ Enters("trend_research")
    /\ \/ /\ ~ cfg.briefs
          /\ Returns([state EXCEPT !.clusters = "empty"], {})
       \/ /\ cfg.briefs /\ Off("trend_research")
          /\ Returns([state EXCEPT !.clusters = "skipped"], {})
       \/ /\ cfg.briefs /\ ~ Off("trend_research")
          /\ \E c \in {"made", "empty"} :
               ReturnsAfterModelCall([state EXCEPT !.clusters = c], {})

\* A plausible bug: any decision selects the first draft.
ContractApprovalFirstDraft ==
    /\ Enters("contract_approval")
    /\ \/ /\ state.clusters = "empty"
          /\ Returns([state EXCEPT !.contract = "empty"], {"contract_approval"})
       \/ /\ state.clusters # "empty" /\ HasContract
          /\ \/ /\ state.clusters = "made"
                /\ Returns([state EXCEPT !.brief = TRUE], {})
             \/ /\ state.clusters = "skipped"
                /\ Returns(state, {"contract_approval"})
       \/ /\ state.clusters = "made" /\ ~ HasContract
          /\ Returns([state EXCEPT !.contract = "draft", !.brief = TRUE], {})

\* A plausible bug: the stored contract is not honoured, a draft replaces it.
ContractApprovalRedrafts ==
    /\ Enters("contract_approval")
    /\ \/ /\ state.clusters = "empty"
          /\ Returns([state EXCEPT !.contract = "empty"], {"contract_approval"})
       \/ /\ state.clusters = "made"
          /\ Returns([state EXCEPT !.contract = "draft", !.brief = TRUE], {})

\* No cluster: the contract is emptied, a stored one too.  A contract in the state
\* is used as it is, and only the brief is looked up.  Otherwise one of the drafts
\* is chosen: by the reviewer, or the first one when the gate is off.
ContractApproval ==
    /\ Enters("contract_approval")
    /\ \/ /\ state.clusters = "empty"
          /\ Returns([state EXCEPT !.contract = "empty"], {"contract_approval"})
       \/ /\ state.clusters # "empty" /\ HasContract
          /\ \/ /\ state.clusters = "made"
                /\ Returns([state EXCEPT !.brief = TRUE], {})
             \/ /\ state.clusters = "skipped"
                /\ Returns(state, {"contract_approval"})
       \/ /\ state.clusters = "made" /\ ~ HasContract
          /\ \/ /\ answer = "approve" \/ ~ On("contract_approval")
                /\ Returns([state EXCEPT !.contract = "draft", !.brief = TRUE], {})
             \/ /\ answer # "approve" /\ On("contract_approval")
                /\ Returns([state EXCEPT !.contract = "empty"], {"contract_approval"})

ListingCopy ==
    /\ Enters("listing_copy")
    /\ \/ /\ ~ state.brief
          /\ Returns([state EXCEPT !.copy = "empty"], {"listing_copy"})
       \/ /\ state.brief /\ Off("listing_copy")
          /\ Returns([state EXCEPT !.copy = "skipped"], {})
       \/ /\ state.brief /\ ~ Off("listing_copy")
          /\ ReturnsAfterModelCall([state EXCEPT !.copy = "made"], {})

DesignSpec ==
    /\ Enters("design_spec")
    /\ \/ /\ ~ state.brief \/ ~ HasContract
          /\ Returns([state EXCEPT !.spec = "empty"], {"design_spec"})
       \/ /\ state.brief /\ HasContract /\ Off("design_spec")
          /\ Returns([state EXCEPT !.spec = "skipped"], {})
       \/ /\ state.brief /\ HasContract /\ ~ Off("design_spec")
          /\ ReturnsAfterModelCall([state EXCEPT !.spec = "made"], {})

\* The feedback of the quality check is consumed by the render it asked for.
ArtRender ==
    /\ Enters("art_render")
    /\ \/ /\ state.spec # "made"
          /\ Returns([state EXCEPT !.render = "empty"], {"art_render"})
       \/ /\ state.spec = "made" /\ Off("art_render")
          /\ Returns([state EXCEPT !.render = "skipped"], {})
       \/ /\ state.spec = "made" /\ ~ Off("art_render")
          /\ ReturnsAfterModelCall([state EXCEPT !.render = "made", !.feedback = FALSE], {})

\* A drafted contract has no placement templates.
Placement ==
    /\ Enters("placement")
    /\ \/ /\ HasContract /\ cfg.template /\ cfg.stored # "none"
          /\ Returns([state EXCEPT !.placement = "made"], {})
       \/ /\ ~ (HasContract /\ cfg.template /\ cfg.stored # "none")
          /\ Returns([state EXCEPT !.placement = "empty"], {"placement"})

\* A plausible bug: the attempts of earlier rounds are not read back.
AestheticQcForgets ==
    /\ Enters("aesthetic_qc")
    /\ state.render = "made"
    /\ \/ Returns([state EXCEPT !.verdict = "pass", !.attempts = 1], {})
       \/ /\ 1 <= MaxRegen
          /\ Returns([state EXCEPT !.verdict = "fail", !.attempts = 1, !.feedback = TRUE], {})

\* A plausible bug: exhausted retries go on without the reviewer.
AestheticQcNeverWaits ==
    LET n == state.attempts + 1
    IN  /\ Enters("aesthetic_qc")
        /\ state.render = "made"
        /\ \/ Returns([state EXCEPT !.verdict = "pass", !.attempts = n], {})
           \/ /\ n <= MaxRegen
              /\ Returns([state EXCEPT !.verdict = "fail", !.attempts = n, !.feedback = TRUE], {})
           \/ /\ n > MaxRegen
              /\ Returns([state EXCEPT !.verdict = "fail-human-review", !.attempts = n], {})

\* Scoring of the render.  The verdict of a resumed check is scored anew: it may
\* pass this time, and the reviewer's answer is then not looked at.
AestheticQc ==
    LET n == state.attempts + 1
        exhausted == [state EXCEPT !.verdict = "fail-human-review", !.attempts = n]
    IN  /\ Enters("aesthetic_qc")
        /\ \/ /\ state.render # "made"
              /\ Returns([state EXCEPT !.verdict = "fail", !.attempts = 1], {"aesthetic_qc"})
           \/ /\ state.render = "made" /\ Off("aesthetic_qc")
              /\ Returns([state EXCEPT !.verdict = "skipped", !.attempts = 0], {})
           \/ /\ state.render = "made" /\ ~ Off("aesthetic_qc")
              /\ \/ ReturnsAfterModelCall([state EXCEPT !.verdict = "pass", !.attempts = n], {})
                 \/ /\ n <= MaxRegen
                    /\ ReturnsAfterModelCall([state EXCEPT !.verdict = "fail", !.attempts = n,
                                                           !.feedback = TRUE], {})
                 \/ /\ n > MaxRegen /\ ~ On("aesthetic_qc")
                    /\ ReturnsAfterModelCall(exhausted, {"aesthetic_qc"})
                 \/ /\ n > MaxRegen /\ On("aesthetic_qc") /\ answer # "none"
                    /\ ReturnsAfterModelCall([exhausted EXCEPT !.feedback = FALSE], {})
                 \/ /\ n > MaxRegen /\ On("aesthetic_qc") /\ answer = "none"
                    /\ Interrupts

\* A plausible bug: a missing render counts as a check that was skipped.
TechnicalQcSkips ==
    /\ Enters("technical_qc")
    /\ \/ /\ state.render = "made"
          /\ \E t \in {"passed", "failed"} : Returns([state EXCEPT !.technical = t], {})
       \/ Returns([state EXCEPT !.technical = "skipped"], {})

\* The artifact may be gone, or lack an alpha channel; only the first is an error.
TechnicalQc ==
    /\ Enters("technical_qc")
    /\ \/ /\ state.render = "made"
          /\ \E t \in {"passed", "failed"} : Returns([state EXCEPT !.technical = t], {})
       \/ Returns([state EXCEPT !.technical = "failed"], {"technical_qc"})

\* Only empty inputs stop the draft: the output of a node switched off does not.
FwCreate ==
    LET missing == {state.copy, state.spec, state.render} \cap {"unset", "empty"} # {}
    IN  /\ Enters("fw_create")
        /\ \/ /\ missing \/ cfg.fw = "absent"
              /\ Returns([state EXCEPT !.product = "empty"], {"fw_create"})
           \/ /\ ~ missing /\ cfg.fw = "dry"
              /\ Returns([state EXCEPT !.product = "made"], {"fw_create"})
           \/ /\ ~ missing /\ cfg.fw = "live"
              /\ Returns([state EXCEPT !.product = "made"], {})

PublishGate ==
    /\ Enters("publish_gate")
    /\ Returns([state EXCEPT !.decision = IF answer = "approve" THEN "approved" ELSE "refused"], {})

\* The price of a product is the invariant it was drafted with.
Shelf ==
    LET accepted == state.product = "made" /\ state.contract = "active"
    IN  /\ Enters("shelf")
        /\ Returns([state EXCEPT !.shelf = IF accepted THEN "accepted" ELSE "rejected"],
                   IF accepted THEN {} ELSE {"shelf"})

Node ==
    \/ TrendResearch \/ ContractApproval \/ ListingCopy \/ DesignSpec \/ ArtRender
    \/ Placement \/ AestheticQc \/ TechnicalQc \/ FwCreate \/ PublishGate \/ Shelf

-----------------------------------------------------------------------------
(* Interrupts, failures and the calls of the API.                           *)

Pauses ==
    /\ phase = "ready" /\ Gated(next) /\ answer = "none"
    /\ Interrupts

\* The node calls a model, a client or the drafting code.
MayRaise ==
    \/ next = "trend_research" /\ cfg.briefs
    \/ next = "contract_approval" /\ state.clusters = "made" /\ ~ HasContract
    \/ next = "listing_copy" /\ state.brief /\ ~ Off(next)
    \/ next = "design_spec" /\ state.brief /\ HasContract /\ ~ Off(next)
    \/ next = "art_render" /\ state.spec = "made" /\ ~ Off(next)
    \/ next = "aesthetic_qc" /\ state.render = "made" /\ ~ Off(next)
    \/ next = "fw_create" /\ cfg.fw = "live"

\* An exception leaves the graph.  Only the thread of the start records it, as far
\* as it can.
Raises == \E errs \in SUBSET {"start"} : (errs # {} => starting) /\ Halts(errs)

\* contract_approval drafts in front of its gate, the others work behind theirs.
NodeRaises ==
    /\ phase = "ready" /\ MayRaise
    /\ Enters(next) \/ next = "contract_approval"
    /\ Fault
    /\ Raises

\* The cluster of a trend_research that is switched off has nothing to draft from.
DraftRaises ==
    /\ Enters("contract_approval")
    /\ state.clusters = "skipped" /\ ~ HasContract
    /\ Raises
    /\ UNCHANGED faults

\* The process dies while a node executes.
Crash ==
    /\ phase = "ready"
    /\ Fault
    /\ Halts({})

\* A decision resumes the gate, which executes again with the answer.
Resume(a) ==
    /\ phase = "paused" /\ next \in Decidable
    /\ phase' = "ready"
    /\ answer' = a
    /\ answers' = [answers EXCEPT ![next] = a]
    /\ starting' = FALSE
    /\ UNCHANGED <<cfg, state, errors, visited, next, regens, faults, replays>>

\* The recorded output of a visited node is written back as that node's, which
\* leaves the state as it is, and the graph goes on behind it.
Replay(n) ==
    /\ phase # "ready"
    /\ n \in visited
    /\ replays < MaxReplays
    /\ replays' = replays + 1
    /\ Arrive(After(n, state))
    /\ answer' = "none"
    /\ starting' = FALSE
    /\ regens' = 0
    /\ UNCHANGED <<cfg, state, errors, visited, answers, faults>>

Next ==
    \/ Node
    \/ Pauses
    \/ DraftRaises
    \/ NodeRaises
    \/ Crash
    \/ \E a \in Answers : Resume(a)
    \/ \E n \in Nodes : Replay(n)

Spec == Init /\ [][Next]_vars

\* The thread that executes the graph goes on; reviewers and operators need not.
FairSpec == Spec /\ WF_vars(Node \/ Pauses \/ DraftRaises)

-----------------------------------------------------------------------------
(* Properties.                                                              *)

\* Type invariant.
TypeOK ==
    /\ cfg \in Config
    /\ state \in RunState
    /\ errors \subseteq Nodes \cup {"cost", "start"}
    /\ visited \subseteq Nodes
    /\ next \in Nodes \cup {"end"}
    /\ phase \in {"ready", "paused", "raised", "ended"}
    /\ answer \in Answers \cup {"none"}
    /\ starting \in BOOLEAN
    /\ answers \in [Decidable -> Answers \cup {"none"}]
    /\ regens \in 0 .. MaxRegen + 1
    /\ faults \in 0 .. MaxFaults
    /\ replays \in 0 .. MaxReplays

\* No image is bought for a run that has nothing to design from, whatever was
\* replayed, dropped or decided again: a render rests on a brief and on the contract
\* the run was started with, or on a draft of its own, which a reviewer approved if
\* the contract gate is on.  Whether the stored contract was approved, nobody asks:
\* start_run and contract_approval take a stored draft as well (see
\* StoredContractIsApproved below).
ArtRestsOnItsContract ==
    state.render = "made" =>
        /\ state.brief
        /\ \/ /\ cfg.stored # "none"
              /\ state.contract = cfg.stored
           \/ /\ cfg.stored = "none"
              /\ state.contract = "draft"
              /\ On("contract_approval") => answers["contract_approval"] = "approve"

\* The contract a run works with never becomes another one, in any order of
\* replays: it is used as it is, or dropped with an error when there is no cluster
\* to use it for (a stored contract is never re-drafted, whatever its status).
ContractIsKept ==
    [][HasContract /\ state'.contract # state.contract
         => state'.contract = "empty" /\ "contract_approval" \in errors']_vars

\* The art was found good, or was reviewed, or the run says that it was not.
ArtIsAccountedFor ==
    Place[next] > Place["aesthetic_qc"] /\ state.render = "made" =>
        \/ state.verdict \in {"pass", "skipped"}
        \/ answers["aesthetic_qc"] # "none"
        \/ "aesthetic_qc" \in errors

\* As long as nothing is replayed, failing art gets behind the quality check only
\* past a reviewer, or with the error that says the gate was off.
FailingArtIsReviewed == replays = 0 => ArtIsAccountedFor

\* The shelf takes a product only into a collection that was stored as active when
\* the run started, never into a draft of the run itself, whatever was replayed.
AcceptedIntoActive == state.shelf = "accepted" => cfg.stored = "active" /\ cfg.briefs

\* The locked order and the cap of the regeneration loop.
Order == INSTANCE RunOrder
           WITH Last <- 11, Render <- 5, Check <- 7,
                place <- Place[next], mode <- phase, done <- {Place[n] : n \in visited}

ImplementsRunOrder == Order!OrderSpec

\* A run always comes to rest: at a gate, at a failure or at the end, but it never
\* regenerates for ever.
RunsStop == (phase = "ready") ~> (phase # "ready")

-----------------------------------------------------------------------------
(* What the documents say and the code does not do.                         *)

\* "Exhausted retries fall to a human-review interrupt()" (pipeline/nodes/
\* aesthetic_qc.py): failing art gets behind the quality check only past a
\* reviewer, also when the run was replayed.
ReplayKeepsReview == ArtIsAccountedFor

\* "An already-approved contract supplied by the run" ... "No gate - the contract was
\* approved when the collection was" (pipeline/nodes/contract.py): no image is bought
\* for a stored contract that is still a draft.
StoredContractIsApproved == state.render = "made" => cfg.stored # "draft"

\* "Regeneration requested with a rejection note produces a materially different
\* next render prompt (not a no-op retry)" (specs/design-qc/spec.md): a decision to
\* regenerate sends the design back to the renderer.
RegenerateRenders ==
    [][next = "aesthetic_qc" /\ answer = "regenerate" /\ next' # next
         => next' = "art_render"]_vars

\* "All HITL actions must be possible from the Control Panel alone" (docs/
\* swe-drip-prd-v1.md): a run waits only at a gate that can be decided.
PausesCanBeDecided == phase = "paused" => next \in Decidable

=============================================================================
