--------------------------- MODULE PipelineProofs ---------------------------
(***************************************************************************)
(* Proofs about Pipeline, for any gates, switched-off nodes, stored        *)
(* contracts and clients, any number of regenerations, failures and        *)
(* replays.  A replay may send the run anywhere it has been, so what holds *)
(* at a node cannot rest on the path that led there: the inductive         *)
(* invariant says of the checkpointed state what every path leaves behind. *)
(***************************************************************************)
EXTENDS Pipeline, TLAPS

Behind(n) == {m \in Nodes : Place[m] < Place[n]}

\* Every node before one that has run, or that runs next, has run.
Walk ==
    /\ \A m \in visited \cup {next} : Behind(m) \subseteq visited
    /\ phase = "ended" <=> next = "end"
    /\ next = "trend_research" => "trend_research" \notin visited

Waits(n) == Gated(n) \/ n = "aesthetic_qc"

\* An answer belongs to the gate that is executed with it.
GateOK ==
    /\ phase = "paused" => next \in Nodes /\ Waits(next)
    /\ answer # "none" => /\ phase = "ready" /\ next \in Decidable /\ Waits(next)
                          /\ answers[next] = answer

Contracted(s) == s.contract \in Statuses

\* What the keys of the state say about each other: art rests on a specification,
\* that on a brief and a contract, and these are never withdrawn.
Content(s, done) ==
    /\ s.clusters = "unset" <=> "trend_research" \notin done
    /\ ~ cfg.briefs => s.clusters \in {"unset", "empty"}
    /\ s.clusters = "empty" /\ "contract_approval" \in done => s.contract = "empty"
    /\ cfg.stored # "none" => \/ s.contract = cfg.stored
                              \/ s.contract = "empty" /\ s.clusters = "empty"
    /\ cfg.stored = "none" => \/ s.contract \in {"unset", "empty"}
                              \/ s.contract = "draft" /\ s.clusters = "made"
    /\ s.brief => s.clusters = "made"
    /\ s.spec = "made" => s.brief /\ Contracted(s) /\ ~ Off("design_spec")
    /\ s.render = "made" => s.spec = "made" /\ ~ Off("art_render")
    /\ s.feedback => s.render = "made"

\* The contract gate was answered with approve when a draft is the contract.
Approved(s, given) ==
    On("contract_approval") /\ cfg.stored = "none" /\ Contracted(s)
      => given["contract_approval"] = "approve"

\* The attempts recorded by the quality check bound the regenerations.
Counted(s, r) ==
    /\ r <= s.attempts /\ r <= MaxRegen
    /\ s.render # "made" \/ Off("aesthetic_qc") => r = 0

Shelved(s) == s.shelf = "accepted" => cfg.stored = "active" /\ cfg.briefs

IndInv ==
    /\ TypeOK
    /\ Walk
    /\ GateOK
    /\ Content(state, visited)
    /\ Approved(state, answers)
    /\ Counted(state, regens)
    /\ FailingArtIsReviewed
    /\ Shelved(state)

-----------------------------------------------------------------------------
(* The locked order.                                                        *)

LEMMA NodesSet ==
    Nodes = {"trend_research", "contract_approval", "listing_copy", "design_spec", "art_render",
             "placement", "aesthetic_qc", "technical_qc", "fw_create", "publish_gate", "shelf"}
  BY DEF Nodes, NextNode

\* The successor of a node stands one place behind it, and nothing between them.
LEMMA Successor ==
    ASSUME NEW n \in Nodes
    PROVE  /\ NextNode[n] \in Nodes \cup {"end"}
           /\ Place[NextNode[n]] = Place[n] + 1
           /\ Place[n] \in 1 .. 11
           /\ NextNode[n] # "trend_research"
           /\ NextNode[n] = "end" <=> n = "shelf"
  BY NodesSet DEF NextNode, Place

\* No two nodes stand at one place.
LEMMA PlaceInjective ==
    ASSUME NEW m \in Nodes \cup {"end"}, NEW n \in Nodes \cup {"end"}, Place[m] = Place[n]
    PROVE  m = n
  BY NodesSet DEF Place

\* The edge behind a node leads to its successor, or from the check to the renderer.
LEMMA AfterFacts ==
    ASSUME NEW n \in Nodes, NEW s
    PROVE  /\ After(n, s) \in Nodes \cup {"end"}
           /\ After(n, s) # "trend_research"
           /\ Behind(After(n, s)) \subseteq Behind(n) \cup {n}
           /\ \/ After(n, s) = NextNode[n]
              \/ n = "aesthetic_qc" /\ After(n, s) = "art_render"
                 /\ s.verdict = "fail" /\ s.feedback
  <1>1. Behind(NextNode[n]) \subseteq Behind(n) \cup {n}
    <2> SUFFICES ASSUME NEW m \in Nodes, Place[m] < Place[n] + 1, m # n
                 PROVE  Place[m] < Place[n]
      BY Successor DEF Behind
    <2> QED BY Successor, PlaceInjective
  <1>2. CASE n = "aesthetic_qc"
    <2>1. After(n, s) = IF s.verdict = "fail" /\ s.feedback THEN "art_render" ELSE "technical_qc"
      BY <1>2 DEF After, RouteAfterAestheticQc
    <2>2. NextNode[n] = "technical_qc" /\ "art_render" \in Nodes
      BY <1>2, NodesSet DEF NextNode
    <2>3. Behind("art_render") \subseteq Behind(n)
      BY <1>2, NodesSet DEF Behind, Place
    <2> QED BY <1>1, <1>2, <2>1, <2>2, <2>3, Successor
  <1>3. CASE n # "aesthetic_qc"
    BY <1>1, <1>3, Successor DEF After
  <1> QED BY <1>2, <1>3

-----------------------------------------------------------------------------
(* A node returns.                                                          *)

Regenerates(s) == next = "aesthetic_qc" /\ s.verdict = "fail" /\ s.feedback

\* What is left to show of a node: the keys of its output.
LEMMA Step ==
    ASSUME IndInv, phase = "ready", next \in Nodes,
           NEW s \in RunState, NEW errs \in SUBSET (Nodes \cup {"cost", "start"}),
           Returns(s, errs),
           Content(s, visited \cup {next}),
           Approved(s, answers),
           Counted(s, IF Regenerates(s) THEN regens + 1 ELSE regens),
           Shelved(s),
           Place[next] > 7 => s.render = state.render /\ s.verdict = state.verdict,
           next = "aesthetic_qc" /\ s.render = "made" /\ ~ Regenerates(s) =>
               \/ s.verdict \in {"pass", "skipped"}
               \/ answers["aesthetic_qc"] # "none"
               \/ "aesthetic_qc" \in errs
    PROVE  IndInv'
  <1>1. /\ state' = s /\ errors' = errors \cup errs /\ visited' = visited \cup {next}
        /\ next' = After(next, s) /\ phase' = IF next' = "end" THEN "ended" ELSE "ready"
        /\ answer' = "none" /\ UNCHANGED <<cfg, starting, faults, replays>>
        /\ answers' = IF next = "art_render" THEN [answers EXCEPT !["aesthetic_qc"] = "none"]
                      ELSE answers
    BY DEF Returns, Arrive
  <1>2. /\ next' \in Nodes \cup {"end"} /\ next' # "trend_research"
        /\ Behind(next') \subseteq Behind(next) \cup {next}
        /\ \/ next' = NextNode[next] /\ ~ Regenerates(s)
           \/ next' = "art_render" /\ Regenerates(s)
    <2>1. next # "aesthetic_qc" => ~ Regenerates(s)
      BY DEF Regenerates
    <2>2. next = "aesthetic_qc" /\ ~ Regenerates(s) => next' = NextNode[next]
      BY <1>1, AfterFacts DEF Regenerates
    <2>3. next = "aesthetic_qc" /\ Regenerates(s) => next' = "art_render"
      BY <1>1 DEF Regenerates, After, RouteAfterAestheticQc
    <2> QED BY <1>1, <2>1, <2>2, <2>3, AfterFacts
  <1>3. regens' = IF Regenerates(s) THEN regens + 1 ELSE regens
    <2>1. Regenerates(s) => regens <= MaxRegen
      BY PipelineAssumption DEF IndInv, TypeOK, Counted
    <2>2. next = "aesthetic_qc" /\ next' = "art_render" <=> Regenerates(s)
      BY <1>2, NodesSet DEF Regenerates, NextNode
    <2> QED BY <2>1, <2>2 DEF Returns
  <1>4. TypeOK'
    <2>1. regens' \in 0 .. MaxRegen + 1
      BY <1>3, PipelineAssumption DEF Counted, IndInv, TypeOK
    <2>2. answers' \in [Decidable -> Answers \cup {"none"}]
      BY <1>1 DEF IndInv, TypeOK
    <2>3. errors' \subseteq Nodes \cup {"cost", "start"} /\ visited' \subseteq Nodes
      BY <1>1 DEF IndInv, TypeOK
    <2> QED BY <1>1, <1>2, <2>1, <2>2, <2>3 DEF IndInv, TypeOK
  <1>5. Walk'
    <2>1. \A m \in visited \cup {next} : Behind(m) \subseteq visited
      BY DEF IndInv, Walk
    <2>2. \A m \in visited' \cup {next'} : Behind(m) \subseteq visited'
      BY <1>1, <1>2, <2>1
    <2> QED BY <1>1, <1>2, <2>2 DEF Walk, Behind
  <1>6. GateOK'
    BY <1>1 DEF GateOK
  <1>7. Content(state, visited)' /\ Counted(state, regens)' /\ Shelved(state)'
    BY <1>1, <1>3 DEF Content, Counted, Shelved, Contracted, Off
  <1>8. Approved(state, answers)'
    <2>1. answers'["contract_approval"] = answers["contract_approval"]
      BY <1>1 DEF IndInv, TypeOK, Decidable
    <2> QED BY <1>1, <2>1 DEF Approved, Contracted, On
  <1>9. FailingArtIsReviewed'
    <2> SUFFICES ASSUME replays = 0, Place[next'] > 7, s.render = "made"
                 PROVE  \/ s.verdict \in {"pass", "skipped"}
                        \/ answers'["aesthetic_qc"] # "none"
                        \/ "aesthetic_qc" \in errors'
      BY <1>1 DEF FailingArtIsReviewed, ArtIsAccountedFor, Place
    <2>1. next' = NextNode[next] /\ ~ Regenerates(s)
      BY <1>2 DEF Place
    <2>2. Place[next] > 6
      BY <2>1, Successor
    <2>3. answers' = answers
      BY <1>1, <2>2 DEF Place
    <2>4. CASE next = "aesthetic_qc"
      BY <1>1, <2>1, <2>3, <2>4
    <2>5. CASE next # "aesthetic_qc"
      <3>1. Place[next] > 7
        BY <2>2, <2>5, Successor, PlaceInjective, NodesSet DEF Place
      <3>2. ArtIsAccountedFor
        BY DEF IndInv, FailingArtIsReviewed
      <3> QED BY <1>1, <2>3, <3>1, <3>2 DEF ArtIsAccountedFor, Place
    <2> QED BY <2>4, <2>5
  <1> QED BY <1>4, <1>5, <1>6, <1>7, <1>8, <1>9 DEF IndInv

\* Keys that no other node's correctness rests on.
LEMMA SideStep ==
    ASSUME IndInv, phase = "ready", next \in Nodes, Place[next] > 2, next # "aesthetic_qc",
           NEW s \in RunState, NEW errs \in SUBSET (Nodes \cup {"cost", "start"}),
           Returns(s, errs),
           s.clusters = state.clusters, s.contract = state.contract, s.brief = state.brief,
           s.spec = state.spec, s.render = state.render, s.feedback = state.feedback,
           s.verdict = state.verdict, s.attempts = state.attempts,
           Shelved(s)
    PROVE  IndInv'
  <1>1. next \notin {"trend_research", "contract_approval"}
    BY DEF Place
  <1>2. Content(s, visited \cup {next}) /\ Approved(s, answers)
    BY <1>1 DEF IndInv, Content, Approved, Contracted
  <1>3. ~ Regenerates(s) /\ Counted(s, regens)
    BY DEF Regenerates, Counted, IndInv
  <1> QED BY <1>2, <1>3, Step

-----------------------------------------------------------------------------
(* The nodes.                                                               *)

\* The state a node starts from, and what every node may append to errors.
LEMMA NodeFacts ==
    ASSUME IndInv, NEW n \in Nodes, Enters(n)
    PROVE  /\ phase = "ready" /\ next = n /\ next \in Nodes
           /\ state \in RunState /\ cfg \in Config
           /\ Content(state, visited) /\ Approved(state, answers)
           /\ Counted(state, regens) /\ Shelved(state)
           /\ \A m \in Nodes : Place[m] < Place[n] => m \in visited
           /\ \A m \in Nodes : {m} \in SUBSET (Nodes \cup {"cost", "start"})
           /\ \A c \in SUBSET {"cost"} : c \in SUBSET (Nodes \cup {"cost", "start"})
           /\ {} \in SUBSET (Nodes \cup {"cost", "start"})
  BY DEF IndInv, TypeOK, Enters, Walk, Behind

LEMMA TrendResearchPreserves == ASSUME IndInv, TrendResearch PROVE IndInv'
  <1>1. PICK c \in {"empty", "skipped", "made"}, errs \in SUBSET {"cost"} :
          /\ Returns([state EXCEPT !.clusters = c], errs)
          /\ ~ cfg.briefs => c = "empty"
    BY DEF TrendResearch, ReturnsAfterModelCall
  <1> DEFINE s == [state EXCEPT !.clusters = c]
  <1>2. Enters("trend_research") /\ "trend_research" \in Nodes
    BY NodesSet DEF TrendResearch
  <1>3. /\ s \in RunState /\ s.clusters = c /\ s.contract = state.contract
        /\ s.brief = state.brief /\ s.spec = state.spec /\ s.render = state.render
        /\ s.feedback = state.feedback /\ s.verdict = state.verdict
        /\ s.attempts = state.attempts /\ s.shelf = state.shelf
    BY <1>2, NodeFacts DEF RunState
  <1>4. next = "trend_research" /\ visited \cap {"trend_research", "contract_approval"} = {}
    <2>1. \A m \in visited : Behind(m) \subseteq visited
      BY DEF IndInv, Walk
    <2>2. "trend_research" \in Behind("contract_approval")
      BY NodesSet DEF Behind, Place
    <2> QED BY <1>2, <2>1, <2>2, NodeFacts DEF IndInv, Walk
  <1>5. state.clusters = "unset" /\ ~ state.brief
    BY <1>2, <1>4, NodeFacts DEF Content
  <1>6. Content(s, visited \cup {next})
    BY <1>1, <1>2, <1>3, <1>4, <1>5, NodeFacts DEF Content, Contracted
  <1>7. /\ Approved(s, answers) /\ Shelved(s) /\ ~ Regenerates(s)
        /\ Counted(s, regens)
    BY <1>2, <1>3, <1>4, NodeFacts DEF Approved, Contracted, Shelved, Regenerates, Counted
  <1> QED BY <1>1, <1>2, <1>3, <1>4, <1>6, <1>7, NodeFacts, Step DEF Place

LEMMA ContractApprovalPreserves == ASSUME IndInv, ContractApproval PROVE IndInv'
  <1>1. Enters("contract_approval") /\ "contract_approval" \in Nodes
    BY NodesSet DEF ContractApproval
  <1>2. /\ next = "contract_approval" /\ "trend_research" \in visited
        /\ state \in RunState /\ state.clusters # "unset"
    BY <1>1, NodesSet, NodeFacts DEF Place, Content
  <1>3. ASSUME NEW s \in RunState, NEW errs \in SUBSET (Nodes \cup {"cost", "start"}),
               Returns(s, errs), Content(s, visited \cup {next}), Approved(s, answers),
               s.verdict = state.verdict, s.attempts = state.attempts,
               s.render = state.render, s.shelf = state.shelf
        PROVE  IndInv'
    <2>1. Shelved(s) /\ ~ Regenerates(s) /\ Counted(s, regens)
      BY <1>1, <1>2, <1>3, NodeFacts DEF Shelved, Regenerates, Counted
    <2> QED BY <1>1, <1>2, <1>3, <2>1, NodeFacts, Step DEF Place
  <1>4. CASE /\ state.clusters = "empty"
             /\ Returns([state EXCEPT !.contract = "empty"], {"contract_approval"})
    <2> DEFINE s == [state EXCEPT !.contract = "empty"]
    <2>1. /\ s \in RunState /\ s.contract = "empty" /\ s.clusters = "empty"
          /\ s.brief = state.brief /\ s.spec = state.spec /\ s.render = state.render
          /\ s.feedback = state.feedback /\ s.verdict = state.verdict
          /\ s.attempts = state.attempts /\ s.shelf = state.shelf
      BY <1>2, <1>4 DEF RunState
    <2>2. Content(s, visited \cup {next})
      BY <1>1, <1>2, <2>1, NodeFacts DEF Content
    <2>3. Approved(s, answers)
      BY <2>1 DEF Approved, Contracted, Statuses
    <2> QED BY <1>1, <1>3, <1>4, <2>1, <2>2, <2>3, NodeFacts
  <1>5. CASE /\ state.clusters = "made" /\ HasContract
             /\ Returns([state EXCEPT !.brief = TRUE], {})
    <2> DEFINE s == [state EXCEPT !.brief = TRUE]
    <2>1. /\ s \in RunState /\ s.contract = state.contract /\ s.clusters = "made"
          /\ s.brief /\ s.spec = state.spec /\ s.render = state.render
          /\ s.feedback = state.feedback /\ s.verdict = state.verdict
          /\ s.attempts = state.attempts /\ s.shelf = state.shelf
      BY <1>2, <1>5 DEF RunState
    <2>2. Content(s, visited \cup {next})
      BY <1>1, <1>2, <1>5, <2>1, NodeFacts DEF Content, Contracted
    <2>3. Approved(s, answers)
      BY <1>1, <2>1, NodeFacts DEF Approved, Contracted
    <2> QED BY <1>1, <1>3, <1>5, <2>1, <2>2, <2>3, NodeFacts
  <1>6. CASE /\ state.clusters = "skipped" /\ HasContract
             /\ Returns(state, {"contract_approval"})
    <2>1. Content(state, visited \cup {next})
      BY <1>1, <1>2, <1>6, NodeFacts DEF Content
    <2> QED BY <1>1, <1>2, <1>3, <1>6, <2>1, NodeFacts
  <1>7. CASE /\ state.clusters = "made" /\ ~ HasContract
             /\ answer = "approve" \/ ~ On("contract_approval")
             /\ Returns([state EXCEPT !.contract = "draft", !.brief = TRUE], {})
    <2> DEFINE s == [state EXCEPT !.contract = "draft", !.brief = TRUE]
    <2>1. /\ s \in RunState /\ s.contract = "draft" /\ s.clusters = "made"
          /\ s.brief /\ s.spec = state.spec /\ s.render = state.render
          /\ s.feedback = state.feedback /\ s.verdict = state.verdict
          /\ s.attempts = state.attempts /\ s.shelf = state.shelf
      BY <1>2, <1>7 DEF RunState, Statuses
    <2>2. cfg.stored = "none"
      BY <1>1, <1>7, NodeFacts DEF Content, HasContract, Config
    <2>3. Content(s, visited \cup {next})
      BY <1>1, <1>2, <1>7, <2>1, <2>2, NodeFacts DEF Content, HasContract, Contracted, Statuses
    <2>4. Approved(s, answers)
      BY <1>2, <1>7 DEF Approved, IndInv, GateOK
    <2> QED BY <1>1, <1>3, <1>7, <2>1, <2>3, <2>4, NodeFacts
  <1>8. CASE /\ state.clusters = "made" /\ ~ HasContract
             /\ Returns([state EXCEPT !.contract = "empty"], {"contract_approval"})
    <2> DEFINE s == [state EXCEPT !.contract = "empty"]
    <2>1. /\ s \in RunState /\ s.contract = "empty" /\ s.clusters = "made"
          /\ s.brief = state.brief /\ s.spec = state.spec /\ s.render = state.render
          /\ s.feedback = state.feedback /\ s.verdict = state.verdict
          /\ s.attempts = state.attempts /\ s.shelf = state.shelf
      BY <1>2, <1>8 DEF RunState
    <2>2. cfg.stored = "none" /\ state.spec # "made"
      BY <1>1, <1>8, NodeFacts DEF Content, HasContract, Contracted, Config
    <2>3. Content(s, visited \cup {next})
      BY <1>1, <1>2, <1>8, <2>1, <2>2, NodeFacts DEF Content
    <2>4. Approved(s, answers)
      BY <2>1 DEF Approved, Contracted, Statuses
    <2> QED BY <1>1, <1>3, <1>8, <2>1, <2>3, <2>4, NodeFacts
  <1> QED BY <1>4, <1>5, <1>6, <1>7, <1>8 DEF ContractApproval

LEMMA ListingCopyPreserves == ASSUME IndInv, ListingCopy PROVE IndInv'
  <1>1. PICK c \in {"empty", "skipped", "made"},
             errs \in {{"listing_copy"}} \cup SUBSET {"cost"} :
          Returns([state EXCEPT !.copy = c], errs)
    BY DEF ListingCopy, ReturnsAfterModelCall
  <1>2. Enters("listing_copy") /\ "listing_copy" \in Nodes
    BY NodesSet DEF ListingCopy
  <1>3. [state EXCEPT !.copy = c] \in RunState
    BY <1>2, NodeFacts DEF RunState
  <1>4. Shelved([state EXCEPT !.copy = c])
    BY <1>2, NodeFacts DEF Shelved, RunState
  <1> QED BY <1>1, <1>2, <1>3, <1>4, NodeFacts, SideStep DEF Place, RunState

LEMMA DesignSpecPreserves == ASSUME IndInv, DesignSpec PROVE IndInv'
  <1>1. PICK c \in {"empty", "skipped", "made"},
             errs \in {{"design_spec"}} \cup SUBSET {"cost"} :
          /\ Returns([state EXCEPT !.spec = c], errs)
          /\ c = "made" <=> state.brief /\ HasContract /\ ~ Off("design_spec")
    BY DEF DesignSpec, ReturnsAfterModelCall
  <1> DEFINE s == [state EXCEPT !.spec = c]
  <1>2. Enters("design_spec") /\ "design_spec" \in Nodes
    BY NodesSet DEF DesignSpec
  <1>3. /\ s \in RunState /\ s.clusters = state.clusters /\ s.contract = state.contract
        /\ s.brief = state.brief /\ s.spec = c /\ s.render = state.render
        /\ s.feedback = state.feedback /\ s.verdict = state.verdict
        /\ s.attempts = state.attempts /\ s.shelf = state.shelf
    BY <1>2, NodeFacts DEF RunState
  <1>4. next = "design_spec" /\ Content(state, visited)
    BY <1>2, NodeFacts
  <1>5. Content(s, visited \cup {next})
    BY <1>1, <1>3, <1>4 DEF Content, Contracted, HasContract
  <1>6. Approved(s, answers) /\ Shelved(s) /\ ~ Regenerates(s) /\ Counted(s, regens)
    BY <1>2, <1>3, <1>4, NodeFacts DEF Approved, Contracted, Shelved, Regenerates, Counted
  <1> QED BY <1>1, <1>2, <1>3, <1>4, <1>5, <1>6, NodeFacts, Step DEF Place

LEMMA ArtRenderPreserves == ASSUME IndInv, ArtRender PROVE IndInv'
  <1>1. Enters("art_render") /\ "art_render" \in Nodes
    BY NodesSet DEF ArtRender
  <1>2. /\ next = "art_render" /\ state \in RunState /\ Content(state, visited)
    BY <1>1, NodeFacts
  <1>3. ASSUME NEW s \in RunState, NEW errs \in {{"art_render"}} \cup SUBSET {"cost"},
               Returns(s, errs),
               s.clusters = state.clusters, s.contract = state.contract,
               s.brief = state.brief, s.spec = state.spec,
               s.verdict = state.verdict, s.attempts = state.attempts,
               s.shelf = state.shelf,
               s.render = "made" <=> state.spec = "made" /\ ~ Off("art_render"),
               s.feedback => state.feedback
        PROVE  IndInv'
    <2>1. Content(s, visited \cup {next})
      BY <1>2, <1>3 DEF Content, Contracted
    <2>2. Approved(s, answers) /\ Shelved(s) /\ ~ Regenerates(s)
      BY <1>1, <1>2, <1>3, NodeFacts DEF Approved, Contracted, Shelved, Regenerates
    <2>3. Counted(s, regens)
      BY <1>1, <1>2, <1>3, NodeFacts DEF Counted, Content
    <2>4. errs \in SUBSET (Nodes \cup {"cost", "start"}) /\ phase = "ready"
      BY <1>1, <1>3, NodeFacts
    <2>5. ~ (Place[next] > 7) /\ next # "aesthetic_qc"
      BY <1>2 DEF Place
    <2> QED BY <1>1, <1>2, <1>3, <2>1, <2>2, <2>3, <2>4, <2>5, Step
  <1>4. CASE state.spec # "made" /\ Returns([state EXCEPT !.render = "empty"], {"art_render"})
    BY <1>2, <1>3, <1>4 DEF RunState
  <1>5. CASE /\ state.spec = "made" /\ Off("art_render")
             /\ Returns([state EXCEPT !.render = "skipped"], {})
    BY <1>2, <1>3, <1>5 DEF RunState
  <1>6. CASE /\ state.spec = "made" /\ ~ Off("art_render")
             /\ ReturnsAfterModelCall([state EXCEPT !.render = "made", !.feedback = FALSE], {})
    <2> DEFINE s == [state EXCEPT !.render = "made", !.feedback = FALSE]
    <2>1. PICK errs \in SUBSET {"cost"} : Returns(s, errs)
      BY <1>6 DEF ReturnsAfterModelCall
    <2>2. /\ s \in RunState /\ s.clusters = state.clusters /\ s.contract = state.contract
          /\ s.brief = state.brief /\ s.spec = state.spec /\ s.render = "made"
          /\ ~ s.feedback /\ s.verdict = state.verdict
          /\ s.attempts = state.attempts /\ s.shelf = state.shelf
      BY <1>2 DEF RunState
    <2> QED BY <1>3, <1>6, <2>1, <2>2
  <1> QED BY <1>4, <1>5, <1>6 DEF ArtRender

LEMMA PlacementPreserves == ASSUME IndInv, Placement PROVE IndInv'
  <1>1. PICK c \in {"empty", "made"}, errs \in {{"placement"}, {}} :
          Returns([state EXCEPT !.placement = c], errs)
    BY DEF Placement
  <1>2. Enters("placement") /\ "placement" \in Nodes
    BY NodesSet DEF Placement
  <1>3. [state EXCEPT !.placement = c] \in RunState
    BY <1>2, NodeFacts DEF RunState
  <1>4. Shelved([state EXCEPT !.placement = c])
    BY <1>2, NodeFacts DEF Shelved, RunState
  <1> QED BY <1>1, <1>2, <1>3, <1>4, NodeFacts, SideStep DEF Place, RunState

Verdicts == {"unset", "skipped", "pass", "fail", "fail-human-review"}

\* The same keys of two states, those the quality check writes left aside.
SameWork(s, t) ==
    /\ s.clusters = t.clusters /\ s.contract = t.contract /\ s.brief = t.brief
    /\ s.spec = t.spec /\ s.render = t.render /\ s.shelf = t.shelf

Judge(x, v, k) == [x EXCEPT !.verdict = v, !.attempts = k]
Rework(x, v, k) == [x EXCEPT !.verdict = v, !.attempts = k, !.feedback = TRUE]
Settle(x, v, k) == [x EXCEPT !.verdict = v, !.attempts = k, !.feedback = FALSE]

\* A verdict and the attempts it took.
LEMMA Judged ==
    ASSUME NEW x \in RunState, NEW v \in Verdicts, NEW k \in Nat
    PROVE  /\ Judge(x, v, k) \in RunState /\ SameWork(Judge(x, v, k), x)
           /\ Judge(x, v, k).verdict = v /\ Judge(x, v, k).attempts = k
           /\ Judge(x, v, k).feedback = x.feedback
  <1>1. /\ SameWork(Judge(x, v, k), x) /\ Judge(x, v, k).feedback = x.feedback
        /\ Judge(x, v, k).verdict = v /\ Judge(x, v, k).attempts = k
    BY DEF RunState, SameWork, Judge
  <1>2. Judge(x, v, k) \in RunState
    BY DEF RunState, Verdicts, Judge
  <1> QED BY <1>1, <1>2

\* The same with feedback for the renderer.
LEMMA SentBack ==
    ASSUME NEW x \in RunState, NEW v \in Verdicts, NEW k \in Nat
    PROVE  /\ Rework(x, v, k) \in RunState /\ SameWork(Rework(x, v, k), x)
           /\ Rework(x, v, k).verdict = v /\ Rework(x, v, k).attempts = k
           /\ Rework(x, v, k).feedback
  <1>1. /\ SameWork(Rework(x, v, k), x) /\ Rework(x, v, k).feedback
        /\ Rework(x, v, k).verdict = v /\ Rework(x, v, k).attempts = k
    BY DEF RunState, SameWork, Rework
  <1>2. Rework(x, v, k) \in RunState
    BY DEF RunState, Verdicts, Rework
  <1> QED BY <1>1, <1>2

\* The same with no feedback left.
LEMMA Settled ==
    ASSUME NEW x \in RunState, NEW v \in Verdicts, NEW k \in Nat
    PROVE  /\ Settle(x, v, k) \in RunState /\ SameWork(Settle(x, v, k), x)
           /\ Settle(x, v, k).verdict = v /\ Settle(x, v, k).attempts = k
           /\ ~ Settle(x, v, k).feedback
  <1>1. /\ SameWork(Settle(x, v, k), x) /\ ~ Settle(x, v, k).feedback
        /\ Settle(x, v, k).verdict = v /\ Settle(x, v, k).attempts = k
    BY DEF RunState, SameWork, Settle
  <1>2. Settle(x, v, k) \in RunState
    BY DEF RunState, Verdicts, Settle
  <1> QED BY <1>1, <1>2

LEMMA AestheticQcPreserves == ASSUME IndInv, AestheticQc PROVE IndInv'
  <1>1. Enters("aesthetic_qc") /\ "aesthetic_qc" \in Nodes
    BY NodesSet DEF AestheticQc
  <1>2. /\ next = "aesthetic_qc" /\ phase = "ready" /\ state \in RunState
        /\ Content(state, visited) /\ Counted(state, regens) /\ Approved(state, answers)
        /\ Shelved(state) /\ state.attempts \in Nat /\ regens \in Nat
    BY <1>1, NodeFacts DEF RunState, IndInv, TypeOK
  <1>n. PICK n \in Nat : n = state.attempts + 1
    BY <1>2
  <1>0. /\ state \in RunState /\ 0 \in Nat /\ 1 \in Nat /\ n \in Nat
        /\ TRUE \in BOOLEAN /\ FALSE \in BOOLEAN
        /\ "skipped" \in Verdicts /\ "pass" \in Verdicts /\ "fail" \in Verdicts
        /\ "fail-human-review" \in Verdicts
    BY <1>2, <1>n DEF Verdicts
  <1>3. ASSUME NEW s \in RunState, NEW errs \in SUBSET {"aesthetic_qc", "cost"},
               Returns(s, errs),
               SameWork(s, state),
               s.feedback => state.render = "made",
               Counted(s, IF Regenerates(s) THEN regens + 1 ELSE regens),
               s.render = "made" /\ ~ Regenerates(s) =>
                  \/ s.verdict \in {"pass", "skipped"}
                  \/ answers["aesthetic_qc"] # "none"
                  \/ "aesthetic_qc" \in errs
        PROVE  IndInv'
    <2>1. Content(s, visited \cup {next})
      BY <1>2, <1>3 DEF Content, Contracted, SameWork
    <2>2. Approved(s, answers) /\ Shelved(s)
      BY <1>2, <1>3 DEF Approved, Contracted, Shelved, SameWork
    <2>3. errs \in SUBSET (Nodes \cup {"cost", "start"})
      BY <1>1, <1>3
    <2>4. ~ (Place[next] > 7)
      BY <1>2 DEF Place
    <2> QED BY <1>1, <1>2, <1>3, <2>1, <2>2, <2>3, <2>4, Step
  <1>4. CASE /\ state.render # "made"
             /\ Returns([state EXCEPT !.verdict = "fail", !.attempts = 1], {"aesthetic_qc"})
    <2> DEFINE s == Judge(state, "fail", 1)
    <2>1. /\ s \in RunState /\ SameWork(s, state) /\ s.verdict = "fail"
          /\ s.attempts = 1 /\ s.feedback = state.feedback
      BY <1>0, Judged
    <2>2. ~ state.feedback /\ regens = 0
      BY <1>2, <1>4 DEF Content, Counted
    <2>3. ~ Regenerates(s) /\ Counted(s, regens)
      BY <1>2, <2>1, <2>2, PipelineAssumption DEF Regenerates, Counted, SameWork
    <2> QED BY <1>3, <1>4, <2>1, <2>2, <2>3 DEF Judge
  <1>5. CASE /\ state.render = "made" /\ Off("aesthetic_qc")
             /\ Returns([state EXCEPT !.verdict = "skipped", !.attempts = 0], {})
    <2> DEFINE s == Judge(state, "skipped", 0)
    <2>1. /\ s \in RunState /\ SameWork(s, state) /\ s.verdict = "skipped"
          /\ s.attempts = 0 /\ s.feedback = state.feedback
      BY <1>0, Judged
    <2>2. ~ Regenerates(s) /\ Counted(s, regens)
      BY <1>2, <1>5, <2>1, PipelineAssumption DEF Regenerates, Counted, SameWork
    <2>3. Returns(s, {}) /\ {} \in SUBSET {"aesthetic_qc", "cost"}
      BY <1>5 DEF Judge
    <2> QED BY <1>3, <1>5, <2>1, <2>2, <2>3
  <1>6. CASE /\ state.render = "made" /\ ~ Off("aesthetic_qc")
             /\ ReturnsAfterModelCall([state EXCEPT !.verdict = "pass", !.attempts = n], {})
    <2> DEFINE s == Judge(state, "pass", n)
    <2>1. PICK errs \in SUBSET {"cost"} : Returns(s, errs)
      BY <1>6 DEF ReturnsAfterModelCall, Judge
    <2>2. /\ s \in RunState /\ SameWork(s, state) /\ s.verdict = "pass"
          /\ s.attempts = n /\ s.feedback = state.feedback
      BY <1>0, Judged
    <2>3. ~ Regenerates(s) /\ Counted(s, regens)
      BY <1>2, <1>n, <1>6, <2>2 DEF Regenerates, Counted, SameWork
    <2> QED BY <1>3, <1>6, <2>1, <2>2, <2>3
  <1>7. CASE /\ state.render = "made" /\ ~ Off("aesthetic_qc") /\ n <= MaxRegen
             /\ ReturnsAfterModelCall([state EXCEPT !.verdict = "fail", !.attempts = n,
                                                    !.feedback = TRUE], {})
    <2> DEFINE s == Rework(state, "fail", n)
    <2>1. PICK errs \in SUBSET {"cost"} : Returns(s, errs)
      BY <1>7 DEF ReturnsAfterModelCall, Rework
    <2>2. /\ s \in RunState /\ SameWork(s, state) /\ s.verdict = "fail"
          /\ s.attempts = n /\ s.feedback
      BY <1>0, SentBack
    <2>3. Regenerates(s) /\ Counted(s, regens + 1)
      BY <1>2, <1>n, <1>7, <2>2, PipelineAssumption DEF Regenerates, Counted, SameWork
    <2> QED BY <1>3, <1>7, <2>1, <2>2, <2>3
  <1>8. CASE /\ state.render = "made" /\ ~ Off("aesthetic_qc") /\ ~ On("aesthetic_qc")
             /\ ReturnsAfterModelCall([state EXCEPT !.verdict = "fail-human-review",
                                                    !.attempts = n], {"aesthetic_qc"})
    <2> DEFINE s == Judge(state, "fail-human-review", n)
    <2>1. PICK c \in SUBSET {"cost"} : Returns(s, {"aesthetic_qc"} \cup c)
      BY <1>8 DEF ReturnsAfterModelCall, Judge
    <2>2. /\ s \in RunState /\ SameWork(s, state) /\ s.verdict = "fail-human-review"
          /\ s.attempts = n /\ s.feedback = state.feedback
      BY <1>0, Judged
    <2>3. ~ Regenerates(s) /\ Counted(s, regens)
      BY <1>2, <1>n, <1>8, <2>2 DEF Regenerates, Counted, SameWork
    <2> QED BY <1>3, <1>8, <2>1, <2>2, <2>3
  <1>9. CASE /\ state.render = "made" /\ ~ Off("aesthetic_qc") /\ answer # "none"
             /\ ReturnsAfterModelCall([state EXCEPT !.verdict = "fail-human-review",
                                                    !.attempts = n, !.feedback = FALSE], {})
    <2> DEFINE s == Settle(state, "fail-human-review", n)
    <2>1. PICK errs \in SUBSET {"cost"} : Returns(s, errs)
      BY <1>9 DEF ReturnsAfterModelCall, Settle
    <2>2. /\ s \in RunState /\ SameWork(s, state) /\ s.verdict = "fail-human-review"
          /\ s.attempts = n /\ ~ s.feedback
      BY <1>0, Settled
    <2>3. ~ Regenerates(s) /\ Counted(s, regens)
      BY <1>2, <1>n, <1>9, <2>2 DEF Regenerates, Counted, SameWork
    <2>4. answers["aesthetic_qc"] # "none"
      BY <1>2, <1>9 DEF IndInv, GateOK
    <2> QED BY <1>3, <1>9, <2>1, <2>2, <2>3, <2>4
  <1>10. CASE Interrupts /\ answer = "none"
    <2>1. TypeOK' /\ Walk'
      BY <1>1, <1>2, <1>10 DEF Interrupts, IndInv, TypeOK, Walk, Behind
    <2>2. GateOK'
      BY <1>1, <1>2, <1>10 DEF Interrupts, GateOK, Waits
    <2>3. /\ Content(state, visited)' /\ Approved(state, answers)'
          /\ Counted(state, regens)' /\ Shelved(state)'
      BY <1>2, <1>10
         DEF Interrupts, Content, Approved, Counted, Shelved, Contracted, Off, On
    <2>4. FailingArtIsReviewed'
      BY <1>10 DEF Interrupts, IndInv, FailingArtIsReviewed, ArtIsAccountedFor
    <2> QED BY <2>1, <2>2, <2>3, <2>4 DEF IndInv
  <1> QED BY <1>n, <1>4, <1>5, <1>6, <1>7, <1>8, <1>9, <1>10 DEF AestheticQc

LEMMA TechnicalQcPreserves == ASSUME IndInv, TechnicalQc PROVE IndInv'
  <1>1. PICK c \in {"failed", "passed"}, errs \in {{"technical_qc"}, {}} :
          Returns([state EXCEPT !.technical = c], errs)
    BY DEF TechnicalQc
  <1>2. Enters("technical_qc") /\ "technical_qc" \in Nodes
    BY NodesSet DEF TechnicalQc
  <1>3. [state EXCEPT !.technical = c] \in RunState
    BY <1>2, NodeFacts DEF RunState
  <1>4. Shelved([state EXCEPT !.technical = c])
    BY <1>2, NodeFacts DEF Shelved, RunState
  <1> QED BY <1>1, <1>2, <1>3, <1>4, NodeFacts, SideStep DEF Place, RunState

LEMMA FwCreatePreserves == ASSUME IndInv, FwCreate PROVE IndInv'
  <1>1. PICK c \in {"empty", "made"}, errs \in {{"fw_create"}, {}} :
          Returns([state EXCEPT !.product = c], errs)
    BY DEF FwCreate
  <1>2. Enters("fw_create") /\ "fw_create" \in Nodes
    BY NodesSet DEF FwCreate
  <1>3. [state EXCEPT !.product = c] \in RunState
    BY <1>2, NodeFacts DEF RunState
  <1>4. Shelved([state EXCEPT !.product = c])
    BY <1>2, NodeFacts DEF Shelved, RunState
  <1> QED BY <1>1, <1>2, <1>3, <1>4, NodeFacts, SideStep DEF Place, RunState

LEMMA PublishGatePreserves == ASSUME IndInv, PublishGate PROVE IndInv'
  <1>1. PICK c \in {"approved", "refused"} : Returns([state EXCEPT !.decision = c], {})
    BY DEF PublishGate
  <1>2. Enters("publish_gate") /\ "publish_gate" \in Nodes
    BY NodesSet DEF PublishGate
  <1>3. [state EXCEPT !.decision = c] \in RunState
    BY <1>2, NodeFacts DEF RunState
  <1>4. Shelved([state EXCEPT !.decision = c])
    BY <1>2, NodeFacts DEF Shelved, RunState
  <1> QED BY <1>1, <1>2, <1>3, <1>4, NodeFacts, SideStep DEF Place, RunState

LEMMA ShelfPreserves == ASSUME IndInv, Shelf PROVE IndInv'
  <1>1. PICK c \in {"accepted", "rejected"}, errs \in {{"shelf"}, {}} :
          /\ Returns([state EXCEPT !.shelf = c], errs)
          /\ c = "accepted" => state.contract = "active"
    BY DEF Shelf
  <1>2. Enters("shelf") /\ "shelf" \in Nodes
    BY NodesSet DEF Shelf
  <1>3. [state EXCEPT !.shelf = c] \in RunState
    BY <1>2, NodeFacts DEF RunState
  <1>4. "trend_research" \in visited /\ "contract_approval" \in visited
    BY <1>2, NodesSet, NodeFacts DEF Place
  <1>5. state.contract = "active" => cfg.stored = "active" /\ cfg.briefs
    BY <1>2, <1>4, NodeFacts DEF Content, RunState
  <1>6. Shelved([state EXCEPT !.shelf = c])
    BY <1>1, <1>2, <1>5, NodeFacts DEF Shelved, RunState
  <1> QED BY <1>1, <1>2, <1>3, <1>6, NodeFacts, SideStep DEF Place, RunState

-----------------------------------------------------------------------------
(* Interrupts, failures and the calls of the API.                           *)

\* Nothing is executed: only how the run rests changes, and what it reports.
LEMMA AtRest ==
    ASSUME IndInv, UNCHANGED <<cfg, state, visited, next, answers, regens, replays>>,
           errors \subseteq errors', TypeOK', GateOK', phase' # "ended", next # "end"
    PROVE  IndInv'
  <1>1. Walk'
    BY DEF IndInv, Walk, Behind
  <1>2. /\ Content(state, visited)' /\ Approved(state, answers)'
        /\ Counted(state, regens)' /\ Shelved(state)'
    BY DEF IndInv, Content, Approved, Counted, Shelved, Contracted, Off, On
  <1>3. FailingArtIsReviewed'
    BY DEF IndInv, FailingArtIsReviewed, ArtIsAccountedFor
  <1> QED BY <1>1, <1>2, <1>3 DEF IndInv

LEMMA PausesPreserves == ASSUME IndInv, Pauses PROVE IndInv'
  <1>1. next \in Nodes /\ next # "end" /\ phase' = "paused" /\ answer' = "none"
    BY NodesSet DEF IndInv, Walk, TypeOK, Pauses, Interrupts
  <1>2. TypeOK'
    BY <1>1 DEF IndInv, TypeOK, Pauses, Interrupts
  <1>3. GateOK'
    BY <1>1 DEF GateOK, Waits, Pauses, Interrupts, Gated, On, HasContract
  <1> QED BY <1>1, <1>2, <1>3, AtRest DEF Pauses, Interrupts

\* A lost execution leaves what was checkpointed.
LEMMA HaltsPreserves ==
    ASSUME IndInv, phase = "ready", NEW errs \in SUBSET (Nodes \cup {"cost", "start"}),
           Halts(errs), faults' \in 0 .. MaxFaults
    PROVE  IndInv'
  <1>1. /\ next \in Nodes /\ next # "end" /\ phase' \in {"paused", "raised"}
        /\ answer' = "none" /\ errors' = errors \cup errs
    BY NodesSet DEF IndInv, Walk, TypeOK, Halts
  <1>2. TypeOK'
    BY <1>1 DEF IndInv, TypeOK, Halts
  <1>3. GateOK'
    BY <1>1 DEF IndInv, GateOK, Waits, Halts, Gated, On, HasContract
  <1> QED BY <1>1, <1>2, <1>3, AtRest DEF Halts

LEMMA FailuresPreserve == ASSUME IndInv, DraftRaises \/ NodeRaises \/ Crash PROVE IndInv'
  <1>1. phase = "ready" /\ faults' \in 0 .. MaxFaults
    BY PipelineAssumption
       DEF DraftRaises, NodeRaises, Crash, Enters, Raises, Halts, Fault, IndInv, TypeOK
  <1>2. PICK errs \in SUBSET (Nodes \cup {"cost", "start"}) : Halts(errs)
    BY DEF DraftRaises, NodeRaises, Crash, Raises
  <1> QED BY <1>1, <1>2, HaltsPreserves

LEMMA ResumePreserves == ASSUME IndInv, NEW a \in Answers, Resume(a) PROVE IndInv'
  <1>1. /\ next \in Nodes /\ Waits(next) /\ next \in Decidable /\ next # "end"
        /\ phase' = "ready" /\ answer' = a /\ answers' = [answers EXCEPT ![next] = a]
        /\ UNCHANGED <<cfg, state, errors, visited, next, regens, faults, replays>>
    BY NodesSet DEF IndInv, GateOK, Resume
  <1>2. TypeOK'
    BY <1>1 DEF IndInv, TypeOK, Resume
  <1>3. answers'[next] = a /\ a # "none"
    BY <1>1 DEF IndInv, TypeOK, Answers
  <1>4. GateOK'
    BY <1>1, <1>3 DEF GateOK, Waits, Gated, On, HasContract
  <1>5. Walk'
    BY <1>1 DEF IndInv, Walk, Behind
  <1>6. Content(state, visited)' /\ Counted(state, regens)' /\ Shelved(state)'
    BY <1>1 DEF IndInv, Content, Counted, Shelved, Contracted, Off
  <1>7. Approved(state, answers)'
    <2>1. CASE next = "contract_approval"
      BY <1>1, <2>1 DEF Waits, Gated, HasContract, Approved, Contracted
    <2>2. CASE next # "contract_approval"
      BY <1>1, <2>2 DEF IndInv, TypeOK, Decidable, Approved, Contracted, On
    <2> QED BY <2>1, <2>2
  <1>8. FailingArtIsReviewed'
    <2>1. answers["aesthetic_qc"] # "none" => answers'["aesthetic_qc"] # "none"
      BY <1>1, <1>3 DEF IndInv, TypeOK, Decidable
    <2> QED BY <1>1, <2>1 DEF IndInv, FailingArtIsReviewed, ArtIsAccountedFor
  <1> QED BY <1>2, <1>4, <1>5, <1>6, <1>7, <1>8 DEF IndInv

LEMMA ReplayPreserves == ASSUME IndInv, NEW n \in Nodes, Replay(n) PROVE IndInv'
  <1>1. /\ next' = After(n, state) /\ phase' = IF next' = "end" THEN "ended" ELSE "ready"
        /\ answer' = "none" /\ regens' = 0 /\ replays' = replays + 1
        /\ replays' \in 0 .. MaxReplays /\ replays' # 0
        /\ UNCHANGED <<cfg, state, errors, visited, answers, faults>>
        /\ n \in visited
    BY PipelineAssumption DEF Replay, Arrive, IndInv, TypeOK
  <1>2. /\ next' \in Nodes \cup {"end"} /\ next' # "trend_research"
        /\ Behind(next') \subseteq Behind(n) \cup {n}
    BY <1>1, AfterFacts
  <1>3. TypeOK'
    <2>1. regens' \in 0 .. MaxRegen + 1 /\ phase' \in {"ended", "ready"}
      BY <1>1, PipelineAssumption
    <2>2. starting' \in BOOLEAN
      BY DEF Replay
    <2> QED BY <1>1, <1>2, <2>1, <2>2 DEF IndInv, TypeOK
  <1>4. Walk'
    <2>1. \A m \in visited \cup {next'} : Behind(m) \subseteq visited
      BY <1>1, <1>2 DEF IndInv, Walk
    <2> QED BY <1>1, <1>2, <2>1 DEF Walk, Behind
  <1>5. GateOK'
    BY <1>1 DEF GateOK
  <1>6. Content(state, visited)' /\ Approved(state, answers)' /\ Shelved(state)'
    BY <1>1 DEF IndInv, Content, Approved, Shelved, Contracted, Off, On
  <1>7. Counted(state, regens)'
    BY <1>1, PipelineAssumption DEF IndInv, TypeOK, RunState, Counted
  <1>8. FailingArtIsReviewed'
    BY <1>1 DEF FailingArtIsReviewed
  <1> QED BY <1>3, <1>4, <1>5, <1>6, <1>7, <1>8 DEF IndInv

-----------------------------------------------------------------------------
(* The inductive invariant.                                                 *)

LEMMA InitEstablishes == ASSUME Init PROVE IndInv
  <1>1. TypeOK
    <2>1. cfg \in Config
      BY PipelineAssumption DEF Init, Config
    <2>2. state \in RunState
      BY <2>1 DEF Init, RunState, Config, Statuses
    <2>3. answers \in [Decidable -> Answers \cup {"none"}] /\ next \in Nodes
      BY NodesSet DEF Init
    <2>4. regens \in 0 .. MaxRegen + 1 /\ faults \in 0 .. MaxFaults /\ replays \in 0 .. MaxReplays
      BY PipelineAssumption DEF Init
    <2> QED BY <2>1, <2>2, <2>3, <2>4 DEF Init, TypeOK
  <1>2. Walk
    BY NodesSet DEF Init, Walk, Behind, Place
  <1>3. GateOK
    BY DEF Init, GateOK
  <1>4. Content(state, visited) /\ Approved(state, answers)
    BY <1>1 DEF Init, Content, Approved, Contracted, Statuses, TypeOK, Config
  <1>5. Counted(state, regens) /\ Shelved(state)
    BY PipelineAssumption DEF Init, Counted, Shelved
  <1>6. FailingArtIsReviewed
    BY DEF Init, FailingArtIsReviewed, ArtIsAccountedFor
  <1> QED BY <1>1, <1>2, <1>3, <1>4, <1>5, <1>6 DEF IndInv

LEMMA NextPreserves == ASSUME IndInv, [Next]_vars PROVE IndInv'
  <1>1. CASE Node
    BY <1>1, TrendResearchPreserves, ContractApprovalPreserves, ListingCopyPreserves,
       DesignSpecPreserves, ArtRenderPreserves, PlacementPreserves, AestheticQcPreserves,
       TechnicalQcPreserves, FwCreatePreserves, PublishGatePreserves, ShelfPreserves DEF Node
  <1>2. CASE Pauses
    BY <1>2, PausesPreserves
  <1>3. CASE DraftRaises \/ NodeRaises \/ Crash
    BY <1>3, FailuresPreserve
  <1>4. CASE \E a \in Answers : Resume(a)
    BY <1>4, ResumePreserves
  <1>5. CASE \E n \in Nodes : Replay(n)
    BY <1>5, ReplayPreserves
  <1>6. CASE UNCHANGED vars
    BY <1>6 DEF vars, IndInv, TypeOK, Walk, Behind, GateOK, Waits, Gated, On, HasContract,
       Content, Approved, Counted, Shelved, Contracted, Off, FailingArtIsReviewed,
       ArtIsAccountedFor
  <1> QED BY <1>1, <1>2, <1>3, <1>4, <1>5, <1>6 DEF Next

\* The inductive invariant holds of every run of the pipeline.
THEOREM Invariance == Spec => []IndInv
  <1>1. Init => IndInv
    BY InitEstablishes
  <1>2. IndInv /\ [Next]_vars => IndInv'
    BY NextPreserves
  <1> QED BY <1>1, <1>2, PTL DEF Spec

\* The state of a run is well typed: the gate that is answered, the place it has
\* reached and the regenerations it has had are those the nodes can produce.
THEOREM TypeCorrect == Spec => []TypeOK
  <1>1. IndInv => TypeOK
    BY DEF IndInv
  <1> QED BY <1>1, Invariance, PTL

\* Art is rendered only with a brief, from the contract the run was started with,
\* of whatever status, or from a draft of the run, which a reviewer approved if the
\* contract gate is on (contract_approval, design_spec and art_render).
THEOREM ArtIsContracted == Spec => []ArtRestsOnItsContract
  <1>1. IndInv => ArtRestsOnItsContract
    BY DEF IndInv, Content, Approved, Contracted, ArtRestsOnItsContract, Statuses
  <1> QED BY <1>1, Invariance, PTL

\* Without a replay, failing art gets behind the quality check only past a reviewer
\* or with an error (aesthetic_qc and its edges).
THEOREM FailingArtHeld == Spec => []FailingArtIsReviewed
  <1>1. IndInv => FailingArtIsReviewed
    BY DEF IndInv
  <1> QED BY <1>1, Invariance, PTL

\* The shelf accepts a product only for a collection stored as active (shelf,
\* contract_approval), whatever was replayed.
THEOREM ShelfIsGuarded == Spec => []AcceptedIntoActive
  <1>1. IndInv => AcceptedIntoActive
    BY DEF IndInv, Shelved, AcceptedIntoActive
  <1> QED BY <1>1, Invariance, PTL

-----------------------------------------------------------------------------
(* The order of the nodes: every step of the run is one of RunOrder.        *)

\* The end is the place behind the shelf.
LEMMA EndPlace ==
    ASSUME NEW n \in Nodes \cup {"end"}
    PROVE  Place[n] = 12 <=> n = "end"
  BY NodesSet DEF Place

LEMMA ReturnsInOrder ==
    ASSUME IndInv, IndInv', phase = "ready", next \in Nodes, NEW s, NEW errs, Returns(s, errs)
    PROVE  Order!OrderNext
  <1>1. /\ next' = After(next, s) /\ phase' = IF next' = "end" THEN "ended" ELSE "ready"
        /\ visited' = visited \cup {next}
    BY DEF Returns, Arrive
  <1>2. /\ next' \in Nodes \cup {"end"} /\ (Place[next'] = 12 <=> next' = "end")
        /\ \/ next' = NextNode[next]
           \/ next = "aesthetic_qc" /\ next' = "art_render"
    BY <1>1, AfterFacts, EndPlace
  <1>3. {Place[n] : n \in visited'} = {Place[n] : n \in visited} \cup {Place[next]}
    BY <1>1
  <1>4. CASE next' = NextNode[next]
    <2>1. regens' = regens
      BY <1>4 DEF Returns, NextNode
    <2>2. Place[next'] = Place[next] + 1
      BY <1>4, Successor
    <2> QED BY <1>1, <1>2, <1>3, <2>1, <2>2 DEF Order!OrderNext, Order!Advance, Order!Arrive
  <1>5. CASE next = "aesthetic_qc" /\ next' = "art_render"
    <2>1. regens \in Nat /\ regens <= MaxRegen /\ regens' <= MaxRegen
      BY DEF IndInv, TypeOK, Counted
    <2>2. regens' = regens + 1
      BY <1>5, <2>1 DEF Returns
    <2>3. regens < MaxRegen
      BY <2>1, <2>2, PipelineAssumption
    <2>4. Place[next] = 7 /\ Place[next'] = 5 /\ phase' = "ready"
      BY <1>1, <1>5 DEF Place
    <2> QED BY <1>3, <2>2, <2>3, <2>4 DEF Order!OrderNext, Order!Regenerate, Order!Arrive
  <1> QED BY <1>2, <1>4, <1>5

LEMMA HaltInOrder ==
    ASSUME phase = "ready", phase' \in {"paused", "raised"}, UNCHANGED <<next, visited, regens>>
    PROVE  Order!OrderNext
  BY DEF Order!OrderNext, Order!Halt

\* Every node returns, or waits.
LEMMA NodeCases ==
    ASSUME IndInv, Node
    PROVE  /\ phase = "ready" /\ next \in Nodes
           /\ Interrupts \/ \E s, errs : Returns(s, errs)
  <1>1. phase = "ready" /\ next \in Nodes
    BY NodesSet DEF Node, Enters, TrendResearch, ContractApproval, ListingCopy, DesignSpec,
       ArtRender, Placement, AestheticQc, TechnicalQc, FwCreate, PublishGate, Shelf
  <1>2. Interrupts \/ \E s, errs : Returns(s, errs)
    <2>1. CASE TrendResearch \/ ContractApproval \/ ListingCopy \/ DesignSpec
      BY <2>1 DEF TrendResearch, ContractApproval, ListingCopy, DesignSpec, ReturnsAfterModelCall
    <2>2. CASE ArtRender \/ Placement \/ AestheticQc \/ TechnicalQc
      BY <2>2 DEF ArtRender, Placement, AestheticQc, TechnicalQc, ReturnsAfterModelCall
    <2>3. CASE FwCreate \/ PublishGate \/ Shelf
      BY <2>3 DEF FwCreate, PublishGate, Shelf
    <2> QED BY <2>1, <2>2, <2>3 DEF Node
  <1> QED BY <1>1, <1>2

LEMMA StepsInOrder == ASSUME IndInv, IndInv', Next PROVE Order!OrderNext
  <1>1. CASE Node
    BY <1>1, NodeCases, ReturnsInOrder, HaltInOrder DEF Interrupts
  <1>2. CASE Pauses
    BY <1>2, HaltInOrder DEF Pauses, Interrupts
  <1>3. CASE DraftRaises \/ NodeRaises \/ Crash
    BY <1>3, HaltInOrder DEF DraftRaises, NodeRaises, Crash, Raises, Halts, Enters
  <1>4. ASSUME NEW a \in Answers, Resume(a) PROVE Order!OrderNext
    BY <1>4 DEF Resume, Order!OrderNext, Order!Continue
  <1>5. ASSUME NEW n \in Nodes, Replay(n) PROVE Order!OrderNext
    <2>1. /\ phase # "ready" /\ n \in visited /\ regens' = 0 /\ visited' = visited
          /\ next' = After(n, state) /\ phase' = IF next' = "end" THEN "ended" ELSE "ready"
      BY <1>5 DEF Replay, Arrive
    <2>2. /\ next' \in Nodes \cup {"end"} /\ (Place[next'] = 12 <=> next' = "end")
          /\ \/ next' = NextNode[n]
             \/ n = "aesthetic_qc" /\ next' = "art_render"
      BY <2>1, AfterFacts, EndPlace
    <2>3. CASE next' = NextNode[n]
      <3>1. Place[next'] = Place[n] + 1
        BY <2>3, Successor
      <3>2. Order!Arrive(Place[n] + 1)
        BY <2>1, <2>2, <3>1 DEF Order!Arrive
      <3> QED BY <2>1, <3>2 DEF Order!OrderNext, Order!SendBack
    <2>4. CASE n = "aesthetic_qc" /\ next' = "art_render"
      <3>1. Place[n] = 7 /\ Place[next'] = 5
        BY <2>4 DEF Place
      <3>2. Order!Arrive(5)
        BY <2>1, <2>2, <3>1 DEF Order!Arrive
      <3> QED BY <2>1, <3>1, <3>2 DEF Order!OrderNext, Order!SendBack
    <2> QED BY <2>2, <2>3, <2>4
  <1> QED BY <1>1, <1>2, <1>3, <1>4, <1>5 DEF Next

\* The nodes run in the locked order, and the check sends a run back to the renderer
\* no more often than the rubric allows, between any two replays (graph.py,
\* aesthetic_qc).
THEOREM OrderImplemented == Spec => ImplementsRunOrder
  <1>1. Init => Order!OrderInit
    BY DEF Init, Order!OrderInit, Place
  <1>2. IndInv /\ IndInv' /\ [Next]_vars => [Order!OrderNext]_(Order!orderVars)
    BY StepsInOrder DEF vars, Order!orderVars
  <1> QED BY <1>1, <1>2, Invariance, PTL DEF Spec, ImplementsRunOrder, Order!OrderSpec

-----------------------------------------------------------------------------
(* The contract.                                                            *)

KeepsContract ==
    HasContract /\ state'.contract # state.contract
      => state'.contract = "empty" /\ "contract_approval" \in errors'

\* The contract of a run is kept or dropped with an error, never replaced
\* (contract_approval is the only node that writes it), also behind a replay.
THEOREM ContractSurvives == Spec => ContractIsKept
  <1>1. IndInv /\ [Next]_vars => [KeepsContract]_vars
    <2> SUFFICES ASSUME IndInv, Next PROVE KeepsContract
      OBVIOUS
    <2> USE DEF KeepsContract
    <2>0. state \in RunState
      BY DEF IndInv, TypeOK
    <2>1. CASE TrendResearch
      BY <2>0, <2>1 DEF TrendResearch, ReturnsAfterModelCall, Returns, RunState
    <2>2. CASE ContractApproval
      BY <2>0, <2>2 DEF ContractApproval, Returns, RunState
    <2>3. CASE ListingCopy \/ DesignSpec \/ ArtRender
      BY <2>0, <2>3 DEF ListingCopy, DesignSpec, ArtRender, ReturnsAfterModelCall, Returns, RunState
    <2>4. CASE AestheticQc
      BY <2>0, <2>4 DEF AestheticQc, ReturnsAfterModelCall, Returns, Interrupts, RunState
    <2>5. CASE Placement \/ TechnicalQc \/ FwCreate \/ PublishGate \/ Shelf
      BY <2>0, <2>5 DEF Placement, TechnicalQc, FwCreate, PublishGate, Shelf, Returns, RunState
    <2>6. CASE Pauses \/ DraftRaises \/ NodeRaises \/ Crash
      BY <2>6 DEF Pauses, Interrupts, DraftRaises, NodeRaises, Crash, Raises, Halts
    <2>7. CASE (\E a \in Answers : Resume(a)) \/ (\E n \in Nodes : Replay(n))
      BY <2>7 DEF Resume, Replay
    <2> QED BY <2>1, <2>2, <2>3, <2>4, <2>5, <2>6, <2>7 DEF Next, Node
  <1> QED BY <1>1, Invariance, PTL DEF Spec, ContractIsKept, KeepsContract

=============================================================================
