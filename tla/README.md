# SWE Drip: TLA+ models of the control-panel API and the design pipeline

SWE Drip turns trend briefs into print-on-demand products. A FastAPI service
(`api/`) is the control panel's backend; a LangGraph graph (`pipeline/`) does the
work, one run per design, and stops at gates where a person decides. This
directory holds the models of that program, the TLC configurations that check
them, and proofs that TLAPS checks.

Run a model with `tlc -config HitlSafety.cfg MCHitl.tla`, check a proof with
`tlapm HitlProofs.tla`.

## 1. The system: components, state, operations

| component | state it keeps | operations that change it | who it talks to |
|---|---|---|---|
| approval queue (`api/app/hitl.py`) | rows of `hitl_approvals` | list (inserts missing rows), decide (claim, resume, audit, roll back) | checkpoints, runs, audit log, event stream |
| runs (`api/app/runs.py`) | none of its own: checkpoints of the graph threads, spend rows, a set of replays in flight | start (budget check, background thread, record of a failure), resume, replay | pipeline graph, settings, collections, spend table |
| item pipeline (`pipeline/graph.py`, `pipeline/nodes/`) | one checkpointed state per run | eleven nodes in a locked order, a regeneration loop from node 7 to node 5, three gates that are on by default | model API, Fourthwall, cost rows |
| collections (`collections_store.py`, `routers/collections.py`) | one YAML file per collection | create, patch, approve, retire, add an inspiration link | audit log, approval queue (approving may resume a run) |
| collection research (`research_runs.py`, `routers/research.py`) | checkpoints of `rsch_` threads | start, decide the gate, hand the draft over | approval queue, collections |
| users (`users.py`, `routers/users.py`) | Better Auth's `user` table | change role, deactivate | audit log |
| settings and agents (`settings_store.py`, `agents.py`, `model_catalog.py`) | `settings` table, a process-wide cache of it, a cached list of models | load once, merge a patch into one key and write it whole, refresh the list | runs read flags and node configuration at their start |
| style repository (`styles_store.py`, `routers/styles.py`) | `styles.yaml` with a version | create, update under an expected version; report contracts left without their style | collections (approval gate reads the file) |
| webhooks (`webhooks.py`) | event ids seen, in memory | verify, deduplicate, compute a KPI and answer with it | collections, Fourthwall (both only read) |
| event stream (`stream.py`) | one bounded queue per subscriber | publish, subscribe | browser |
| operator tokens, MCP (`operator_tokens.py`, `mcp/`) | token rows | issue, verify, revoke; one tool per endpoint, behind a scope check | the router functions of the endpoints |
| audit log (`audit.py`) | append-only rows | record | everything above |

### What makes each part correct, and what is hard about it

**Approval queue.** State: one row per opened gate (`pending`, then `approved`,
`rejected` or `regenerate_requested`) with a partial unique index on
`(run_id, node)` of open rows; the audit log; the checkpoint of each run, which
says whether it is interrupted and where. A listing scans the checkpoints, inserts
the rows that are missing and reads them back, each in a transaction of its own. A
decision reads the row, looks at the live interrupts, builds the payload, claims the
row, resumes the graph (which runs every node up to the next gate inside the call),
audits, and rolls the claim back when the resume failed. Hard: calls of several
threads interleave between any two of these steps, a node behind the gate may raise
after the gate took its payload, the process may die between any two steps. It is
correct when a gate has one open row, a row has one winner, index and audit log
agree, an interrupt is answered once by the decision made for it, and a gate that
waits can always be decided.

**Runs and item pipeline.** State: one checkpoint per run. Eleven nodes in a locked
order write their own keys; `aesthetic_qc` may send the run back to `art_render`;
gates interrupt; a node that is switched off writes a marker; a replay goes on behind
any node that has run, with that node's recorded output. Hard: a replay jumps into
the middle of what the path behind it established, retries are counted across
interrupts and failures, the resumed gate executes its node a second time, an
exception drops the node's output but not what ran before it. It is correct when the
order and the cap of the loop hold, the run comes to rest, an image is bought only on
the contract stored for the collection or on a draft of the run's own that was
approved, that contract is never exchanged, no failing art passes unreviewed, and
nothing is shelved outside an active collection. The code comments call a stored
contract "already-approved" (`nodes/contract.py:293-296`); a start takes whatever is
stored, also a draft nobody approved, so that sentence does not hold, and
`Pipeline.StoredContractIsApproved` states it.

**Collections.** State: one YAML file per slug, its mtime, its lifecycle status.
Every call reads the file, checks, and replaces it as a whole; the lock a client can
ask for is the mtime it was shown. Hard: handlers run on a thread pool, so reads,
checks and writes of several calls interleave; the router checks one reading and the
store merges another; `add_link` retries. It is correct when the status moves only
draft, active, retired and only by approve and retire, a guarded write changes the
content that had the mtime it quotes, and no create overwrites. The guard is only as
good as the pair it quotes: `get` reads the text and then the mtime, and `add_link`,
which writes refs from that text, can meet a write in between and lose it with its
guard passing (`Collections.LinksAreGuarded` does not hold).

**Starting and showing a run.** A start is refused when the month's spend has
reached the cap, and otherwise answered when the thread of the run has been started
and audited; what fails later fails on that thread, which records it in the run.
What the screen shows is derived from the newest checkpoint. Hard: decisions and
replays put further threads to work on one run, each going on from the checkpoint it
loaded, and the replay guard lives in a service that is made anew for each request.
It is correct when no late request starts, a run at rest is never shown as running,
and spend that was not booked is not hidden behind a complete run.

**Collection research.** State: checkpoints of `rsch_` runs. The gate decision
consumes the interrupt and then hands the draft to the collections store, in steps
that may fail. It is correct when an approved draft ends up in the store, whatever
became of its collection meanwhile, and a run that nobody works on says why.

**Users, tokens, tools.** `_guard_last_admin` lists the active admins, and a later
statement demotes or deactivates; each change is audited by a statement of its own,
and so is each act of a machine client. It is correct when the last admin is lost at
most to overlapping calls, and everything that was done is in the audit log.

**Settings and agents.** A key of the `settings` table is read through a cache of the
process, merged, put into the cache and written whole; a `PATCH` consists of several
such parts; a model has to be on a list that is itself cached. It is correct when a
refused `PATCH` has written nothing, cache and table agree when nothing overlapped,
a write keeps every field it is not about, and a model that is gone for long is not
accepted.

**Styles.** `styles.yaml` is rewritten under the version a client quotes, which is
checked some time before the write. It is correct when a write replaces what its
client was shown by the next version and keeps every other style, and an approved
contract that loses its style is reported.

**Event stream.** One bounded `asyncio.Queue` per connection, filled from threads of
the pool and emptied by the event loop; `asyncio` queues are not made for that. It is
correct when an event is lost only to a full queue, none is repeated or reordered,
and what is in the queue of a connection that stays open, and meant for it, is shown
in the end. The global connection shows every event, log rows too
(`routers/stream.py:60-62`); `stream.py:16-17` says that it ignores them.

**Webhooks, costs, views, clients.** The webhook handler runs without awaiting from
the check of the event id to its answer and stores nothing else; cost rows and the
run log are only appended to; views and clients keep no state.

## 2. Modules

| module | models | kind |
|---|---|---|
| `ApprovalLedger` | what the queue promises for one row | abstract specification |
| `Hitl` | approval queue, graph threads, audit log, with start and replay of runs | component; refines `ApprovalLedger` |
| `RunOrder` | locked order and cap of the regeneration loop | abstract specification |
| `Pipeline` | the state of one run through all nodes, gates, faults, resumes and replays | component; refines `RunOrder` |
| `Collections` | one contract file and the calls that work on it | component |
| `Research` | research runs, their gate, the hand-over of the draft | composition: extends `Hitl` with the graph and the store |
| `Runs` | requests, budget, threads of runs, their newest checkpoints | component |
| `Accounts` | users, operator tokens, the tools of machine clients, audit log | component |
| `Settings` | settings table, its cache, model catalog, the `PATCH` of an agent and of a gate | component |
| `Styles` | style repository, contracts that use it, approval gate | component |
| `Stream` | subscriptions, publishers, readers | component |
| `MC...` | instances for TLC | |
| `...Proofs` | theorems about the module in front of `Proofs`; `RunsProofs` has those of `Stream` too | |

A definition whose comment starts with "A plausible bug" is a wrong variant of one
that follows it. No specification uses it; it is there to show that the properties
would notice.

### Hitl

A worker is a thread of the API. `pc` says which step of its call comes next, `job`
holds the call's locals. `list_queue` is `Scan`, `InsertPending`, `SelectPending`;
`decide` is `BeginDecide`, `LiveCheck`, `Refuse` or `Claim`, `Resume`, the nodes of
the graph, then `Audit`, `AuditFails` or `Reopen`. `graph.invoke` is not atomic: the
gate node re-executes (`GateReturns`, `GateRaises`), then the segment behind it runs
to the next gate, the end, or an exception (`SegmentPauses`, `SegmentEnds`,
`SegmentRaises`); each of them commits a checkpoint, as LangGraph does, before the
call goes on. `Start` and `Replay` put a worker into a segment. `Crash` ends all
calls and leaves tables and checkpoints. Between the gates a run's nodes are not
told apart here; `Pipeline` does that. A replay starts behind a node that has been
visited; that may be a gate that never asked, when its node ran before (`aesthetic_qc`
after a failing round), and `LateGates` names such gates. `delivered` is a history of which interrupt
each row's payload answered.

### Pipeline

One run, one thread at a time: what overlapping calls do to one run is in `Hitl`
and `Runs`. `state` is the checkpointed `RunState`, each key reduced to what later
nodes tell apart. Two such values are easily confused in the code, so they are kept:
`empty` (falsy) and `skipped` (the truthy dictionary of a node that is switched off).
`cfg` is what the start freezes: gates, switched-off nodes, the stored contract with
whatever status it has, the
Fourthwall client (`absent` is what production wires today), whether the briefs pass
the score, whether a placement template exists. Each node is one action with one
disjunct per way it can return; `Returns` commits the output and takes the edge.
`Resume` re-executes the gated node with the answer: `aesthetic_qc` then scores
again, and only a verdict that fails again looks at the answer, as in the code.
`Replay` leaves the state as it is, because writing back a recorded output changes
nothing, and continues behind the node by the edge that the present state selects.

### Collections

`versions` is the sequence of contents the file has had; the mtime of a content is
its index. `pc` and `job` are the calls. Reading the text, reading the mtime with
the checks, and replacing the file are steps of their own, because nothing locks the
file. A router's own check (`BeginApprove`, `BeginRetire`) remembers the contract it
saw in `before`; the store reads again into `text`. Two histories say what happened to
a call since its last look: `alone`, that no other call wrote, and `torn`, that one wrote
between its reading of text and mtime. The retry of `add_link` is a new look. `add_link` is an `async` handler
that does not await, so no other call begins while it runs in the single API
process, but calls that have begun go on.

### Research

The API decides research gates with the same `HitlService` over other ports, so the
module extends `Hitl` for a graph with one gate and no replays, and adds what that
code does around it: `StartRequest` and the five nodes of `collection_graph.py` as the
first segment of a run, the failure that the thread of a start records in the run
(`StartFails`), the verdict that the gate writes (`GateDecides`), and the hand-over
behind an approval (`BuildHandoff`, `FindCandidate`, then `CreateCandidate` or
`UpdateCandidate`, `HandoffAudited`). `hand` is the place of each worker in it. A slip
is a fault of the added part: the process dies, a hand-over fails, a failure cannot
be recorded, somebody else takes the slug. `store` has one contract per slug with
its status; the steps of a change of the file are in `Collections`.

### Runs

A run is named after the request that starts it: `Arrive`, the check of the budget,
the launch, the audit row with the answer. `ckpt` is the newest checkpoint
of a run with the workers that would continue from exactly that one (`base`); `job`
holds what a worker loaded or wrote last. Every node buys one model call, books it,
or loses the cost row and says so in `errors`. A replay writes two checkpoints, the
one it goes back to and the one it goes on from; a decision continues the node that
waits. `late` are the requests that came when the month was spent, `mixed` the runs on
which two threads worked at once, `unpaid` those with a lost cost row, `broken` those
whose thread died, whose failure could not be recorded, or whose resume raised.

### Accounts

A call on a user is `find`, `guard` (two listings), `write`, `audit`; one on a token
writes and audits; a tool checks the scope of its token, acts, and audits under the
name of the token. What a tool does behind the check is the function of its endpoint,
modelled elsewhere, so an act is just recorded in `acts`. Tools that write audit by the
writer of their service, which for the replay is one that writes nothing
(`NullWriter`). Sign-in and creation of users belong to Better Auth and are given.

### Settings

`db`, `cache` and `loaded` are the table, `_cache` and `_cache_loaded`; the first call
that looks into the store, a `PATCH` before its checks or a reader (`ReadSettings`), loads
in two steps (`LoadSelect`, `LoadFill`), and a load that fails still sets `loaded`, as in
the code. A part of a `PATCH` is `Merge`, `AssignCache`, `WriteToDb`,
`AuditPart`. `PATCH` of an agent validates every part first (`Accept`, `Refuse`), with
the catalog, which is refreshed from the vendor when it is stale. `Restart` empties the
caches and ends the calls. `gone`, `raced` are histories.

### Styles

A call has the document its client was shown (`view`), the one it read and checked
(`base`), and the one it writes (`doc`). Behind the write the handler reads the file
again, lists the contracts, and audits those whose style is missing. `contract` has
the style and the status of each contract; approving it reads the file in a step of
its own. `clobbered` says that some write replaced a document its call had not read.

### Stream

The steps of `asyncio.Queue` as far as two threads can come between them: a publisher
finds a place (`fits`), puts the event, wakes a waiter; a reader finds its queue empty,
goes to sleep, wakes up or times out, takes an event, shows it if it is one the
connection follows. The heartbeat of the generator is the timeout.

## 3. What is checked

States are distinct states of the run.

| run | states | what it shows |
|---|---|---|
| `hitl_safety` | 1 093 295 | three threads, opposite decisions, one fault, one replay: `UniqueOpenRow`, `ExclusiveClaim`, `AuditTrailAgrees`, `AnswersInterruptOnce`, `NoDecisionLostWithoutFault` |
| `hitl_queue` | 33 614 | fair: the queue implements `ApprovalLedger`; `QueueSurfacesGate` (live), `RollbackReopensGate` |
| `hitl_double_resume` | violated | a listing between a claim and the end of its resume opens a twin row, and both answer one interrupt |
| `pipeline_run` | 1 021 572 | every run under the listed configurations, one fault, one replay: `ArtRestsOnItsContract`, `FailingArtIsReviewed`, `ContractIsKept`, `ImplementsRunOrder`, `RunsStop` (live) |
| `pipeline_replay_review` | violated | a replay of `aesthetic_qc` walks past its human review |
| `collections_safety` | 758 355 | two threads, all calls: `LifecycleOrder`, `GuardedWriteHasItsBase`, `UndisturbedCallsAreLegal` |
| `research_handover` | 361 783 | two threads on one run, one fault and one slip: `NoRunStallsSilently`, `ApprovedDraftIsStored` |
| `runs` | 1 698 542 | two starts, three calls on one run, one fault, a change of month: `NoStartPastTheCap`, `SettledRunIsNotRunning`, `UnloggedSpendIsShown` |
| `accounts` | 1 327 747 | two threads, two users, one token, one fault: `LastAdminOnlyByOverlap`, `ChangesReachTheTrail` |
| `settings` | 3 966 879 | two threads, two models, one fault, one restart: `RefusedPatchChangesNothing`, `CacheShowsTable`, `WriteKeepsOtherFields`, `NoLongGoneModel` |
| `styles` | 161 600 | two threads, one contract, one fault: `WritesWhatWasShown`, `StrandedIsReported` |
| `stream` | 165 439 | two publishers, two connections, queues of two: `DropsOnlyWhenFull`, `QueuedIsShown` (live) |

The type invariant of each module is checked too (that of `Hitl` in `hitl_safety`). The
violated runs are findings in `PROJECT.json`, which quotes the sentence of the
repository that the run contradicts.

What the properties except is what the code does not protect, and each exception is
the smallest that the model confirms: the last admin can be lost to two overlapping
calls, and `LastAdminOnlyByOverlap` says to which; a lost update is excepted in
`Settings` (`raced`) and `Styles` (`clobbered`); a failed load in `Settings` makes the next
write replace the stored overrides by defaults, so it counts as a fault; a run is
excepted from `SettledRunIsNotRunning` when its thread died, its failure could not be
recorded, its resume raised (`broken`) or when three calls overlapped so that a replay
went on behind nodes the newest checkpoint does not have (`Gap`); an event may be
missing from a queue that was full, or when a publish was cut short because putting
into another connection's queue raised; a link is excepted from the second half of
`GuardedWriteHasItsBase` when its reading was `torn`. `ArtRestsOnItsContract` takes a stored
contract as it is, `QueuedIsShown` takes what a connection is meant to see from the router
and not from the module comment. `UnloggedSpendIsShown` is about the errors a node returns;
a round of `aesthetic_qc` whose cost row fails and that then interrupts drops its error,
and is not counted.

Some sentences of the repository that the code does not keep are stated in the
modules, last in each, and no run checks them: `Hitl.RollbackOnlyUnsent`,
`Hitl.DecisionReachesItsGate`, `Pipeline.StoredContractIsApproved`,
`Pipeline.RegenerateRenders`, `Pipeline.PausesCanBeDecided`,
`Collections.CreateNeverOverwrites`, `Collections.UpdatesKeepStatus`,
`Collections.LinksAreGuarded`, `Accounts.EveryActReachesTheTrail`, `Styles.OnlyGrows`,
`Stream.GlobalIgnoresLogs`.
Add one as INVARIANT or PROPERTY to the configuration of its module, and TLC prints
the trace.

### Bounds, and why they are enough

- `Hitl`: two gates are needed for a payload to reach the wrong one, and three
  threads for a listing to overlap two deciders; two rows let one gate have a decided
  and an open row, which is all that rollback and twin rows need. One run suffices:
  the actions of two runs touch disjoint rows and checkpoints. One fault and one
  replay: every handler of a failure runs, and what it leaves is met by every other
  call. The second gate is the late one, so a replay may go behind it though it never
  asked. The fair run has six rows and two threads, so that a row that was decided by
  a process that died is followed by a fresh one until the gate is answered.
- `Pipeline`: `MaxRegen = 2` (the rubric of the repository), so that the loop is
  taken none, once and twice. Three gate sets (default, none, one that cannot be
  decided), five sets of switched-off nodes, three clients; no stored contract, a stored draft and
  an active one (the shelf, the only node that asks for the status, treats a retired one
  like the draft). One failure at any
  node and one replay from any place of rest.
- `Collections`: three contents of the file are a create, a transition and a write
  that undoes or follows it; two links tell a lost entry from a kept one. With one
  link, four contents were also checked: they allow draft, active, retired and a
  revival.
- `Research`: two threads are a start or a decision with whatever overlaps it; two
  slugs tell the collection of the run from the one its theme names; one fault of the
  queue and one slip of the hand-over meet each other.
- `Runs`: three calls on one run are what it takes for a replay to rest on a checkpoint
  that an older thread replaces, and with less `Gap` never happens. Three nodes put one
  in front of, one at, and one behind the place of a replay. With a cap of one, the
  second start shares only the budget.
- `Accounts`: two admins and two threads are the last-admin race. `Called` has one tool
  per way of being audited: one that reads, one that writes, and the replay. The proofs
  are for all tools.
- `Settings`: two requests, one with two parts of which the second may be refused, one
  that clears a field; two threads make a lost update. The table starts with one key that
  has a row and two that have none. One restart at any point.
- `Styles`: three versions are a write, one that follows it, and one that runs over
  either; two names let a style be renamed to a new one and back.
- `Stream`: a queue of two can hold events in a wrong order; three events fill it and
  leave one to be refused or to come in between.

The theorems below do not have these bounds.

### Fairness

`Hitl`: a thread that has work goes on (`WF` of `Serve` per worker: no call waits for
another one). Clients poll the queue, so a run that keeps being found paused while a
thread is free is scanned in the end (`SF` of `Scan`: a thread may be busy
in between). Nobody is obliged to decide, to start, to replay or to fail. `Pipeline`:
the thread that executes the graph goes on (`WF` of the nodes and their interrupts);
answers, replays and faults are free. `Stream`: the event loop serves every open
connection (`WF` of `Read`, whose timeout is the heartbeat); publishers and browsers
are free. The other modules claim no liveness.

## 4. What is proved

All constants are arbitrary, restricted only by the named assumption of each module,
which says that bounds are natural numbers and choices are choices the code knows.
The bounds on faults, replays and rows are guards of the model, but have no
particular value in a proof.

**Hitl.** `UniqueOpenRow`, `ExclusiveClaim` and `AuditTrailAgrees` are not inductive:
a claim is exclusive because a row in somebody's hands is not open, and an audit is
final because nothing is audited before its call ends. `IndInv` adds what the locals
of a call hold at each point (`JobsWellFormed`), that a row names a run and a gate
(`StoresWellFormed`), and that a held row is unaudited (`HeldUnaudited`).
`HitlProofs` proves it action by action. On top of it, `Accounted` says that while
nothing fails no claim is on its way back, which makes `NoDecisionLostWithoutFault`
inductive; `Answers` says that the interrupt a run waits in has not been answered by
any row that names the run, and what a call holds is not yet in its row's history,
from which `AnswersInterruptOnce` follows. `LedgerImplemented` maps each row to its
place in the ledger (who holds it, and where that call stands) and shows every step
to be a ledger step on one row or a stutter. `RollbackReopensGate` is about one step: a
claim that is rolled back either finds no open row for its gate and reopens its own, or
finds the one that a scan put there.

**Research.** A research run is a run of the queue (`ResearchIsAQueue`: every step of
`ResearchSpec` is a step of `Hitl` or leaves the queue alone), so what is proved of
`Hitl` holds of it. `ResearchInv` ties the three records of a run together: the phase of
its checkpoint, the nodes it has visited, and where the calls on it stand
(`RunProgress`, `CallProgress`). A run that seems to work then has the thread of its
start, or something slipped (`Shows`), which is `NoRunStallsSilently`. That an approved
draft is stored needs the way it takes. `DraftInv` says that while nothing fails a gate
that nobody decided is still waiting, that a hand-over belongs to one audited decision
and is alone with it, and that an approval which is the only decision of its run is at
one stage: its call is on the way to the gate, has answered it, reads the newest
checkpoint, holds the draft for the store, or has stored it. `ApprovedDraftsAreStored`
is the last stage, read when the call is over. The contract may be retired and created
again by others meanwhile; only another run with the same theme may replace its text,
and that is the exception of the property.

**Pipeline.** A replay may put the run behind any node it has visited, so nothing can
rest on the path. `IndInv` says of the checkpointed state what every path leaves:
the nodes in front of a visited node are visited (`Walk`); an answer belongs to the
gate that executes (`GateOK`); a render rests on a specification, that on a brief and
a contract, the stored one where there is one, and feedback on a render (`Content`); a
draft of the run's own that is its contract was approved if the gate is on (`Approved`); the recorded attempts bound the
regenerations (`Counted`). One lemma, `Step`, reduces a returning node to its own
keys. From it follow the safety properties of the run, that the shelf accepts into
active collections only (`ShelfIsGuarded`), and that every step is one of `RunOrder`:
the cap of the loop is `Counted`, read in the next state.

**Collections.** The status on disk is not protected, so its order cannot be shown
from the file alone. `IndInv` follows the contract a call carries: what it checked
and what it merges was on disk once (`Checked`, `Based`), at the guarding mtime if
there is one. An active content then goes back to a complete draft, whatever
overlapped. `AllExtend` adds for a link whose reading was not torn that its refs are
those of the content with the guarding mtime and one more (`GuardHolds`). For a call
that no write has overlapped since its last look, `AllUndisturbed` adds that what
it read is what is on disk now, so that its write is a legal step (`AloneIsLegal`).

**Runs.** The cap is checked once, some time after the request came. It holds because
within a month the spend never shrinks (`LateIsSpent`). That a run at rest has a
settled status follows from who works on it: as long as its newest checkpoint neither
waits nor failed nor visited all nodes, a thread carries it on. The error of a lost
cost row is, on a run that one thread at a time works on, in the newest checkpoint
and in everything a thread may write from it.

**Accounts.** `JobOK` says what the locals of a call hold at each of its steps; what a
listing showed is history, so `LastAdmin` relates the write to the listing and not
to the present. For the audit log, the row of a change is written or the call that
writes it stands before that step, which no other call can take away.

**Settings.** `IndInv` says that a refused `PATCH` stands before its first write, that
whoever has been accepted works on a loaded cache, and that what the vendor dropped long ago is in no fresh catalog. For calls that nobody
overlaps, `Lone` makes the one call at work the only writer, and `AgreeOK`, `HandOK`
say what it has in hand at each step of load, merge, cache and write.

**Styles.** As long as no write ran over another one, a version names one document
(`VersionsIdentify`), so what a client with the present version saw is the file. A
document to write is the next version of the one that was read and keeps all styles
but one (`WriterOK`). `GatedReported` is `StrandedIsReported` for drafts too, since a
contract may be activated any time later.

**Stream.** A queue may hold more than its limit, since a publisher looks for a place in
one step and fills it in another. What is inductive is the sum (`Room`): events in the
queue and publishers that found a place and have yet to fill it stay below the limit
plus the number of threads, because a place is found only below the limit, and the
publisher that found it was not counted before. Order rests on `Newer`: the event a
thread is about to put into a queue is newer than all of its own there. `Served` says of
every event offered to a connection that it arrived, was refused, was cut off, or is on
its way. From these follow `StreamTypeOK` and `DropsOnlyWhenFull`, for a finite set of
publishing threads and a queue limit of at least one.

Model-checked only: liveness (`QueueSurfacesGate`, `RunsStop`, `QueuedIsShown`), which is
out of the prover's reach. Every invariant and every safety property of steps that a
passing run checks is stated by a theorem.

## 5. What is not modelled

- Prompts, scores, prices, images and texts are abstracted to the outcomes that the
  code tells apart. `technical_qc` may fail without an error and gates nothing, and a
  refused publish gate does not stop the shelf: the model does the same. Scoring,
  rubric and calibration are sequential arithmetic that unit tests cover.
- The contract a run carries is the snapshot taken at its start. A collection retired
  meanwhile is not seen by the shelf, in the code as in the model.
- Webhooks: no `await` between the check of an event id and the answer, and the KPI is
  stored nowhere, so a lost or repeated event changes no state.
- In `Collections`: two writes with one mtime (a clock too coarse), lifecycle stamps,
  assets next to the file, the audit row, the decision that approve takes over to the
  queue, manual edits of the file. In `Research` and `Styles` a change of a contract
  file is one step, in `Styles` the repository is not edited by hand.
- In `Settings`: the `PATCH`es of the brand and of the credentials, which are alike over
  keys of their own, and the prompt override, one more field of the model's key.
- Two API processes: the code keeps caches and subscribers in memory and is deployed
  as one.
- Clients (model, Fourthwall), authentication, views and the browser: pure I/O or
  stateless.

## 6. Plan

The components with state that calls share are modelled. What is left, in the order
of use:

1. An abstract specification for `Styles` and `Settings` (a compare-and-set register,
   a map) that they implement while nothing overlaps, with the refinement proved.
2. Composition: `Pipeline` started from, and shelved into, a collection that
   `Collections` changes meanwhile, which would show the age of the snapshot.

The suite is kept to a dozen runs, one per question.

## 7. Running it

    tlc -workers 2 -config HitlSafety.cfg MCHitl.tla
    tlc -workers 2 -config HitlQueue.cfg MCHitl.tla
    tlc -workers 2 -config PipelineRun.cfg MCPipeline.tla
    tlc -workers 2 -config CollectionsSafety.cfg MCCollections.tla
    tlc -workers 2 -config ResearchHandover.cfg MCResearch.tla
    tlc -workers 2 -config RunsRun.cfg MCRuns.tla
    tlc -workers 2 -config AccountsRun.cfg MCAccounts.tla
    tlc -workers 2 -config SettingsRun.cfg MCSettings.tla
    tlc -workers 2 -config StylesRun.cfg MCStyles.tla
    tlc -workers 2 -config StreamRun.cfg MCStream.tla
    tlapm HitlProofs.tla

The longest run takes about three minutes, the longest proofs a few. Deadlock is not
checked: a run that is over, a queue nobody polls and a file at its bound may all
stop.
