---------------------------- MODULE Collections ----------------------------
(***************************************************************************)
(* One collection contract: the file <slug>.yaml and the API calls that    *)
(* read it, check it and write it back (api/app/collections_store.py,      *)
(* routers/collections.py, inspiration.py, research_runs.py).              *)
(*                                                                         *)
(* A file is replaced as a whole and never deleted, so its contents so far *)
(* are a sequence, and the mtime of a content is its index (two writes     *)
(* within one tick of the clock are left out).  Reading the text, reading  *)
(* the mtime and replacing the file are steps of their own.  A call runs   *)
(* on a thread of the pool, except add_link, which holds the event loop:   *)
(* while it runs no other call begins.                                     *)
(***************************************************************************)
EXTENDS Integers, Sequences

CONSTANTS Workers,     \* threads that execute calls
          Links,       \* inspiration links
          MaxVersions  \* bound: contents of the file

ASSUME CollectionsAssumption == MaxVersions \in Nat

Statuses == {"draft", "active", "retired"}

\* complete: palette, thresholds and style pass _completeness_errors.
Contract == [status : Statuses, complete : BOOLEAN, refs : SUBSET Links]

Drafts == [status : {"draft"}, complete : BOOLEAN, refs : SUBSET Links]

\* What a PATCH may set (its body may repeat the status), and what the hand-over
\* of an approved research draft sets: every key the lifecycle does not own.
Patches == [{"status"} -> Statuses] \cup [{"complete"} -> BOOLEAN] \cup [{"refs"} -> SUBSET Links]
Handovers == [complete : BOOLEAN, refs : SUBSET Links]

VARIABLES versions, \* the contents of the file so far; empty when there is no file
          pc,       \* the next step of each call
          job       \* its locals

vars == <<versions, pc, job>>

now == Len(versions)
file == versions[now]
Unguarded == 0

\* expected: the mtime that guards the write; before: the contract approve and
\* retire checked; text: the one the store read.  History: alone, no other call has
\* written since this one began, or started over; torn, another call has written
\* between the two readings of add_link.
Job == [op : {"none", "create", "patch", "handover", "approve", "retire", "link"},
        expected : 0 .. MaxVersions,
        change : Patches \cup Handovers \cup Drafts,
        before : Contract, text : Contract, entry : SUBSET Links, retried : BOOLEAN,
        alone : BOOLEAN, torn : BOOLEAN]

AnyDraft == [status |-> "draft", complete |-> FALSE, refs |-> {}]

NoJob == [op |-> "none", expected |-> Unguarded, change |-> AnyDraft, before |-> AnyDraft,
          text |-> AnyDraft, entry |-> {}, retried |-> FALSE, alone |-> TRUE, torn |-> FALSE]

Init ==
    /\ versions = <<>>
    /\ pc = [w \in Workers |-> "idle"]
    /\ job = [w \in Workers |-> NoJob]

-----------------------------------------------------------------------------
Goto(w, step) == pc' = [pc EXCEPT ![w] = step]

Ends(w) ==
    /\ Goto(w, "idle")
    /\ job' = [job EXCEPT ![w] = NoJob]

Begins(w, step, j) ==
    /\ pc[w] = "idle"
    /\ now < MaxVersions
    /\ \A v \in Workers : job[v].op # "link"
    /\ Goto(w, step)
    /\ job' = [job EXCEPT ![w] = j]
    /\ UNCHANGED versions

\* merged = {**current}; merged.update(patch)
Merge(text, change) ==
    [key \in DOMAIN text |-> IF key \in DOMAIN change THEN change[key] ELSE text[key]]

\* A client may guard its call with the mtime it was shown.  (A call whose guard is
\* stale from the start is refused by Check, as one whose guard becomes stale.)
Guards == {Unguarded, now}

-----------------------------------------------------------------------------
(* The routers, up to the call of the store.  A call that is refused here   *)
(* changes nothing and is left out.                                         *)

\* POST collections or candidates, or a hand-over that found no file.
BeginCreate(w, draft) ==
    Begins(w, "exists", [NoJob EXCEPT !.op = "create", !.change = draft])

BeginPatch(w, change, guard) ==
    /\ now > 0
    /\ Begins(w, "text", [NoJob EXCEPT !.op = "patch", !.change = change, !.expected = guard])

\* persist_handoff found the file; its update is not guarded.
BeginHandover(w, change) ==
    /\ now > 0
    /\ Begins(w, "text", [NoJob EXCEPT !.op = "handover", !.change = change])

BeginApprove(w, guard) ==
    /\ now > 0 /\ file.status = "draft" /\ file.complete
    /\ Begins(w, "text", [NoJob EXCEPT !.op = "approve", !.change = [status |-> "active"],
                                       !.before = file, !.expected = guard])

BeginRetire(w, guard) ==
    /\ now > 0 /\ file.status = "active"
    /\ Begins(w, "text", [NoJob EXCEPT !.op = "retire", !.change = [status |-> "retired"],
                                       !.before = file, !.expected = guard])

\* add_link holds the event loop: no second one runs beside it.
BeginLink(w, l) ==
    /\ now > 0
    /\ Begins(w, "refs", [NoJob EXCEPT !.op = "link", !.entry = {l}])

-----------------------------------------------------------------------------
(* add_link: it reads the refs, then the mtime that guards its update.      *)

ReadRefs(w) ==
    /\ pc[w] = "refs"
    /\ Goto(w, "refstat")
    /\ job' = [job EXCEPT ![w].change = [refs |-> file.refs \cup job[w].entry], ![w].torn = FALSE]
    /\ UNCHANGED versions

StatRefs(w) ==
    /\ pc[w] = "refstat"
    /\ Goto(w, "text")
    /\ job' = [job EXCEPT ![w].expected = now]
    /\ UNCHANGED versions

-----------------------------------------------------------------------------
(* The store.                                                               *)

\* create: the slug is taken, or the draft is about to be written.
Exists(w) ==
    /\ pc[w] = "exists"
    /\ \/ now > 0 /\ Ends(w)
       \/ now = 0 /\ Goto(w, "write") /\ UNCHANGED job
    /\ UNCHANGED versions

\* get: the text first ...
ReadText(w) ==
    /\ pc[w] = "text"
    /\ Goto(w, "check")
    /\ job' = [job EXCEPT ![w].text = file]
    /\ UNCHANGED versions

\* ... then the mtime, and the checks of update and transition.
Conflicts(w) == job[w].expected # Unguarded /\ job[w].expected # now

ChangesStatus(w) ==
    /\ job[w].op \in {"patch", "handover", "link"}
    /\ Merge(job[w].text, job[w].change).status # job[w].text.status

\* A plausible bug: the mtime is not looked at.
CheckStatusOnly(w) ==
    /\ pc[w] = "check"
    /\ IF ChangesStatus(w) THEN Ends(w) ELSE Goto(w, "write") /\ UNCHANGED job
    /\ UNCHANGED versions

\* A plausible bug: a PATCH may set the status.
CheckMtimeOnly(w) ==
    /\ pc[w] = "check"
    /\ IF Conflicts(w) THEN Ends(w) ELSE Goto(w, "write") /\ UNCHANGED job
    /\ UNCHANGED versions

\* A plausible bug: every conflict is retried.
CheckRetriesAll(w) ==
    /\ pc[w] = "check"
    /\ \/ /\ Conflicts(w) /\ job[w].retried
          /\ Ends(w)
       \/ /\ Conflicts(w) /\ ~ job[w].retried
          /\ Goto(w, "refs")
          /\ job' = [job EXCEPT ![w].retried = TRUE]
       \/ /\ ~ Conflicts(w) /\ ~ ChangesStatus(w)
          /\ Goto(w, "write") /\ UNCHANGED job
    /\ UNCHANGED versions

\* A plausible bug: add_link retries with the refs of its first attempt.
CheckKeepsRefs(w) ==
    /\ pc[w] = "check"
    /\ \/ /\ Conflicts(w) \/ ChangesStatus(w)
          /\ job[w].op = "link" => job[w].retried
          /\ Ends(w)
       \/ /\ Conflicts(w) /\ job[w].op = "link" /\ ~ job[w].retried
          /\ Goto(w, "refstat")
          /\ job' = [job EXCEPT ![w].retried = TRUE, ![w].alone = TRUE]
       \/ /\ ~ Conflicts(w) /\ ~ ChangesStatus(w)
          /\ Goto(w, "write") /\ UNCHANGED job
    /\ UNCHANGED versions

\* add_link answers its first conflict by starting over.
Check(w) ==
    /\ pc[w] = "check"
    /\ \/ /\ Conflicts(w) \/ ChangesStatus(w)
          /\ job[w].op = "link" => job[w].retried
          /\ Ends(w)
       \/ /\ Conflicts(w) /\ job[w].op = "link" /\ ~ job[w].retried
          /\ Goto(w, "refs")
          /\ job' = [job EXCEPT ![w].retried = TRUE, ![w].alone = TRUE]
       \/ /\ ~ Conflicts(w) /\ ~ ChangesStatus(w)
          /\ Goto(w, "write") /\ UNCHANGED job
    /\ UNCHANGED versions

\* The file is replaced; the audit row and the answer follow.
Record(w) == IF job[w].op = "create" THEN job[w].change ELSE Merge(job[w].text, job[w].change)

\* What the histories of a running call say after a write of another one.
Overlapped(v) == [job[v] EXCEPT !.alone = FALSE, !.torn = job[v].torn \/ pc[v] = "refstat"]

Write(w) ==
    /\ pc[w] = "write"
    /\ now < MaxVersions
    /\ versions' = Append(versions, Record(w))
    /\ Goto(w, "idle")
    /\ job' = [v \in Workers |-> IF v = w \/ pc[v] = "idle" THEN NoJob ELSE Overlapped(v)]

\* The body is invalid, the disk is full, or the process dies under the call.
Fails(w) ==
    /\ pc[w] # "idle"
    /\ Ends(w)
    /\ UNCHANGED versions

Next ==
    \E w \in Workers :
        \/ \E draft \in Drafts : BeginCreate(w, draft)
        \/ \E change \in Patches, guard \in Guards : BeginPatch(w, change, guard)
        \/ \E change \in Handovers : BeginHandover(w, change)
        \/ \E guard \in Guards : BeginApprove(w, guard)
        \/ \E guard \in Guards : BeginRetire(w, guard)
        \/ \E l \in Links : BeginLink(w, l)
        \/ ReadRefs(w) \/ StatRefs(w)
        \/ Exists(w) \/ ReadText(w) \/ Check(w) \/ Write(w)
        \/ Fails(w)

Spec == Init /\ [][Next]_vars

-----------------------------------------------------------------------------
(* Properties.                                                              *)

\* Type invariant: only add_link starts over, and a step reads a file that exists.
TypeOK ==
    /\ versions \in Seq(Contract) /\ now <= MaxVersions
    /\ pc \in [Workers -> {"idle", "exists", "refs", "refstat", "text", "check", "write"}]
    /\ job \in [Workers -> Job]
    /\ \A w \in Workers :
         /\ job[w].retried \/ pc[w] \in {"refs", "refstat"} => job[w].op = "link"
         /\ pc[w] \in {"refs", "refstat", "text", "check"} => now > 0

\* However calls overlap, a contract is active only if a complete draft of it was on
\* disk before, and retired only if an active one was.
LifecycleOrder ==
    \A k \in 1 .. now :
        /\ versions[k].status = "active" =>
             \E j \in 1 .. k - 1 : versions[j].status = "draft" /\ versions[j].complete
        /\ versions[k].status = "retired" =>
             \E j \in 1 .. k - 1 : versions[j].status = "active"

\* What a guarded call is about to write is a change of exactly the content that has
\* the guarding mtime, however often it was retried, and that content is also the
\* one the call decided on: a guarded approve activates nothing but what its router
\* found complete, and add_link extends the refs of that content - unless another
\* write fell between its reading of the refs and of the mtime, which get does not
\* do in one step (see LinksAreGuarded below).  For the same reason the mtime a
\* client was shown may be that of a later content than it was shown, so nothing is
\* said here of what a client has seen.
GuardedWriteHasItsBase ==
    \A w \in Workers :
        pc[w] = "write" /\ job[w].expected # Unguarded =>
            /\ job[w].text = versions[job[w].expected]
            /\ job[w].op \in {"approve", "retire"}
                 => job[w].before = versions[job[w].expected]
            /\ job[w].op = "link" /\ ~ job[w].torn
                 => job[w].change.refs = versions[job[w].expected].refs \cup job[w].entry

\* The lifecycle step of a call that no other write overlapped.
LegalStep(j, old, new) ==
    \/ j.op = "approve" /\ old.status = "draft" /\ old.complete
         /\ new = [old EXCEPT !.status = "active"]
    \/ j.op = "retire" /\ old.status = "active"
         /\ new = [old EXCEPT !.status = "retired"]
    \/ j.op = "link" /\ new = [old EXCEPT !.refs = @ \cup j.entry]
    \/ j.op \in {"patch", "handover"} /\ new.status = old.status

\* A call that is not overlapped by another write moves the contract one legal step
\* along its lifecycle, and adding a link changes nothing but the links; so does the
\* retry of a link whose first attempt was overlapped.
UndisturbedCallsAreLegal ==
    [][\A w \in Workers :
         pc[w] = "write" /\ now' # now /\ pc'[w] = "idle" /\ job[w].alone /\ now > 0
           => LegalStep(job[w], file, file')]_vars

-----------------------------------------------------------------------------
(* What the documents say and the code does not do.                         *)

\* "Lost-update guard: concurrent appends retry once on mtime conflict" (api/app/
\* inspiration.py), and "an update against a stale mtime is rejected as a conflict,
\* never silently authoritative" (api/app/collections_store.py): what add_link is
\* about to write extends the refs of the content with the guarding mtime.
LinksAreGuarded ==
    \A w \in Workers :
        pc[w] = "write" /\ job[w].op = "link" =>
            job[w].change.refs = versions[job[w].expected].refs \cup job[w].entry

\* transition is "the only path that may change status (PATCH rejects it)"
\* (api/app/collections_store.py): a PATCH, a hand-over or a link leaves the status
\* on disk as it was.
UpdatesKeepStatus ==
    [][\A w \in Workers :
         pc[w] = "write" /\ now' # now /\ pc'[w] = "idle"
           /\ job[w].op \in {"patch", "handover", "link"}
           => file'.status = file.status]_vars

\* A slug collision is "a validation error, never an overwrite"
\* (api/app/collections_store.py): a create writes only where there is no file.
CreateNeverOverwrites ==
    [][\A w \in Workers :
         pc[w] = "write" /\ now' # now /\ pc'[w] = "idle" /\ job[w].op = "create"
           => now = 0]_vars

=============================================================================
