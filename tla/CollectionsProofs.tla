------------------------- MODULE CollectionsProofs -------------------------
(***************************************************************************)
(* Proofs about Collections, for any set of threads and links and any      *)
(* number of writes.  The status on disk is not protected against          *)
(* overlapping calls, so the order of the lifecycle rests on where a call  *)
(* got its contract from: whatever it checked or merged was on disk once,  *)
(* and what it was allowed to do was decided on that content.              *)
(***************************************************************************)
EXTENDS Collections, TLAPS

\* What approve and retire checked was on disk, at the guarding mtime if there is one.
Checked(j) ==
    /\ \E i \in 1 .. now : j.before = versions[i] /\ (j.expected # Unguarded => i = j.expected)
    /\ j.op = "approve" => /\ j.before.status = "draft" /\ j.before.complete
                           /\ j.change = [status |-> "active"]
    /\ j.op = "retire" => /\ j.before.status = "active"
                          /\ j.change = [status |-> "retired"]

\* What is about to be merged was on disk, at the guarding mtime if there is one.
Based(j) ==
    /\ \E i \in 1 .. now : j.text = versions[i] /\ (j.expected # Unguarded => i = j.expected)
    /\ j.op \in {"patch", "handover", "link"} => Merge(j.text, j.change).status = j.text.status

CallOK(step, j) ==
    /\ j.expected <= now
    /\ step # "idle" => j.op # "none"
    /\ step = "exists" => j.op = "create"
    /\ j.op = "create" => j.change \in Drafts /\ j.expected = Unguarded
    /\ j.op \in {"approve", "retire"} => Checked(j)
    /\ step = "check" => \E i \in 1 .. now : j.text = versions[i] /\ j.expected <= i
    /\ step = "write" /\ j.op # "create" => Based(j)

IndInv ==
    /\ TypeOK
    /\ LifecycleOrder
    /\ \A w \in Workers : CallOK(pc[w], job[w])

-----------------------------------------------------------------------------
(* Types of the constructions.                                              *)

\* A merge of a patch onto a contract is a contract.
LEMMA MergeType ==
    ASSUME NEW text \in Contract, NEW change \in Patches \cup Handovers \cup Drafts
    PROVE  Merge(text, change) \in Contract
  <1> DEFINE m == Merge(text, change)
  <1>1. DOMAIN text = {"status", "complete", "refs"}
    BY DEF Contract
  <1>2. /\ text.status \in Statuses /\ text.complete \in BOOLEAN
        /\ text.refs \in SUBSET Links
    BY DEF Contract
  <1>3. /\ "status" \in DOMAIN change => change["status"] \in Statuses
        /\ "complete" \in DOMAIN change => change["complete"] \in BOOLEAN
        /\ "refs" \in DOMAIN change => change["refs"] \in SUBSET Links
    BY DEF Patches, Handovers, Drafts, Statuses
  <1>4. /\ m["status"] \in Statuses /\ m["complete"] \in BOOLEAN
        /\ m["refs"] \in SUBSET Links
    BY <1>1, <1>2, <1>3 DEF Merge
  <1>5. m = [status |-> m["status"], complete |-> m["complete"], refs |-> m["refs"]]
    BY <1>1 DEF Merge
  <1> QED BY <1>4, <1>5 DEF Contract

\* The status a merge yields.
LEMMA MergeStatus ==
    ASSUME NEW text \in Contract, NEW s \in Statuses
    PROVE  Merge(text, [status |-> s]).status = s
  BY DEF Merge, Contract

LEMMA DraftType == Drafts \subseteq Contract
  BY DEF Drafts, Contract, Statuses

LEMMA NoJobType == NoJob \in Job /\ NoJob.op = "none" /\ NoJob.expected = 0 /\ ~ NoJob.retried
  <1>1. AnyDraft \in Contract /\ AnyDraft \in Drafts
    BY DEF AnyDraft, Contract, Drafts, Statuses
  <1>2. 0 \in 0 .. MaxVersions
    BY CollectionsAssumption
  <1> QED BY <1>1, <1>2 DEF NoJob, Job, Unguarded

\* A call that is not running has nothing to account for.
LEMMA IdleOK ==
    ASSUME TypeOK
    PROVE  CallOK("idle", NoJob)
  BY NoJobType DEF CallOK, TypeOK, now

-----------------------------------------------------------------------------
(* Steps that leave the file as it is.                                      *)

\* Only the call that takes the step has to be looked at.
LEMMA QuietStep ==
    ASSUME IndInv, NEW w \in Workers, NEW step, NEW j \in Job,
           step \in {"idle", "exists", "refs", "refstat", "text", "check", "write"},
           j.retried \/ step \in {"refs", "refstat"} => j.op = "link",
           step \in {"refs", "refstat", "text", "check"} => now > 0,
           CallOK(step, j),
           pc' = [pc EXCEPT ![w] = step], job' = [job EXCEPT ![w] = j],
           UNCHANGED versions
    PROVE  IndInv'
  <1>1. TypeOK'
    BY DEF IndInv, TypeOK, now
  <1>2. LifecycleOrder'
    BY DEF IndInv, LifecycleOrder, now
  <1>3. ASSUME NEW v \in Workers
        PROVE  CallOK(pc[v], job[v])'
    <2>1. CallOK(pc'[v], job'[v])
      BY DEF IndInv, TypeOK
    <2> QED BY <2>1 DEF CallOK, Checked, Based, now
  <1> QED BY <1>1, <1>2, <1>3 DEF IndInv

\* What IndInv says of one call.
LEMMA CallFacts ==
    ASSUME IndInv, NEW w \in Workers
    PROVE  /\ job[w] \in Job /\ now \in Nat /\ now <= MaxVersions
           /\ \A i \in 1 .. now : versions[i] \in Contract
           /\ job[w].retried \/ pc[w] \in {"refs", "refstat"} => job[w].op = "link"
           /\ pc[w] \in {"refs", "refstat", "text", "check"} => now > 0
           /\ CallOK(pc[w], job[w])
  BY DEF IndInv, TypeOK, now

LEMMA BeginCreatePreserves ==
    ASSUME IndInv, NEW w \in Workers, NEW draft \in Drafts, BeginCreate(w, draft)
    PROVE  IndInv'
  <1> DEFINE j == [NoJob EXCEPT !.op = "create", !.change = draft]
  <1>1. j \in Job /\ j.op = "create" /\ j.change = draft /\ j.expected = 0 /\ ~ j.retried
    BY NoJobType DEF Job, NoJob
  <1>2. CallOK("exists", j)
    BY <1>1, CallFacts DEF CallOK, Unguarded
  <1> QED BY <1>1, <1>2, QuietStep DEF BeginCreate, Begins, Goto

LEMMA BeginPatchPreserves ==
    ASSUME IndInv, NEW w \in Workers, NEW change \in Patches, NEW guard \in Guards,
           BeginPatch(w, change, guard)
    PROVE  IndInv'
  <1> DEFINE j == [NoJob EXCEPT !.op = "patch", !.change = change, !.expected = guard]
  <1>1. guard \in 0 .. MaxVersions /\ guard <= now
    BY CallFacts, CollectionsAssumption DEF Guards, Unguarded
  <1>2. j \in Job /\ j.op = "patch" /\ j.expected = guard /\ ~ j.retried
    BY <1>1, NoJobType DEF Job, NoJob
  <1>3. CallOK("text", j)
    BY <1>1, <1>2 DEF CallOK
  <1> QED BY <1>2, <1>3, QuietStep DEF BeginPatch, Begins, Goto

LEMMA BeginHandoverPreserves ==
    ASSUME IndInv, NEW w \in Workers, NEW change \in Handovers, BeginHandover(w, change)
    PROVE  IndInv'
  <1> DEFINE j == [NoJob EXCEPT !.op = "handover", !.change = change]
  <1>1. j \in Job /\ j.op = "handover" /\ j.expected = 0 /\ ~ j.retried
    BY NoJobType DEF Job, NoJob
  <1>2. CallOK("text", j)
    BY <1>1, CallFacts DEF CallOK
  <1> QED BY <1>1, <1>2, QuietStep DEF BeginHandover, Begins, Goto

LEMMA BeginApprovePreserves ==
    ASSUME IndInv, NEW w \in Workers, NEW guard \in Guards, BeginApprove(w, guard)
    PROVE  IndInv'
  <1> DEFINE j == [NoJob EXCEPT !.op = "approve", !.change = [status |-> "active"],
                                !.before = file, !.expected = guard]
  <1>1. guard \in 0 .. MaxVersions /\ guard <= now /\ (guard # Unguarded => guard = now)
    BY CallFacts, CollectionsAssumption DEF Guards, Unguarded
  <1>2. file \in Contract /\ file = versions[now] /\ now \in 1 .. now
    BY CallFacts DEF BeginApprove, file
  <1>3. [status |-> "active"] \in Patches
    BY DEF Patches, Statuses
  <1>4. /\ j \in Job /\ j.op = "approve" /\ j.expected = guard /\ ~ j.retried
        /\ j.before = file /\ j.change = [status |-> "active"]
    BY <1>1, <1>2, <1>3, NoJobType DEF Job, NoJob
  <1>5. Checked(j)
    BY <1>1, <1>2, <1>4 DEF Checked, BeginApprove
  <1>6. CallOK("text", j)
    BY <1>1, <1>4, <1>5 DEF CallOK
  <1> QED BY <1>4, <1>6, QuietStep DEF BeginApprove, Begins, Goto

LEMMA BeginRetirePreserves ==
    ASSUME IndInv, NEW w \in Workers, NEW guard \in Guards, BeginRetire(w, guard)
    PROVE  IndInv'
  <1> DEFINE j == [NoJob EXCEPT !.op = "retire", !.change = [status |-> "retired"],
                                !.before = file, !.expected = guard]
  <1>1. guard \in 0 .. MaxVersions /\ guard <= now /\ (guard # Unguarded => guard = now)
    BY CallFacts, CollectionsAssumption DEF Guards, Unguarded
  <1>2. file \in Contract /\ file = versions[now] /\ now \in 1 .. now
    BY CallFacts DEF BeginRetire, file
  <1>3. [status |-> "retired"] \in Patches
    BY DEF Patches, Statuses
  <1>4. /\ j \in Job /\ j.op = "retire" /\ j.expected = guard /\ ~ j.retried
        /\ j.before = file /\ j.change = [status |-> "retired"]
    BY <1>1, <1>2, <1>3, NoJobType DEF Job, NoJob
  <1>5. Checked(j)
    BY <1>1, <1>2, <1>4 DEF Checked, BeginRetire
  <1>6. CallOK("text", j)
    BY <1>1, <1>4, <1>5 DEF CallOK
  <1> QED BY <1>4, <1>6, QuietStep DEF BeginRetire, Begins, Goto

LEMMA BeginLinkPreserves ==
    ASSUME IndInv, NEW w \in Workers, NEW l \in Links, BeginLink(w, l)
    PROVE  IndInv'
  <1> DEFINE j == [NoJob EXCEPT !.op = "link", !.entry = {l}]
  <1>1. j \in Job /\ j.op = "link" /\ j.expected = 0 /\ ~ j.retried
    BY NoJobType DEF Job, NoJob
  <1>2. CallOK("refs", j)
    BY <1>1, CallFacts DEF CallOK
  <1> QED BY <1>1, <1>2, QuietStep DEF BeginLink, Begins, Goto

LEMMA ReadRefsPreserves ==
    ASSUME IndInv, NEW w \in Workers, ReadRefs(w)
    PROVE  IndInv'
  <1> DEFINE c == [refs |-> file.refs \cup job[w].entry]
             j == [job[w] EXCEPT !.change = c, !.torn = FALSE]
  <1>1. job[w] \in Job /\ job[w].op = "link" /\ job[w].expected <= now /\ now > 0
    BY CallFacts DEF ReadRefs, CallOK
  <1>2. file \in Contract
    BY <1>1, CallFacts DEF file
  <1>3. c \in [{"refs"} -> SUBSET Links]
    BY <1>1, <1>2 DEF Contract, Job
  <1>4. j \in Job /\ j.op = "link" /\ j.expected <= now
    BY <1>1, <1>3 DEF Job, Patches
  <1>5. CallOK("refstat", j)
    BY <1>4 DEF CallOK
  <1>6. pc' = [pc EXCEPT ![w] = "refstat"] /\ job' = [job EXCEPT ![w] = j]
    BY DEF ReadRefs, Goto
  <1> QED BY <1>1, <1>4, <1>5, <1>6, QuietStep DEF ReadRefs

LEMMA StatRefsPreserves ==
    ASSUME IndInv, NEW w \in Workers, StatRefs(w)
    PROVE  IndInv'
  <1> DEFINE j == [job[w] EXCEPT !.expected = now]
  <1>1. job[w] \in Job /\ job[w].op = "link" /\ now > 0 /\ now \in 0 .. MaxVersions
    BY CallFacts DEF StatRefs
  <1>2. j \in Job /\ j.op = "link" /\ j.expected = now
    BY <1>1 DEF Job
  <1>3. CallOK("text", j)
    BY <1>1, <1>2 DEF CallOK
  <1>4. pc' = [pc EXCEPT ![w] = "text"] /\ job' = [job EXCEPT ![w] = j]
    BY DEF StatRefs, Goto
  <1> QED BY <1>1, <1>2, <1>3, <1>4, QuietStep DEF StatRefs

\* The end of a call, and every step that keeps its locals.
LEMMA EndsPreserves ==
    ASSUME IndInv, NEW w \in Workers, Ends(w), UNCHANGED versions
    PROVE  IndInv'
  <1>1. CallOK("idle", NoJob)
    BY IdleOK DEF IndInv
  <1> QED BY <1>1, NoJobType, QuietStep DEF Ends, Goto

LEMMA ExistsPreserves ==
    ASSUME IndInv, NEW w \in Workers, Exists(w)
    PROVE  IndInv'
  <1>1. CASE Ends(w)
    BY <1>1, EndsPreserves DEF Exists
  <1>2. CASE Goto(w, "write") /\ UNCHANGED job
    <2>1. job[w] \in Job /\ job[w].op = "create" /\ ~ job[w].retried
      BY CallFacts DEF Exists, CallOK
    <2>2. CallOK("write", job[w])
      BY <2>1, CallFacts DEF CallOK
    <2>3. pc' = [pc EXCEPT ![w] = "write"] /\ job' = [job EXCEPT ![w] = job[w]]
      BY <1>2 DEF Goto, IndInv, TypeOK
    <2> QED BY <2>1, <2>2, <2>3, QuietStep DEF Exists
  <1> QED BY <1>1, <1>2 DEF Exists

LEMMA ReadTextPreserves ==
    ASSUME IndInv, NEW w \in Workers, ReadText(w)
    PROVE  IndInv'
  <1> DEFINE j == [job[w] EXCEPT !.text = file]
  <1>1. /\ job[w] \in Job /\ now > 0 /\ now \in 1 .. now
        /\ CallOK("text", job[w])
        /\ job[w].retried => job[w].op = "link"
    BY CallFacts DEF ReadText
  <1>2. file \in Contract /\ file = versions[now]
    BY <1>1, CallFacts DEF file
  <1>3. /\ j \in Job /\ j.text = file /\ j.op = job[w].op /\ j.expected = job[w].expected
        /\ j.change = job[w].change /\ j.before = job[w].before /\ j.retried = job[w].retried
    BY <1>1, <1>2 DEF Job
  <1>4. Checked(job[w]) => Checked(j)
    BY <1>3 DEF Checked
  <1>5. CallOK("check", j)
    BY <1>1, <1>2, <1>3, <1>4 DEF CallOK
  <1>6. pc' = [pc EXCEPT ![w] = "check"] /\ job' = [job EXCEPT ![w] = j]
    BY DEF ReadText, Goto
  <1> QED BY <1>1, <1>3, <1>5, <1>6, QuietStep DEF ReadText

LEMMA CheckPreserves ==
    ASSUME IndInv, NEW w \in Workers, Check(w)
    PROVE  IndInv'
  <1>1. /\ job[w] \in Job /\ now > 0 /\ now \in Nat
        /\ CallOK("check", job[w])
        /\ job[w].retried => job[w].op = "link"
    BY CallFacts DEF Check
  <1>2. CASE Ends(w)
    BY <1>2, EndsPreserves DEF Check
  <1>3. CASE Goto(w, "refs") /\ job[w].op = "link"
             /\ job' = [job EXCEPT ![w].retried = TRUE, ![w].alone = TRUE]
    <2> DEFINE j == [job[w] EXCEPT !.retried = TRUE, !.alone = TRUE]
    <2>1. j \in Job /\ j.op = "link" /\ j.expected = job[w].expected
      BY <1>1, <1>3 DEF Job
    <2>2. CallOK("refs", j)
      BY <1>1, <2>1 DEF CallOK
    <2>3. pc' = [pc EXCEPT ![w] = "refs"] /\ job' = [job EXCEPT ![w] = j]
      BY <1>3 DEF Goto
    <2> QED BY <1>1, <2>1, <2>2, <2>3, QuietStep DEF Check
  <1>4. CASE ~ Conflicts(w) /\ ~ ChangesStatus(w) /\ Goto(w, "write") /\ UNCHANGED job
    <2>1. \E i \in 1 .. now : job[w].text = versions[i]
                              /\ (job[w].expected # Unguarded => i = job[w].expected)
      BY <1>1, <1>4 DEF CallOK, Conflicts, Job, Unguarded
    <2>2. CallOK("write", job[w])
      BY <1>1, <1>4, <2>1 DEF CallOK, Based, ChangesStatus
    <2>3. pc' = [pc EXCEPT ![w] = "write"] /\ job' = [job EXCEPT ![w] = job[w]]
      BY <1>4 DEF Goto, IndInv, TypeOK
    <2> QED BY <1>1, <2>2, <2>3, QuietStep DEF Check
  <1> QED BY <1>2, <1>3, <1>4 DEF Check

LEMMA FailsPreserves ==
    ASSUME IndInv, NEW w \in Workers, Fails(w)
    PROVE  IndInv'
  BY EndsPreserves DEF Fails

-----------------------------------------------------------------------------
(* The write.                                                               *)

\* What a call writes is a contract, and its status is justified by what was on disk.
LEMMA WrittenRecord ==
    ASSUME IndInv, NEW w \in Workers, pc[w] = "write"
    PROVE  /\ Record(w) \in Contract
           /\ Record(w).status = "active" =>
                \E j \in 1 .. now : versions[j].status = "draft" /\ versions[j].complete
           /\ Record(w).status = "retired" =>
                \E j \in 1 .. now : versions[j].status = "active"
  <1>1. job[w] \in Job /\ CallOK("write", job[w]) /\ now \in Nat
    BY CallFacts
  <1>2. CASE job[w].op = "create"
    BY <1>1, <1>2, DraftType DEF CallOK, Record, Drafts
  <1>3. CASE job[w].op # "create"
    <2>1. /\ Record(w) = Merge(job[w].text, job[w].change)
          /\ job[w].text \in Contract
          /\ job[w].change \in Patches \cup Handovers \cup Drafts
      BY <1>1, <1>3 DEF Record, Job
    <2>2. Record(w) \in Contract
      BY <2>1, MergeType
    <2>3. CASE job[w].op = "approve"
      <3>1. Record(w).status = "active"
        BY <1>1, <2>1, <2>3, MergeStatus DEF CallOK, Checked, Statuses
      <3>2. \E j \in 1 .. now : versions[j].status = "draft" /\ versions[j].complete
        BY <1>1, <2>3 DEF CallOK, Checked
      <3> QED BY <2>2, <3>1, <3>2
    <2>4. CASE job[w].op = "retire"
      <3>1. Record(w).status = "retired"
        BY <1>1, <2>1, <2>4, MergeStatus DEF CallOK, Checked, Statuses
      <3>2. \E j \in 1 .. now : versions[j].status = "active"
        BY <1>1, <2>4 DEF CallOK, Checked
      <3> QED BY <2>2, <3>1, <3>2
    <2>5. CASE job[w].op \in {"patch", "handover", "link"}
      <3>1. PICK i \in 1 .. now : Record(w).status = versions[i].status
        BY <1>1, <1>3, <2>1, <2>5 DEF CallOK, Based
      <3>2. /\ versions[i].status = "active" =>
                 \E j \in 1 .. i - 1 : versions[j].status = "draft" /\ versions[j].complete
            /\ versions[i].status = "retired" =>
                 \E j \in 1 .. i - 1 : versions[j].status = "active"
        BY <1>1 DEF IndInv, LifecycleOrder
      <3>3. 1 .. i - 1 \subseteq 1 .. now
        BY <1>1
      <3> QED BY <2>2, <3>1, <3>2, <3>3
    <2> QED BY <1>1, <1>3, <2>3, <2>4, <2>5 DEF Job, CallOK
  <1> QED BY <1>2, <1>3

\* A write touches nothing but the histories of the calls it overlaps.
LEMMA OverlappedFacts ==
    ASSUME IndInv, NEW v \in Workers
    PROVE  /\ Overlapped(v) \in Job
           /\ Overlapped(v).op = job[v].op /\ Overlapped(v).expected = job[v].expected
           /\ Overlapped(v).change = job[v].change /\ Overlapped(v).before = job[v].before
           /\ Overlapped(v).text = job[v].text /\ Overlapped(v).entry = job[v].entry
           /\ Overlapped(v).retried = job[v].retried
           /\ ~ Overlapped(v).alone
           /\ pc[v] = "refstat" \/ job[v].torn => Overlapped(v).torn
  <1>1. job[v] \in Job
    BY CallFacts
  <1> QED BY <1>1 DEF Job, Overlapped

LEMMA WritePreserves ==
    ASSUME IndInv, NEW w \in Workers, Write(w)
    PROVE  IndInv'
  <1>1. /\ versions \in Seq(Contract) /\ now \in Nat /\ now < MaxVersions
        /\ Record(w) \in Contract
    BY WrittenRecord DEF Write, IndInv, TypeOK, now
  <1>2. /\ versions' \in Seq(Contract) /\ now' = now + 1
        /\ versions'[now + 1] = Record(w)
        /\ \A i \in 1 .. now : versions'[i] = versions[i]
    BY <1>1 DEF Write, now
  <1>3. ASSUME NEW v \in Workers
        PROVE  \/ pc'[v] = "idle" /\ job'[v] = NoJob
               \/ pc'[v] = pc[v] /\ job'[v] = Overlapped(v)
    BY DEF Write, Goto, IndInv, TypeOK
  <1>4. TypeOK'
    <2>1. pc' \in [Workers -> {"idle", "exists", "refs", "refstat", "text", "check", "write"}]
      BY DEF Write, Goto, IndInv, TypeOK
    <2>2. ASSUME NEW v \in Workers
          PROVE  /\ job'[v] \in Job
                 /\ job'[v].retried \/ pc'[v] \in {"refs", "refstat"} => job'[v].op = "link"
      <3> QED BY <1>3, OverlappedFacts, NoJobType, CallFacts
    <2>3. job' = [v \in Workers |-> job'[v]]
      BY DEF Write
    <2>4. job' \in [Workers -> Job]
      BY <2>2, <2>3
    <2>5. now' > 0 /\ now' <= MaxVersions
      BY <1>1, <1>2, CollectionsAssumption
    <2> QED BY <1>2, <2>1, <2>2, <2>4, <2>5 DEF TypeOK
  <1>5. LifecycleOrder'
    <2>1. ASSUME NEW k \in 1 .. now + 1
          PROVE  /\ versions'[k].status = "active" =>
                      \E j \in 1 .. k - 1 :
                         versions'[j].status = "draft" /\ versions'[j].complete
                 /\ versions'[k].status = "retired" =>
                      \E j \in 1 .. k - 1 : versions'[j].status = "active"
      <3>1. CASE k = now + 1
        <4>1. 1 .. k - 1 = 1 .. now /\ versions'[k] = Record(w)
          BY <1>1, <1>2, <3>1
        <4>2. /\ Record(w).status = "active" =>
                   \E j \in 1 .. now : versions[j].status = "draft" /\ versions[j].complete
              /\ Record(w).status = "retired" =>
                   \E j \in 1 .. now : versions[j].status = "active"
          BY WrittenRecord DEF Write
        <4> QED BY <1>2, <4>1, <4>2
      <3>2. CASE k \in 1 .. now
        <4>1. /\ versions[k].status = "active" =>
                   \E j \in 1 .. k - 1 : versions[j].status = "draft" /\ versions[j].complete
              /\ versions[k].status = "retired" =>
                   \E j \in 1 .. k - 1 : versions[j].status = "active"
          BY <3>2 DEF IndInv, LifecycleOrder
        <4>2. \A j \in 1 .. k - 1 : versions'[j] = versions[j]
          BY <1>1, <1>2, <3>2
        <4> QED BY <1>2, <3>2, <4>1, <4>2
      <3> QED BY <1>1, <3>1, <3>2
    <2> QED BY <1>2, <2>1 DEF LifecycleOrder
  <1>6. ASSUME NEW v \in Workers
        PROVE  CallOK(pc[v], job[v])'
    <2>1. CASE pc'[v] = "idle" /\ job'[v] = NoJob
      BY <1>1, <1>2, <2>1, NoJobType DEF CallOK, now
    <2>2. CASE pc'[v] = pc[v] /\ job'[v] = Overlapped(v)
      <3> DEFINE j == job'[v]
      <3>1. job[v] \in Job /\ CallOK(pc[v], job[v])
        BY CallFacts
      <3>2. /\ j.op = job[v].op /\ j.expected = job[v].expected /\ j.change = job[v].change
            /\ j.before = job[v].before /\ j.text = job[v].text
        BY <2>2, OverlappedFacts
      <3>3. 1 .. now \subseteq 1 .. now + 1
        BY <1>1
      <3>4. Checked(job[v]) => Checked(job[v])'
        BY <1>2, <3>2, <3>3 DEF Checked
      <3>5. Based(job[v]) => Based(job[v])'
        BY <1>2, <3>2, <3>3 DEF Based, Merge
      <3>6. job[v].expected <= now + 1
        BY <1>1, <3>1 DEF CallOK, Job
      <3> QED BY <1>2, <2>2, <3>1, <3>2, <3>3, <3>4, <3>5, <3>6 DEF CallOK
    <2> QED BY <1>3, <2>1, <2>2
  <1> QED BY <1>4, <1>5, <1>6 DEF IndInv

-----------------------------------------------------------------------------
(* The theorems.                                                            *)

THEOREM Invariance == Spec => []IndInv
  <1>1. Init => IndInv
    <2> SUFFICES ASSUME Init PROVE IndInv
      OBVIOUS
    <2>1. now = 0 /\ versions \in Seq(Contract)
      BY DEF Init, now
    <2>2. TypeOK
      BY <2>1, NoJobType, CollectionsAssumption DEF Init, TypeOK
    <2>3. LifecycleOrder
      BY <2>1 DEF LifecycleOrder
    <2>4. \A w \in Workers : CallOK(pc[w], job[w])
      BY <2>2, IdleOK DEF Init
    <2> QED BY <2>2, <2>3, <2>4 DEF IndInv
  <1>2. IndInv /\ [Next]_vars => IndInv'
    <2> SUFFICES ASSUME IndInv, [Next]_vars PROVE IndInv'
      OBVIOUS
    <2>1. CASE UNCHANGED vars
      BY <2>1 DEF vars, IndInv, TypeOK, LifecycleOrder, CallOK, Checked, Based, now
    <2>2. CASE Next
      <3> PICK w \in Workers :
            \/ \E draft \in Drafts : BeginCreate(w, draft)
            \/ \E change \in Patches, guard \in Guards : BeginPatch(w, change, guard)
            \/ \E change \in Handovers : BeginHandover(w, change)
            \/ \E guard \in Guards : BeginApprove(w, guard)
            \/ \E guard \in Guards : BeginRetire(w, guard)
            \/ \E l \in Links : BeginLink(w, l)
            \/ ReadRefs(w) \/ StatRefs(w)
            \/ Exists(w) \/ ReadText(w) \/ Check(w) \/ Write(w)
            \/ Fails(w)
        BY <2>2 DEF Next
      <3> QED
        BY BeginCreatePreserves, BeginPatchPreserves, BeginHandoverPreserves,
           BeginApprovePreserves, BeginRetirePreserves, BeginLinkPreserves,
           ReadRefsPreserves, StatRefsPreserves, ExistsPreserves, ReadTextPreserves,
           CheckPreserves, WritePreserves, FailsPreserves
    <2> QED BY <2>1, <2>2
  <1> QED BY <1>1, <1>2, PTL DEF Spec

\* Every variable keeps its type.
THEOREM TypeCorrect == Spec => []TypeOK
  <1>1. IndInv => TypeOK
    BY DEF IndInv
  <1> QED BY <1>1, Invariance, PTL

\* Nothing is active that was not a complete draft, nothing retired that was not
\* active, in every interleaving of calls (approve_collection, retire_collection).
THEOREM LifecycleInOrder == Spec => []LifecycleOrder
  <1>1. IndInv => LifecycleOrder
    BY DEF IndInv
  <1> QED BY <1>1, Invariance, PTL

-----------------------------------------------------------------------------
(* The guard of add_link.                                                   *)

\* The refs of a link extend those of the content whose mtime was read, if no write
\* fell between the two readings.
Extends(step, j) ==
    j.op = "link" /\ ~ j.torn =>
        /\ step = "refstat" => j.change = [refs |-> versions[now].refs \cup j.entry]
        /\ step \in {"text", "check", "write"} =>
             /\ j.expected \in 1 .. now
             /\ j.change = [refs |-> versions[j.expected].refs \cup j.entry]

AllExtend == \A w \in Workers : Extends(pc[w], job[w])

LEMMA QuietExtends ==
    ASSUME IndInv, AllExtend, NEW w \in Workers, NEW step, NEW j, Extends(step, j),
           pc' = [pc EXCEPT ![w] = step], job' = [job EXCEPT ![w] = j], UNCHANGED versions
    PROVE  AllExtend'
  <1>1. \A v \in Workers : Extends(pc'[v], job'[v])
    BY DEF IndInv, TypeOK, AllExtend
  <1> QED BY <1>1 DEF AllExtend, Extends, now

LEMMA EndsExtends ==
    ASSUME IndInv, AllExtend, NEW w \in Workers, Ends(w), UNCHANGED versions
    PROVE  AllExtend'
  <1>1. Extends("idle", NoJob)
    BY DEF Extends
  <1> QED BY <1>1, QuietExtends DEF Ends, Goto

\* Every call but add_link begins without refs to guard.
LEMMA BeginsExtends ==
    ASSUME IndInv, AllExtend, NEW w \in Workers, NEW step \in {"exists", "text", "refs"}, NEW j,
           Begins(w, step, j), j.op = "link" => step = "refs"
    PROVE  AllExtend'
  <1>1. Extends(step, j)
    BY DEF Extends
  <1> QED BY <1>1, QuietExtends DEF Begins, Goto

LEMMA BeginningsExtend ==
    ASSUME IndInv, AllExtend, NEW w \in Workers,
           \/ \E draft \in Drafts : BeginCreate(w, draft)
           \/ \E change \in Patches, guard \in Guards : BeginPatch(w, change, guard)
           \/ \E change \in Handovers : BeginHandover(w, change)
           \/ \E guard \in Guards : BeginApprove(w, guard) \/ BeginRetire(w, guard)
           \/ \E l \in Links : BeginLink(w, l)
    PROVE  AllExtend'
  <1>1. ASSUME NEW draft \in Drafts, BeginCreate(w, draft) PROVE AllExtend'
    <2> DEFINE j == [NoJob EXCEPT !.op = "create", !.change = draft]
    <2>1. j.op = "create"
      BY DEF NoJob
    <2> QED BY <1>1, <2>1, BeginsExtends DEF BeginCreate
  <1>2. ASSUME NEW change \in Patches, NEW guard \in Guards, BeginPatch(w, change, guard)
        PROVE  AllExtend'
    <2> DEFINE j == [NoJob EXCEPT !.op = "patch", !.change = change, !.expected = guard]
    <2>1. j.op = "patch"
      BY DEF NoJob
    <2> QED BY <1>2, <2>1, BeginsExtends DEF BeginPatch
  <1>3. ASSUME NEW change \in Handovers, BeginHandover(w, change) PROVE AllExtend'
    <2> DEFINE j == [NoJob EXCEPT !.op = "handover", !.change = change]
    <2>1. j.op = "handover"
      BY DEF NoJob
    <2> QED BY <1>3, <2>1, BeginsExtends DEF BeginHandover
  <1>4. ASSUME NEW guard \in Guards, BeginApprove(w, guard) PROVE AllExtend'
    <2> DEFINE j == [NoJob EXCEPT !.op = "approve", !.change = [status |-> "active"],
                                  !.before = file, !.expected = guard]
    <2>1. j.op = "approve"
      BY DEF NoJob
    <2> QED BY <1>4, <2>1, BeginsExtends DEF BeginApprove
  <1>5. ASSUME NEW guard \in Guards, BeginRetire(w, guard) PROVE AllExtend'
    <2> DEFINE j == [NoJob EXCEPT !.op = "retire", !.change = [status |-> "retired"],
                                  !.before = file, !.expected = guard]
    <2>1. j.op = "retire"
      BY DEF NoJob
    <2> QED BY <1>5, <2>1, BeginsExtends DEF BeginRetire
  <1>6. ASSUME NEW l \in Links, BeginLink(w, l) PROVE AllExtend'
    <2> QED BY <1>6, BeginsExtends DEF BeginLink
  <1> QED BY <1>1, <1>2, <1>3, <1>4, <1>5, <1>6

\* The two readings, and the reading of the store.
LEMMA ReadingExtends ==
    ASSUME IndInv, AllExtend, NEW w \in Workers, ReadRefs(w) \/ StatRefs(w) \/ ReadText(w)
    PROVE  AllExtend'
  <1>1. /\ job[w] \in Job /\ Extends(pc[w], job[w]) /\ now \in Nat
        /\ pc[w] \in {"refs", "refstat", "text"} => now > 0
    BY CallFacts DEF AllExtend
  <1>2. CASE ReadRefs(w)
    <2> DEFINE c == [refs |-> file.refs \cup job[w].entry]
               j == [job[w] EXCEPT !.change = c, !.torn = FALSE]
    <2>1. j.change = c /\ j.entry = job[w].entry
      BY <1>1 DEF Job
    <2>2. pc' = [pc EXCEPT ![w] = "refstat"] /\ job' = [job EXCEPT ![w] = j] /\ UNCHANGED versions
      BY <1>2 DEF ReadRefs, Goto
    <2> HIDE DEF j
    <2>3. Extends("refstat", j)
      BY <2>1 DEF Extends, file
    <2> QED BY <2>2, <2>3, QuietExtends
  <1>3. CASE StatRefs(w)
    <2> DEFINE j == [job[w] EXCEPT !.expected = now]
    <2>1. pc[w] = "refstat" /\ now \in 1 .. now
      BY <1>1, <1>3 DEF StatRefs
    <2>2. /\ j.change = job[w].change /\ j.op = job[w].op /\ j.entry = job[w].entry
          /\ j.torn = job[w].torn /\ j.expected = now
      BY <1>1 DEF Job
    <2>3. pc' = [pc EXCEPT ![w] = "text"] /\ job' = [job EXCEPT ![w] = j] /\ UNCHANGED versions
      BY <1>3 DEF StatRefs, Goto
    <2> HIDE DEF j
    <2>4. Extends("text", j)
      BY <1>1, <2>1, <2>2 DEF Extends
    <2> QED BY <2>3, <2>4, QuietExtends
  <1>4. CASE ReadText(w)
    <2> DEFINE j == [job[w] EXCEPT !.text = file]
    <2>1. pc[w] = "text"
      BY <1>4 DEF ReadText
    <2>2. /\ j.change = job[w].change /\ j.op = job[w].op /\ j.entry = job[w].entry
          /\ j.torn = job[w].torn /\ j.expected = job[w].expected
      BY <1>1 DEF Job
    <2>3. pc' = [pc EXCEPT ![w] = "check"] /\ job' = [job EXCEPT ![w] = j] /\ UNCHANGED versions
      BY <1>4 DEF ReadText, Goto
    <2> HIDE DEF j
    <2>4. Extends("check", j)
      BY <1>1, <2>1, <2>2 DEF Extends
    <2> QED BY <2>3, <2>4, QuietExtends
  <1> QED BY <1>2, <1>3, <1>4

\* The steps that decide.
LEMMA CheckingExtends ==
    ASSUME IndInv, AllExtend, NEW w \in Workers, Exists(w) \/ Check(w)
    PROVE  AllExtend'
  <1>1. Extends(pc[w], job[w]) /\ UNCHANGED versions /\ job = [job EXCEPT ![w] = job[w]]
    BY DEF AllExtend, IndInv, TypeOK, Exists, Check
  <1>2. CASE Ends(w)
    BY <1>1, <1>2, EndsExtends
  <1>3. CASE Goto(w, "write") /\ UNCHANGED job /\ pc[w] \in {"exists", "check"}
    <2>1. pc[w] = "exists" => job[w].op = "create"
      BY CallFacts DEF CallOK
    <2>2. Extends("write", job[w])
      BY <1>1, <1>3, <2>1 DEF Extends
    <2> QED BY <1>1, <1>3, <2>2, QuietExtends DEF Goto
  <1>4. CASE Goto(w, "refs") /\ job' = [job EXCEPT ![w].retried = TRUE, ![w].alone = TRUE]
    <2> DEFINE j == [job[w] EXCEPT !.retried = TRUE, !.alone = TRUE]
    <2>1. pc' = [pc EXCEPT ![w] = "refs"] /\ job' = [job EXCEPT ![w] = j]
      BY <1>4 DEF Goto
    <2> HIDE DEF j
    <2>2. Extends("refs", j)
      BY DEF Extends
    <2> QED BY <1>1, <2>1, <2>2, QuietExtends
  <1> QED BY <1>2, <1>3, <1>4 DEF Exists, Check

\* A write between the two readings of a link is remembered in its history.
LEMMA WriteExtends ==
    ASSUME IndInv, AllExtend, NEW w \in Workers, Write(w)
    PROVE  AllExtend'
  <1>1. /\ versions \in Seq(Contract) /\ now \in Nat /\ Record(w) \in Contract
    BY WrittenRecord DEF Write, IndInv, TypeOK, now
  <1>2. now' = now + 1 /\ \A i \in 1 .. now : versions'[i] = versions[i]
    BY <1>1 DEF Write, now
  <1>3. ASSUME NEW v \in Workers PROVE Extends(pc[v], job[v])'
    <2>1. \/ pc'[v] = "idle"
          \/ pc'[v] = pc[v] /\ job'[v] = Overlapped(v)
      BY DEF Write, Goto, IndInv, TypeOK
    <2>2. CASE pc'[v] = "idle"
      BY <2>2 DEF Extends
    <2>3. CASE pc'[v] = pc[v] /\ job'[v] = Overlapped(v)
      <3>1. Extends(pc[v], job[v])
        BY DEF AllExtend
      <3>2. /\ job'[v].op = job[v].op /\ job'[v].expected = job[v].expected
            /\ job'[v].change = job[v].change /\ job'[v].entry = job[v].entry
            /\ ~ job'[v].torn => ~ job[v].torn /\ pc[v] # "refstat"
        BY <2>3, OverlappedFacts
      <3>3. 1 .. now \subseteq 1 .. now + 1
        BY <1>1
      <3> QED BY <1>2, <2>3, <3>1, <3>2, <3>3 DEF Extends
    <2> QED BY <2>1, <2>2, <2>3
  <1> QED BY <1>3 DEF AllExtend

LEMMA ExtendStep ==
    ASSUME IndInv, AllExtend, [Next]_vars
    PROVE  AllExtend'
  <1>1. CASE UNCHANGED vars
    BY <1>1 DEF vars, AllExtend, Extends, now
  <1>2. CASE Next
    <2>1. PICK w \in Workers :
            \/ \E draft \in Drafts : BeginCreate(w, draft)
            \/ \E change \in Patches, guard \in Guards : BeginPatch(w, change, guard)
            \/ \E change \in Handovers : BeginHandover(w, change)
            \/ \E guard \in Guards : BeginApprove(w, guard)
            \/ \E guard \in Guards : BeginRetire(w, guard)
            \/ \E l \in Links : BeginLink(w, l)
            \/ ReadRefs(w) \/ StatRefs(w)
            \/ Exists(w) \/ ReadText(w) \/ Check(w) \/ Write(w)
            \/ Fails(w)
      BY <1>2 DEF Next
    <2>2. CASE Fails(w)
      BY <2>2, EndsExtends DEF Fails
    <2> QED BY <2>1, <2>2, BeginningsExtend, ReadingExtends, CheckingExtends, WriteExtends
  <1> QED BY <1>1, <1>2

\* A guarded call that is about to write changes the content with the guarding
\* mtime, which is what its router checked and what add_link took its refs from, if
\* no write fell between its two readings (update, transition, add_link).
THEOREM GuardHolds == Spec => []GuardedWriteHasItsBase
  <1>1. ASSUME IndInv, AllExtend, NEW w \in Workers, pc[w] = "write",
               job[w].expected # Unguarded
        PROVE  /\ job[w].text = versions[job[w].expected]
               /\ job[w].op \in {"approve", "retire"}
                    => job[w].before = versions[job[w].expected]
               /\ job[w].op = "link" /\ ~ job[w].torn
                    => job[w].change.refs = versions[job[w].expected].refs \cup job[w].entry
    <2>1. CallOK("write", job[w]) /\ Extends("write", job[w])
      BY <1>1, CallFacts DEF AllExtend
    <2>2. job[w].op = "create" => job[w].expected = Unguarded
      BY <2>1 DEF CallOK
    <2>3. Based(job[w])
      BY <1>1, <2>1, <2>2 DEF CallOK
    <2>4. job[w].text = versions[job[w].expected]
      BY <1>1, <2>3 DEF Based
    <2>5. job[w].op \in {"approve", "retire"} => job[w].before = versions[job[w].expected]
      BY <1>1, <2>1 DEF CallOK, Checked
    <2>6. job[w].op = "link" /\ ~ job[w].torn
            => job[w].change.refs = versions[job[w].expected].refs \cup job[w].entry
      BY <2>1 DEF Extends
    <2> QED BY <2>4, <2>5, <2>6
  <1>2. IndInv /\ AllExtend => GuardedWriteHasItsBase
    BY <1>1 DEF GuardedWriteHasItsBase
  <1>3. Init => AllExtend
    BY DEF Init, AllExtend, Extends
  <1>4. IndInv /\ AllExtend /\ [Next]_vars => AllExtend'
    BY ExtendStep
  <1> QED BY <1>2, <1>3, <1>4, Invariance, PTL DEF Spec

-----------------------------------------------------------------------------
(* Calls that nobody overlaps.                                              *)

\* A call that no other write overlapped works on what is on disk now.
Undisturbed(step, j) ==
    j.alone /\ step # "idle" =>
        /\ j.op \in {"approve", "retire"} => j.before = file
        /\ j.op # "create" /\ step \in {"check", "write"} => j.text = file
        /\ j.op = "link" /\ step \in {"refstat", "text", "check", "write"} =>
             j.change = [refs |-> file.refs \cup j.entry]
        /\ j.op = "create" /\ step = "write" => now = 0
        /\ step \in {"text", "check"} => j.op # "create"

AllUndisturbed == \A w \in Workers : Undisturbed(pc[w], job[w])

\* A step that leaves the file alone: only the call that takes it has to be looked at.
LEMMA QuietUndisturbed ==
    ASSUME IndInv, AllUndisturbed, NEW w \in Workers, NEW step, NEW j, Undisturbed(step, j),
           pc' = [pc EXCEPT ![w] = step], job' = [job EXCEPT ![w] = j], UNCHANGED versions
    PROVE  AllUndisturbed'
  <1>1. \A v \in Workers : Undisturbed(pc'[v], job'[v])
    BY DEF IndInv, TypeOK, AllUndisturbed
  <1> QED BY <1>1 DEF AllUndisturbed, Undisturbed, file, now

LEMMA EndsUndisturbed ==
    ASSUME IndInv, AllUndisturbed, NEW w \in Workers, Ends(w), UNCHANGED versions
    PROVE  AllUndisturbed'
  <1>1. Undisturbed("idle", NoJob)
    BY DEF Undisturbed
  <1> QED BY <1>1, QuietUndisturbed DEF Ends, Goto

LEMMA BeginsUndisturbed ==
    ASSUME IndInv, AllUndisturbed, NEW w \in Workers, NEW step \in {"exists", "text", "refs"}, NEW j,
           Begins(w, step, j), j.op \in {"approve", "retire"} => j.before = file,
           j.op = "link" => step = "refs", step = "text" => j.op # "create"
    PROVE  AllUndisturbed'
  <1>1. Undisturbed(step, j)
    BY DEF Undisturbed
  <1> QED BY <1>1, QuietUndisturbed DEF Begins, Goto

LEMMA BeginningsUndisturbed ==
    ASSUME IndInv, AllUndisturbed, NEW w \in Workers,
           \/ \E draft \in Drafts : BeginCreate(w, draft)
           \/ \E change \in Patches, guard \in Guards : BeginPatch(w, change, guard)
           \/ \E change \in Handovers : BeginHandover(w, change)
           \/ \E guard \in Guards : BeginApprove(w, guard) \/ BeginRetire(w, guard)
           \/ \E l \in Links : BeginLink(w, l)
    PROVE  AllUndisturbed'
  <1>1. ASSUME NEW draft \in Drafts, BeginCreate(w, draft) PROVE AllUndisturbed'
    <2> DEFINE j == [NoJob EXCEPT !.op = "create", !.change = draft]
    <2>1. j.op = "create"
      BY DEF NoJob
    <2> QED BY <1>1, <2>1, BeginsUndisturbed DEF BeginCreate
  <1>2. ASSUME NEW change \in Patches, NEW guard \in Guards, BeginPatch(w, change, guard)
        PROVE  AllUndisturbed'
    <2> DEFINE j == [NoJob EXCEPT !.op = "patch", !.change = change, !.expected = guard]
    <2>1. j.op = "patch"
      BY DEF NoJob
    <2> QED BY <1>2, <2>1, BeginsUndisturbed DEF BeginPatch
  <1>3. ASSUME NEW change \in Handovers, BeginHandover(w, change) PROVE AllUndisturbed'
    <2> DEFINE j == [NoJob EXCEPT !.op = "handover", !.change = change]
    <2>1. j.op = "handover"
      BY DEF NoJob
    <2> QED BY <1>3, <2>1, BeginsUndisturbed DEF BeginHandover
  <1>4. ASSUME NEW guard \in Guards, BeginApprove(w, guard) PROVE AllUndisturbed'
    <2> DEFINE j == [NoJob EXCEPT !.op = "approve", !.change = [status |-> "active"],
                                  !.before = file, !.expected = guard]
    <2>1. j.op = "approve" /\ j.before = file
      BY DEF NoJob
    <2> QED BY <1>4, <2>1, BeginsUndisturbed DEF BeginApprove
  <1>5. ASSUME NEW guard \in Guards, BeginRetire(w, guard) PROVE AllUndisturbed'
    <2> DEFINE j == [NoJob EXCEPT !.op = "retire", !.change = [status |-> "retired"],
                                  !.before = file, !.expected = guard]
    <2>1. j.op = "retire" /\ j.before = file
      BY DEF NoJob
    <2> QED BY <1>5, <2>1, BeginsUndisturbed DEF BeginRetire
  <1>6. ASSUME NEW l \in Links, BeginLink(w, l) PROVE AllUndisturbed'
    <2> DEFINE j == [NoJob EXCEPT !.op = "link", !.entry = {l}]
    <2>1. j.op = "link"
      BY DEF NoJob
    <2> QED BY <1>6, <2>1, BeginsUndisturbed DEF BeginLink
  <1> QED BY <1>1, <1>2, <1>3, <1>4, <1>5, <1>6

\* The steps that read the file.
LEMMA ReadingUndisturbed ==
    ASSUME IndInv, AllUndisturbed, NEW w \in Workers, ReadRefs(w) \/ StatRefs(w) \/ ReadText(w)
    PROVE  AllUndisturbed'
  <1>1. job[w] \in Job /\ Undisturbed(pc[w], job[w])
    BY CallFacts DEF AllUndisturbed
  <1>2. CASE ReadRefs(w)
    <2> DEFINE c == [refs |-> file.refs \cup job[w].entry]
               j == [job[w] EXCEPT !.change = c, !.torn = FALSE]
    <2>1. job[w].op = "link"
      BY <1>2, CallFacts DEF ReadRefs
    <2>2. /\ j.change = c /\ j.op = "link" /\ j.entry = job[w].entry
      BY <1>1, <2>1 DEF Job
    <2>3. pc' = [pc EXCEPT ![w] = "refstat"] /\ job' = [job EXCEPT ![w] = j] /\ UNCHANGED versions
      BY <1>2 DEF ReadRefs, Goto
    <2>4. Undisturbed("refstat", j)
      BY <2>2 DEF Undisturbed
    <2> HIDE DEF j
    <2> QED BY <2>3, <2>4, QuietUndisturbed
  <1>3. CASE StatRefs(w)
    <2> DEFINE j == [job[w] EXCEPT !.expected = now]
    <2>1. pc[w] = "refstat" /\ job[w].op = "link"
      BY <1>3, CallFacts DEF StatRefs
    <2>2. j.change = job[w].change /\ j.op = "link" /\ j.entry = job[w].entry /\ j.alone = job[w].alone
      BY <1>1, <2>1 DEF Job
    <2>3. pc' = [pc EXCEPT ![w] = "text"] /\ job' = [job EXCEPT ![w] = j] /\ UNCHANGED versions
      BY <1>3 DEF StatRefs, Goto
    <2> HIDE DEF j
    <2>4. Undisturbed("text", j)
      BY <1>1, <2>1, <2>2 DEF Undisturbed
    <2> QED BY <2>3, <2>4, QuietUndisturbed
  <1>4. CASE ReadText(w)
    <2> DEFINE j == [job[w] EXCEPT !.text = file]
    <2>1. pc[w] = "text"
      BY <1>4 DEF ReadText
    <2>2. /\ j.change = job[w].change /\ j.op = job[w].op /\ j.entry = job[w].entry
          /\ j.alone = job[w].alone /\ j.before = job[w].before /\ j.text = file
      BY <1>1 DEF Job
    <2>3. pc' = [pc EXCEPT ![w] = "check"] /\ job' = [job EXCEPT ![w] = j] /\ UNCHANGED versions
      BY <1>4 DEF ReadText, Goto
    <2> HIDE DEF j
    <2>4. Undisturbed("check", j)
      BY <1>1, <2>1, <2>2 DEF Undisturbed
    <2> QED BY <2>3, <2>4, QuietUndisturbed
  <1> QED BY <1>2, <1>3, <1>4

\* The steps that decide.
LEMMA CheckingUndisturbed ==
    ASSUME IndInv, AllUndisturbed, NEW w \in Workers, Exists(w) \/ Check(w)
    PROVE  AllUndisturbed'
  <1>1. job[w] \in Job /\ Undisturbed(pc[w], job[w]) /\ UNCHANGED versions /\ job = [job EXCEPT ![w] = job[w]]
    BY CallFacts DEF AllUndisturbed, IndInv, TypeOK, Exists, Check
  <1>2. CASE Ends(w)
    BY <1>1, <1>2, EndsUndisturbed
  <1>3. CASE /\ Goto(w, "write") /\ UNCHANGED job
             /\ (pc[w] = "exists" /\ now = 0) \/ pc[w] = "check"
    <2>1. pc[w] = "exists" => job[w].op = "create"
      BY CallFacts DEF CallOK
    <2>2. Undisturbed("write", job[w])
      BY <1>1, <1>3, <2>1 DEF Undisturbed
    <2> QED BY <1>1, <1>3, <2>2, QuietUndisturbed DEF Goto
  <1>4. CASE /\ Goto(w, "refs") /\ job[w].op = "link"
             /\ job' = [job EXCEPT ![w].retried = TRUE, ![w].alone = TRUE]
    <2> DEFINE j == [job[w] EXCEPT !.retried = TRUE, !.alone = TRUE]
    <2>1. j.op = "link"
      BY <1>1, <1>4 DEF Job
    <2>2. pc' = [pc EXCEPT ![w] = "refs"] /\ job' = [job EXCEPT ![w] = j]
      BY <1>4 DEF Goto
    <2> HIDE DEF j
    <2>3. Undisturbed("refs", j)
      BY <2>1 DEF Undisturbed
    <2> QED BY <1>1, <2>2, <2>3, QuietUndisturbed
  <1> QED BY <1>2, <1>3, <1>4 DEF Exists, Check

\* After a write every other call has been overlapped.
LEMMA WriteUndisturbed ==
    ASSUME IndInv, NEW w \in Workers, Write(w)
    PROVE  AllUndisturbed'
  <1>1. ASSUME NEW v \in Workers PROVE pc'[v] = "idle" \/ ~ job'[v].alone
    <2>1. ~ Overlapped(v).alone
      BY OverlappedFacts
    <2> QED BY <2>1 DEF Write, Goto, IndInv, TypeOK
  <1> QED BY <1>1 DEF AllUndisturbed, Undisturbed

LEMMA UndisturbedStep ==
    ASSUME IndInv, AllUndisturbed, [Next]_vars
    PROVE  AllUndisturbed'
  <1>1. CASE UNCHANGED vars
    BY <1>1 DEF vars, AllUndisturbed, Undisturbed, file, now
  <1>2. CASE Next
    <2>1. PICK w \in Workers :
            \/ \E draft \in Drafts : BeginCreate(w, draft)
            \/ \E change \in Patches, guard \in Guards : BeginPatch(w, change, guard)
            \/ \E change \in Handovers : BeginHandover(w, change)
            \/ \E guard \in Guards : BeginApprove(w, guard)
            \/ \E guard \in Guards : BeginRetire(w, guard)
            \/ \E l \in Links : BeginLink(w, l)
            \/ ReadRefs(w) \/ StatRefs(w)
            \/ Exists(w) \/ ReadText(w) \/ Check(w) \/ Write(w)
            \/ Fails(w)
      BY <1>2 DEF Next
    <2>2. CASE Fails(w)
      BY <2>2, EndsUndisturbed DEF Fails
    <2> QED BY <2>1, <2>2, BeginningsUndisturbed, ReadingUndisturbed, CheckingUndisturbed,
               WriteUndisturbed
  <1> QED BY <1>1, <1>2

\* Only a write gives the file another content, and it gives it its record.
LEMMA OnlyWritesChange ==
    ASSUME IndInv, Next, now' # now
    PROVE  \E w \in Workers : /\ Write(w) /\ pc'[w] = "idle"
                              /\ file' = Record(w)
                              /\ \A v \in Workers : pc'[v] = "idle" /\ pc[v] = "write" => v = w
  <1>1. PICK w \in Workers : Write(w)
    BY DEF Next, BeginCreate, BeginPatch, BeginHandover, BeginApprove, BeginRetire, BeginLink,
           Begins, ReadRefs, StatRefs, Exists, ReadText, Check, Fails, now
  <1>2. file' = Record(w)
    <2>1. versions \in Seq(Contract)
      BY DEF IndInv, TypeOK
    <2> QED BY <1>1, <2>1 DEF Write, file, now
  <1>3. \A v \in Workers : pc'[v] = IF v = w THEN "idle" ELSE pc[v]
    BY <1>1 DEF Write, Goto, IndInv, TypeOK
  <1> QED BY <1>1, <1>2, <1>3

\* What a merge does to each key.
LEMMA MergeParts ==
    ASSUME NEW text \in Contract
    PROVE  /\ \A s \in Statuses : Merge(text, [status |-> s]) = [text EXCEPT !.status = s]
           /\ \A r \in SUBSET Links : Merge(text, [refs |-> r]) = [text EXCEPT !.refs = r]
  <1>1. DOMAIN text = {"status", "complete", "refs"}
    BY DEF Contract
  <1>2. ASSUME NEW s \in Statuses
        PROVE  Merge(text, [status |-> s]) = [text EXCEPT !.status = s]
    <2>1. \A key \in DOMAIN text :
            Merge(text, [status |-> s])[key] = [text EXCEPT !.status = s][key]
      BY <1>1 DEF Merge, Contract
    <2> QED BY <1>1, <2>1 DEF Merge, Contract
  <1>3. ASSUME NEW r \in SUBSET Links
        PROVE  Merge(text, [refs |-> r]) = [text EXCEPT !.refs = r]
    <2>1. \A key \in DOMAIN text :
            Merge(text, [refs |-> r])[key] = [text EXCEPT !.refs = r][key]
      BY <1>1 DEF Merge, Contract
    <2> QED BY <1>1, <2>1 DEF Merge, Contract
  <1> QED BY <1>2, <1>3

\* The record of a call that nobody overlapped.
LEMMA AloneWritesLegally ==
    ASSUME IndInv, AllUndisturbed, NEW w \in Workers, pc[w] = "write", job[w].alone, now > 0
    PROVE  LegalStep(job[w], file, Record(w))
  <1>1. job[w] \in Job /\ CallOK("write", job[w]) /\ Undisturbed("write", job[w])
    BY CallFacts DEF AllUndisturbed
  <1>2. job[w].op # "create" /\ job[w].text = file
    BY <1>1 DEF Undisturbed
  <1>3. Record(w) = Merge(file, job[w].change)
    BY <1>2 DEF Record
  <1>4. file \in Contract
    BY <1>1, <1>2 DEF Job
  <1>5. CASE job[w].op = "approve"
    <2>1. /\ job[w].before = file /\ job[w].change = [status |-> "active"]
          /\ file.status = "draft" /\ file.complete
      BY <1>1, <1>5 DEF CallOK, Checked, Undisturbed
    <2>2. Record(w) = [file EXCEPT !.status = "active"]
      BY <1>3, <1>4, <2>1, MergeParts DEF Statuses
    <2> QED BY <1>5, <2>1, <2>2 DEF LegalStep
  <1>6. CASE job[w].op = "retire"
    <2>1. /\ job[w].before = file /\ job[w].change = [status |-> "retired"]
          /\ file.status = "active"
      BY <1>1, <1>6 DEF CallOK, Checked, Undisturbed
    <2>2. Record(w) = [file EXCEPT !.status = "retired"]
      BY <1>3, <1>4, <2>1, MergeParts DEF Statuses
    <2> QED BY <1>6, <2>1, <2>2 DEF LegalStep
  <1>7. CASE job[w].op = "link"
    <2>1. job[w].change = [refs |-> file.refs \cup job[w].entry]
      BY <1>1, <1>7 DEF Undisturbed
    <2>2. file.refs \cup job[w].entry \in SUBSET Links
      BY <1>1, <1>4 DEF Contract, Job
    <2>3. Record(w) = [file EXCEPT !.refs = file.refs \cup job[w].entry]
      BY <1>3, <1>4, <2>1, <2>2, MergeParts
    <2> QED BY <1>7, <2>3 DEF LegalStep
  <1>8. CASE job[w].op \in {"patch", "handover"}
    <2>1. Record(w).status = file.status
      BY <1>1, <1>2, <1>3, <1>8 DEF CallOK, Based
    <2> QED BY <1>8, <2>1 DEF LegalStep
  <1> QED BY <1>1, <1>2, <1>5, <1>6, <1>7, <1>8 DEF Job, CallOK

\* A call that no other write overlaps moves the contract one legal step along its
\* lifecycle, and a link adds nothing but the link, also by its retry (transition,
\* update, add_link).
THEOREM AloneIsLegal == Spec => UndisturbedCallsAreLegal
  <1>1. Init => AllUndisturbed
    BY DEF Init, AllUndisturbed, Undisturbed
  <1>2. IndInv /\ AllUndisturbed /\ [Next]_vars => AllUndisturbed'
    BY UndisturbedStep
  <1>3. IndInv /\ AllUndisturbed /\ [Next]_vars =>
          [\A w \in Workers :
             pc[w] = "write" /\ now' # now /\ pc'[w] = "idle" /\ job[w].alone /\ now > 0
               => LegalStep(job[w], file, file')]_vars
    <2> SUFFICES ASSUME IndInv, AllUndisturbed, [Next]_vars, now' # now, NEW w \in Workers,
                        pc[w] = "write", pc'[w] = "idle", job[w].alone, now > 0
                 PROVE  LegalStep(job[w], file, file')
      OBVIOUS
    <2>1. Next
      BY DEF vars, now
    <2>2. file' = Record(w)
      BY <2>1, OnlyWritesChange
    <2> QED BY <2>2, AloneWritesLegally
  <1> QED BY <1>1, <1>2, <1>3, Invariance, PTL DEF Spec, UndisturbedCallsAreLegal

=============================================================================
