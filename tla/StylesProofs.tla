----------------------------- MODULE StylesProofs -----------------------------
(***************************************************************************)
(* Proofs about Styles, for any styles, contracts, threads, versions and   *)
(* faults.  A write is checked on a reading that may be old, so nothing    *)
(* about the file holds unless the write itself carries it: that the       *)
(* document loads, that it keeps every other style, and that, as long as   *)
(* no write ran over another one, a version names one document only.       *)
(***************************************************************************)
EXTENDS Styles, TLAPS

\* Until a write runs over another one, the file holds the newest document, and no two
\* documents have one version: what a client with the present version saw is the file.
VersionsIdentify ==
    ~ clobbered => \A d \in shown : /\ d.version <= repo.version
                                    /\ d.version = repo.version => d = repo

\* A document to write is the next version of the one that was read and, until a write
\* runs over another one, shown.
WriterOK(j) ==
    j.step = "write" => /\ j.doc.version = j.base.version + 1
                        /\ KeepsOthers(j.base, j.doc)
                        /\ ~ clobbered => j.view = j.base

\* StrandedIsReported without the status: a contract may be activated any time later.
GatedReported ==
    faults = 0 => \A k \in gated : Stranded(k, repo)
                                     => k \in told \/ \E c \in Threads : Reports(c, k)

IndInv ==
    /\ TypeOK
    /\ VersionsIdentify
    /\ \A c \in Threads : WriterOK(call[c])
    /\ GatedReported

-----------------------------------------------------------------------------
(* The documents.                                                          *)

LEMMA SeedType == Seed \in Document /\ Loads(Seed) /\ Idle \in Call
  <1>1. Seed \in Document /\ Loads(Seed)
    BY StylesAssumption DEF Seed, Document, Loads
  <1> QED BY <1>1 DEF Idle, Call

\* A new style with a new name goes behind the others.
LEMMA AddedIsNext ==
    ASSUME NEW base \in Document, Loads(base), NEW name \in Names, NEW text \in Texts,
           name \notin NamesIn(base)
    PROVE  LET doc == Added(base, name, text)
           IN  doc \in Document /\ Loads(doc) /\ doc.version = base.version + 1
               /\ KeepsOthers(base, doc)
  <1> DEFINE doc == Added(base, name, text)
             s == base.styles
             new == [name |-> name, text |-> text]
  <1>1. s \in Seq(Style) /\ base.version \in Nat /\ new \in Style
    BY DEF Document, Style
  <1>2. /\ doc.styles = Append(s, new) /\ doc.version = base.version + 1
        /\ doc = [version |-> doc.version, styles |-> doc.styles]
    BY DEF Added
  <1>3. doc.styles \in Seq(Style) /\ DOMAIN doc.styles = 1 .. Len(s) + 1 /\ DOMAIN s = 1 .. Len(s)
        /\ \A i \in 1 .. Len(s) : doc.styles[i] = s[i]
        /\ doc.styles[Len(s) + 1] = new
    BY <1>1, <1>2
  <1>4. doc \in Document
    BY <1>1, <1>2, <1>3 DEF Document
  <1>5. \A i \in 1 .. Len(s) : s[i].name # name
    BY <1>3 DEF NamesIn
  <1>6. Loads(doc)
    <2> SUFFICES ASSUME NEW i \in 1 .. Len(s) + 1, NEW j \in 1 .. Len(s) + 1,
                        doc.styles[i].name = doc.styles[j].name
                 PROVE  i = j
      BY <1>3 DEF Loads
    <2>0. Len(s) \in Nat
      BY <1>1
    <2>1. CASE i \in 1 .. Len(s) /\ j \in 1 .. Len(s)
      BY <2>1, <1>3 DEF Loads
    <2>2. CASE i = Len(s) + 1 /\ j \in 1 .. Len(s)
      BY <2>2, <1>3, <1>5
    <2>3. CASE i \in 1 .. Len(s) /\ j = Len(s) + 1
      BY <2>3, <1>3, <1>5
    <2> QED BY <2>0, <2>1, <2>2, <2>3
  <1>7. KeepsOthers(base, doc)
    BY <1>1, <1>3 DEF KeepsOthers
  <1> QED BY <1>2, <1>4, <1>6, <1>7

\* An edit of one style, to a name that no other style has.
LEMMA ChangedIsNext ==
    ASSUME NEW base \in Document, Loads(base), NEW name \in Names,
           NEW to \in Names \cup {None}, NEW text \in Texts \cup {None},
           to \in {None, name} \/ to \notin NamesIn(base)
    PROVE  LET doc == Changed(base, name, to, text)
           IN  doc \in Document /\ Loads(doc) /\ doc.version = base.version + 1
               /\ KeepsOthers(base, doc)
  <1> DEFINE doc == Changed(base, name, to, text)
             s == base.styles
             t == doc.styles
  <1>1. s \in Seq(Style) /\ base.version \in Nat /\ DOMAIN s = 1 .. Len(s) /\ Len(s) \in Nat
    BY DEF Document
  <1>2. /\ doc.version = base.version + 1
        /\ doc = [version |-> doc.version, styles |-> t]
        /\ t = [i \in DOMAIN s |-> IF s[i].name = name THEN Edited(s[i], to, text) ELSE s[i]]
    BY DEF Changed
  <1>3. \A x \in Style : /\ Edited(x, to, text) \in Style
                         /\ Edited(x, to, text).name = IF to = None THEN x.name ELSE to
    BY StylesAssumption DEF Edited, Style
  <1>4. \A i \in DOMAIN s : s[i] \in Style
    BY <1>1
  <1>5. DOMAIN t = DOMAIN s /\ \A i \in DOMAIN s : /\ t[i] \in Style
                                                   /\ s[i].name # name => t[i] = s[i]
    BY <1>2, <1>3, <1>4
  <1>6. t \in Seq(Style)
    <2>1. t \in [1 .. Len(s) -> Style]
      BY <1>1, <1>2, <1>5
    <2> QED BY <1>1, <2>1
  <1>7. doc \in Document
    BY <1>1, <1>2, <1>6 DEF Document
  <1>8. ASSUME NEW i \in DOMAIN s, s[i].name = name
        PROVE  t[i].name = name \/ t[i].name \notin NamesIn(base)
    <2>1. t[i] = Edited(s[i], to, text)
      BY <1>2, <1>8
    <2>2. t[i].name = IF to = None THEN name ELSE to
      BY <2>1, <1>3, <1>4, <1>8
    <2> QED BY <2>2
  <1>9. \A i \in DOMAIN s : s[i].name \in NamesIn(base)
    BY DEF NamesIn
  <1>10. Loads(doc)
    <2> SUFFICES ASSUME NEW i \in DOMAIN t, NEW j \in DOMAIN t, t[i].name = t[j].name
                 PROVE  i = j
      BY DEF Loads
    <2>1. i \in DOMAIN s /\ j \in DOMAIN s
      BY <1>5
    <2>2. s[i].name = s[j].name => i = j
      BY <2>1 DEF Loads
    <2>3. CASE s[i].name = name /\ s[j].name = name
      BY <2>2, <2>3
    <2>4. CASE s[i].name # name /\ s[j].name # name
      BY <1>5, <2>1, <2>2, <2>4
    <2>5. CASE s[i].name = name /\ s[j].name # name
      BY <1>5, <1>8, <1>9, <2>1, <2>5
    <2>6. CASE s[i].name # name /\ s[j].name = name
      BY <1>5, <1>8, <1>9, <2>1, <2>6
    <2> QED BY <2>3, <2>4, <2>5, <2>6
  <1>11. KeepsOthers(base, doc)
    BY <1>5 DEF KeepsOthers
  <1> QED BY <1>2, <1>7, <1>10, <1>11

-----------------------------------------------------------------------------
(* The calls.                                                              *)

\* The part of the type invariant that is about the calls.
JobOK(j) == /\ j \in Call /\ Loads(j.doc)
            /\ j.step \in {"gate", "activate"} => j.on \in Contracts

\* A step of c gives it the locals j, and leaves every other call alone.
StepsTo(c, j) == /\ JobOK(j) /\ call' = [call EXCEPT ![c] = j]

Others(c) == \A d \in Threads : d # c => call'[d] = call[d]

LEMMA CallSteps ==
    ASSUME TypeOK, NEW c \in Threads, NEW j, StepsTo(c, j)
    PROVE  /\ call'[c] = j /\ Others(c)
           /\ call' \in [Threads -> Call]
           /\ \A d \in Threads : JobOK(call'[d])
  <1>1. call \in [Threads -> Call] /\ \A d \in Threads : JobOK(call[d])
    BY DEF TypeOK, JobOK
  <1>2. call' = [call EXCEPT ![c] = j] /\ JobOK(j) /\ j \in Call
    BY DEF StepsTo, JobOK
  <1>3. call'[c] = j /\ \A d \in Threads : d # c => call'[d] = call[d]
    BY <1>1, <1>2
  <1>4. call' \in [Threads -> Call]
    BY <1>1, <1>2
  <1>5. \A d \in Threads : JobOK(call'[d])
    BY <1>1, <1>2, <1>3
  <1> QED BY <1>3, <1>4, <1>5 DEF Others

\* Where the rest of the state has its type, the call keeps it.
LEMMA TypeKept ==
    ASSUME TypeOK, NEW c \in Threads, NEW j, StepsTo(c, j),
           repo' \in Document, Loads(repo'), shown' \subseteq Document,
           contract' \in [Contracts -> Contract], gated' \subseteq Contracts,
           told' \subseteq Contracts, clobbered' \in BOOLEAN, faults' \in 0 .. MaxFaults
    PROVE  TypeOK'
  <1>1. call' \in [Threads -> Call] /\ \A d \in Threads : JobOK(call'[d])
    BY CallSteps
  <1> QED BY <1>1 DEF TypeOK, JobOK

\* A call that neither reports nor changes what reports are about.
LEMMA ReportsStay ==
    ASSUME GatedReported, NEW c \in Threads, Others(c),
           call[c].step \notin {"reread", "list", "audit"},
           repo' = repo, told' = told, gated' \subseteq gated, faults' = faults,
           \A k \in Contracts : contract'[k].style = contract[k].style,
           gated \subseteq Contracts
    PROVE  GatedReported'
  <1> SUFFICES ASSUME faults' = 0, NEW k \in gated', Stranded(k, repo)'
               PROVE  k \in told' \/ \E d \in Threads : Reports(d, k)'
    BY DEF GatedReported
  <1>1. k \in Contracts /\ k \in gated /\ contract'[k].style = contract[k].style
    OBVIOUS
  <1>2. Stranded(k, repo)
    BY <1>1 DEF Stranded
  <1>3. CASE k \in told
    BY <1>3
  <1>4. CASE \E d \in Threads : Reports(d, k)
    <2> PICK d \in Threads : Reports(d, k)
      BY <1>4
    <2>1. d # c
      BY DEF Reports
    <2>2. call'[d] = call[d]
      BY <2>1 DEF Others
    <2>3. Reports(d, k)'
      BY <1>1, <2>2 DEF Reports, Stranded
    <2> QED BY <2>3
  <1> QED BY <1>2, <1>3, <1>4 DEF GatedReported

\* A call that does not touch the file, and does not prepare a write.
LEMMA FileStays ==
    ASSUME IndInv, NEW c \in Threads, Others(c), call'[c].step # "write",
           repo' = repo, shown' = shown, clobbered' = clobbered
    PROVE  VersionsIdentify' /\ \A d \in Threads : WriterOK(call[d])'
  <1>1. VersionsIdentify'
    BY DEF IndInv, VersionsIdentify
  <1>2. ASSUME NEW d \in Threads PROVE WriterOK(call[d])'
    <2>1. CASE d = c
      BY <2>1 DEF WriterOK
    <2>2. CASE d # c
      BY <2>2 DEF Others, IndInv, WriterOK
    <2> QED BY <2>1, <2>2
  <1> QED BY <1>1, <1>2

-----------------------------------------------------------------------------
(* The steps of a write.                                                   *)

\* The document that a client's call prepares is the next version of what was read.
LEMMA PreparesKeeps ==
    ASSUME IndInv, NEW c \in Threads, NEW view, NEW doc,
           Sends(c, view), Prepares(c, view, doc),
           doc \in Document, Loads(doc), doc.version = repo.version + 1, KeepsOthers(repo, doc)
    PROVE  IndInv'
  <1> DEFINE j == [Idle EXCEPT !.step = "write", !.view = view, !.base = repo, !.doc = doc]
  <1>0. /\ TypeOK /\ VersionsIdentify /\ GatedReported
        /\ \A d \in Threads : WriterOK(call[d])
    BY DEF IndInv
  <1>1. /\ view \in shown /\ view \in Document /\ view.version = repo.version
        /\ call[c].step = "idle"
    BY <1>0 DEF Sends, Fresh, TypeOK
  <1>2. /\ j \in Call /\ j.step = "write"
        /\ j.view = view /\ j.base = repo /\ j.doc = doc
    <2>1. repo \in Document
      BY <1>0 DEF TypeOK
    <2> QED BY <1>1, <2>1, SeedType DEF Call
  <1>3. JobOK(j)
    BY <1>2 DEF JobOK
  <1>4. StepsTo(c, j)
    BY <1>3 DEF StepsTo, Prepares
  <1>5. call'[c] = j /\ Others(c)
    BY <1>0, <1>4, CallSteps
  <1>6. /\ repo' = repo /\ shown' = shown /\ contract' = contract /\ gated' = gated
        /\ told' = told /\ clobbered' = clobbered /\ faults' = faults
    BY DEF Prepares
  <1>7. TypeOK'
    <2>1. /\ repo' \in Document /\ Loads(repo') /\ shown' \subseteq Document
          /\ contract' \in [Contracts -> Contract] /\ gated' \subseteq Contracts
          /\ told' \subseteq Contracts /\ clobbered' \in BOOLEAN /\ faults' \in 0 .. MaxFaults
      BY <1>0, <1>6 DEF TypeOK
    <2> QED BY <1>0, <1>4, <2>1, TypeKept
  <1>8. VersionsIdentify'
    BY <1>0, <1>6 DEF VersionsIdentify
  <1>9. ASSUME NEW d \in Threads PROVE WriterOK(call[d])'
    <2>1. CASE d = c
      <3>1. ~ clobbered => view = repo
        BY <1>0, <1>1 DEF VersionsIdentify
      <3> QED BY <1>2, <1>5, <1>6, <2>1, <3>1 DEF WriterOK
    <2>2. CASE d # c
      BY <1>0, <1>5, <1>6, <2>2 DEF Others, WriterOK
    <2> QED BY <2>1, <2>2
  <1>10. GatedReported'
    <2>1. call[c].step \notin {"reread", "list", "audit"} /\ gated \subseteq Contracts
      BY <1>0, <1>1 DEF TypeOK
    <2> QED BY <1>0, <1>5, <1>6, <2>1, ReportsStay
  <1> QED BY <1>7, <1>8, <1>9, <1>10 DEF IndInv

\* Behind a write, the call itself will report every contract that it stranded.
LEMMA WriteKeeps ==
    ASSUME IndInv, NEW c \in Threads, Write(c)
    PROVE  IndInv'
  <1> DEFINE j == [Idle EXCEPT !.step = "reread"]
             doc == call[c].doc
             base == call[c].base
  <1>0. /\ TypeOK /\ VersionsIdentify
        /\ \A d \in Threads : WriterOK(call[d])
    BY DEF IndInv
  <1>1. /\ repo' = doc /\ shown' = shown \cup {doc}
        /\ clobbered' = (clobbered \/ repo # base)
        /\ contract' = contract /\ gated' = gated /\ faults' = faults
        /\ call[c].step = "write"
    BY DEF Write
  <1>2. doc \in Document /\ base \in Document /\ Loads(doc)
    BY <1>0 DEF TypeOK, Call
  <1>3. j \in Call /\ j.step = "reread" /\ j.doc = Seed
    <2>1. Idle \in Call /\ Idle.doc = Seed
      BY SeedType DEF Idle
    <2> QED BY <2>1 DEF Call
  <1>4. StepsTo(c, j)
    BY <1>3, SeedType DEF StepsTo, JobOK, Write
  <1>5. call'[c] = j /\ Others(c)
    BY <1>0, <1>4, CallSteps
  <1>6. TypeOK'
    <2>1. told' \subseteq Contracts
      BY <1>0 DEF TypeOK, Write
    <2>2. clobbered' \in BOOLEAN
      BY <1>1
    <2>3. /\ contract' \in [Contracts -> Contract] /\ gated' \subseteq Contracts
          /\ faults' \in 0 .. MaxFaults /\ shown' \subseteq Document
          /\ repo' \in Document /\ Loads(repo')
      BY <1>0, <1>1, <1>2 DEF TypeOK
    <2> QED BY <1>0, <1>4, <2>1, <2>2, <2>3, TypeKept
  <1>7. VersionsIdentify'
    <2> SUFFICES ASSUME ~ clobbered', NEW d \in shown'
                 PROVE  d.version <= repo'.version /\ (d.version = repo'.version => d = repo')
      BY DEF VersionsIdentify
    <2>1. ~ clobbered /\ repo = base
      BY <1>1
    <2>2. doc.version = repo.version + 1
      BY <1>0, <1>1, <2>1 DEF WriterOK
    <2>3. repo.version \in Nat /\ (d \in shown => d.version \in Nat /\ d.version <= repo.version)
      BY <1>0, <2>1 DEF TypeOK, Document, VersionsIdentify
    <2>4. CASE d = doc
      BY <1>1, <2>2, <2>3, <2>4
    <2>5. CASE d \in shown
      BY <1>1, <2>2, <2>3, <2>5
    <2> QED BY <1>1, <2>4, <2>5
  <1>8. ASSUME NEW d \in Threads PROVE WriterOK(call[d])'
    <2>1. CASE d = c
      BY <1>3, <1>5, <2>1 DEF WriterOK
    <2>2. CASE d # c
      <3>1. call'[d] = call[d] /\ (~ clobbered' => ~ clobbered)
        BY <1>1, <1>5, <2>2 DEF Others
      <3> QED BY <1>0, <3>1 DEF WriterOK
    <2> QED BY <2>1, <2>2
  <1>9. GatedReported'
    BY <1>3, <1>5 DEF GatedReported, Reports
  <1> QED BY <1>6, <1>7, <1>8, <1>9 DEF IndInv

-----------------------------------------------------------------------------
(* The other steps of a call.  StepKeeps is the frame of them all.         *)

\* A step that writes no file and prepares no write, and loses no report.
LEMMA StepKeeps ==
    ASSUME IndInv, NEW c \in Threads, NEW j, StepsTo(c, j), j.step # "write",
           repo' = repo, shown' = shown, clobbered' = clobbered,
           contract' \in [Contracts -> Contract], gated' \subseteq Contracts,
           told' \subseteq Contracts, faults' \in 0 .. MaxFaults,
           GatedReported'
    PROVE  IndInv'
  <1>0. TypeOK
    BY DEF IndInv
  <1>1. call'[c] = j /\ Others(c)
    BY <1>0, CallSteps
  <1>2. TypeOK'
    <2>1. clobbered' \in BOOLEAN
      BY <1>0 DEF TypeOK
    <2>2. repo' \in Document /\ Loads(repo') /\ shown' \subseteq Document
      BY <1>0 DEF TypeOK
    <2> QED BY <1>0, <2>1, <2>2, TypeKept
  <1>3. VersionsIdentify' /\ \A d \in Threads : WriterOK(call[d])'
    BY <1>1, FileStays
  <1> QED BY <1>2, <1>3 DEF IndInv

\* A fault excuses every report.
LEMMA FaultExcuses ==
    ASSUME TypeOK, faults' = faults + 1, faults < MaxFaults
    PROVE  GatedReported' /\ faults' \in 0 .. MaxFaults
  <1>1. faults \in Nat /\ faults' \in 0 .. MaxFaults /\ faults' # 0
    BY StylesAssumption DEF TypeOK
  <1> QED BY <1>1 DEF GatedReported

LEMMA IdleOK == JobOK(Idle) /\ Idle.step = "idle"
  BY SeedType DEF JobOK, Idle

LEMMA RereadKeeps ==
    ASSUME IndInv, NEW c \in Threads, Reread(c)
    PROVE  IndInv'
  <1> DEFINE j == [call[c] EXCEPT !.step = "list", !.doc = repo]
  <1>0. /\ TypeOK /\ GatedReported
        /\ call[c] \in Call /\ repo \in Document /\ Loads(repo)
    BY DEF IndInv, TypeOK
  <1>1. j \in Call /\ j.step = "list" /\ j.doc = repo
    BY <1>0 DEF Call
  <1>2. StepsTo(c, j)
    BY <1>0, <1>1 DEF StepsTo, JobOK, Reread
  <1>3. call'[c] = j /\ Others(c)
    BY <1>0, <1>2, CallSteps
  <1>4. /\ repo' = repo /\ shown' = shown /\ contract' = contract /\ gated' = gated
        /\ told' = told /\ clobbered' = clobbered /\ faults' = faults
    BY DEF Reread
  <1>5. GatedReported'
    BY <1>1, <1>3, <1>4 DEF GatedReported, Reports, Stranded
  <1>6. /\ contract' \in [Contracts -> Contract] /\ gated' \subseteq Contracts
        /\ told' \subseteq Contracts /\ faults' \in 0 .. MaxFaults
    BY <1>0, <1>4 DEF TypeOK
  <1> QED BY <1>1, <1>2, <1>4, <1>5, <1>6, StepKeeps

LEMMA ListKeeps ==
    ASSUME IndInv, NEW c \in Threads, ListContracts(c)
    PROVE  IndInv'
  <1> DEFINE j == [call[c] EXCEPT !.step = "audit", !.doc = Seed, !.affected = Revalidate(c)]
  <1>0. TypeOK /\ GatedReported /\ call[c] \in Call
    BY DEF IndInv, TypeOK
  <1>1. /\ j \in Call /\ j.step = "audit" /\ j.doc = Seed /\ j.affected = Revalidate(c)
    <2>1. Revalidate(c) \in SUBSET Contracts /\ Seed \in Document
      BY SeedType DEF Revalidate
    <2> QED BY <1>0, <2>1 DEF Call
  <1>2. StepsTo(c, j)
    BY <1>1, SeedType DEF StepsTo, JobOK, ListContracts
  <1>3. call'[c] = j /\ Others(c)
    BY <1>0, <1>2, CallSteps
  <1>4. /\ repo' = repo /\ shown' = shown /\ contract' = contract /\ gated' = gated
        /\ told' = told /\ clobbered' = clobbered /\ faults' = faults
        /\ call[c].step = "list"
    BY DEF ListContracts
  <1>5. GatedReported'
    <2> SUFFICES ASSUME faults' = 0, NEW k \in gated', Stranded(k, repo)'
                 PROVE  k \in told' \/ \E d \in Threads : Reports(d, k)'
      BY DEF GatedReported
    <2>1. k \in gated /\ k \in Contracts /\ Stranded(k, repo)
      BY <1>0, <1>4 DEF TypeOK, Stranded
    <2>2. CASE k \in told
      BY <1>4, <2>2
    <2>3. ASSUME NEW d \in Threads, Reports(d, k), d # c
          PROVE  Reports(d, k)'
      BY <1>3, <1>4, <2>3 DEF Others, Reports, Stranded
    <2>4. ASSUME Reports(c, k) PROVE Reports(c, k)'
      <3>1. k \in Revalidate(c)
        BY <1>4, <2>1, <2>4 DEF Reports, Revalidate
      <3> QED BY <1>1, <1>3, <3>1 DEF Reports
    <2>5. k \in told \/ \E d \in Threads : Reports(d, k)
      BY <1>0, <1>4, <2>1 DEF GatedReported
    <2> QED BY <2>2, <2>3, <2>4, <2>5
  <1>6. /\ contract' \in [Contracts -> Contract] /\ gated' \subseteq Contracts
        /\ told' \subseteq Contracts /\ faults' \in 0 .. MaxFaults
    BY <1>0, <1>4 DEF TypeOK
  <1> QED BY <1>1, <1>2, <1>4, <1>5, <1>6, StepKeeps

\* A listing or an audit row that fails.
LEMMA FailuresKeep ==
    ASSUME IndInv, NEW c \in Threads, ListFails(c) \/ AuditFails(c)
    PROVE  IndInv'
  <1> DEFINE j == [Idle EXCEPT !.step = "audit"]
  <1>0. TypeOK /\ call[c] \in Call
    BY DEF IndInv, TypeOK
  <1>1. JobOK(Idle) /\ Idle.step = "idle" /\ Idle \in Call /\ Idle.doc = Seed
    BY IdleOK DEF JobOK, Idle
  <1>2. j \in Call /\ j.step = "audit" /\ j.doc = Seed
    BY <1>1 DEF Call
  <1>3. JobOK(j)
    BY <1>2, SeedType DEF JobOK
  <1>4. /\ repo' = repo /\ shown' = shown /\ contract' = contract /\ gated' = gated
        /\ told' = told /\ clobbered' = clobbered
        /\ faults < MaxFaults /\ faults' = faults + 1
    BY DEF ListFails, AuditFails
  <1>5. GatedReported' /\ faults' \in 0 .. MaxFaults
    BY <1>0, <1>4, FaultExcuses
  <1>6. /\ contract' \in [Contracts -> Contract] /\ gated' \subseteq Contracts
        /\ told' \subseteq Contracts
    BY <1>0, <1>4 DEF TypeOK
  <1>7. CASE ListFails(c)
    <2>1. StepsTo(c, j)
      BY <1>3, <1>7 DEF StepsTo, ListFails
    <2> QED BY <1>2, <1>4, <1>5, <1>6, <2>1, StepKeeps
  <1>8. CASE AuditFails(c)
    <2>1. StepsTo(c, Idle)
      BY <1>1, <1>8 DEF StepsTo, AuditFails, Ends
    <2> QED BY <1>1, <1>4, <1>5, <1>6, <2>1, StepKeeps
  <1> QED BY <1>7, <1>8

LEMMA AuditKeeps ==
    ASSUME IndInv, NEW c \in Threads, Audit(c)
    PROVE  IndInv'
  <1>0. TypeOK /\ GatedReported /\ call[c] \in Call
    BY DEF IndInv, TypeOK
  <1>1. JobOK(Idle) /\ Idle.step = "idle"
    BY IdleOK
  <1>2. StepsTo(c, Idle)
    BY <1>1 DEF StepsTo, Audit, Ends
  <1>3. Others(c)
    BY <1>0, <1>2, CallSteps
  <1>4. /\ repo' = repo /\ shown' = shown /\ contract' = contract /\ gated' = gated
        /\ told' = told \cup call[c].affected /\ clobbered' = clobbered /\ faults' = faults
        /\ call[c].step = "audit"
    BY DEF Audit
  <1>5. GatedReported'
    <2> SUFFICES ASSUME faults' = 0, NEW k \in gated', Stranded(k, repo)'
                 PROVE  k \in told' \/ \E d \in Threads : Reports(d, k)'
      BY DEF GatedReported
    <2>1. k \in gated /\ Stranded(k, repo)
      BY <1>4 DEF Stranded
    <2>2. ASSUME NEW d \in Threads, Reports(d, k), d # c
          PROVE  Reports(d, k)'
      BY <1>3, <1>4, <2>2 DEF Others, Reports, Stranded
    <2>3. Reports(c, k) => k \in told'
      BY <1>4 DEF Reports
    <2>4. k \in told \/ \E d \in Threads : Reports(d, k)
      BY <1>0, <1>4, <2>1 DEF GatedReported
    <2> QED BY <1>4, <2>2, <2>3, <2>4
  <1>6. /\ contract' \in [Contracts -> Contract] /\ gated' \subseteq Contracts
        /\ faults' \in 0 .. MaxFaults
    BY <1>0, <1>4 DEF TypeOK
  <1>7. told' \subseteq Contracts
    BY <1>0, <1>4 DEF TypeOK, Call
  <1> QED BY <1>1, <1>2, <1>4, <1>5, <1>6, <1>7, StepKeeps

-----------------------------------------------------------------------------
(* Approvals, patches, crashes.                                            *)

LEMMA ApproveKeeps ==
    ASSUME IndInv, NEW c \in Threads, NEW k \in Contracts, ApproveCollection(c, k)
    PROVE  IndInv'
  <1> DEFINE j == [Idle EXCEPT !.step = "gate", !.on = k, !.seen = contract[k].style]
  <1>0. TypeOK /\ GatedReported /\ contract[k].style \in Names
    BY DEF IndInv, TypeOK, Contract
  <1>1. Idle \in Call /\ Idle.doc = Seed
    BY IdleOK DEF JobOK, Idle
  <1>2. j \in Call /\ j.step = "gate" /\ j.doc = Seed /\ j.on = k
    BY <1>0, <1>1 DEF Call
  <1>3. StepsTo(c, j)
    BY <1>2, SeedType DEF StepsTo, JobOK, ApproveCollection
  <1>4. /\ repo' = repo /\ shown' = shown /\ contract' = contract /\ gated' = gated
        /\ told' = told /\ clobbered' = clobbered /\ faults' = faults
        /\ call[c].step = "idle"
    BY DEF ApproveCollection
  <1>5. Others(c) /\ gated \subseteq Contracts
    BY <1>0, <1>3, CallSteps DEF TypeOK
  <1>6. GatedReported'
    BY <1>0, <1>4, <1>5, ReportsStay
  <1>7. /\ contract' \in [Contracts -> Contract] /\ gated' \subseteq Contracts
        /\ told' \subseteq Contracts /\ faults' \in 0 .. MaxFaults
    BY <1>0, <1>4 DEF TypeOK
  <1> QED BY <1>2, <1>3, <1>4, <1>6, <1>7, StepKeeps

\* The gate accepts a style only from the file as it is.
LEMMA GateKeeps ==
    ASSUME IndInv, NEW c \in Threads, CompletenessGate(c)
    PROVE  IndInv'
  <1> DEFINE j == [call[c] EXCEPT !.step = "activate"]
             k == call[c].on
  <1>0. /\ TypeOK /\ GatedReported /\ JobOK(call[c]) /\ call[c] \in Call
        /\ call[c].step = "gate" /\ k \in Contracts
    BY DEF IndInv, TypeOK, JobOK, CompletenessGate
  <1>1. j \in Call /\ j.step = "activate" /\ j.doc = call[c].doc /\ j.on = k
    BY <1>0 DEF Call
  <1>2. JobOK(j)
    BY <1>0, <1>1 DEF JobOK
  <1>3. /\ repo' = repo /\ shown' = shown /\ contract' = contract
        /\ told' = told /\ clobbered' = clobbered /\ faults' = faults
    BY DEF CompletenessGate
  <1>4. \E n : StepsTo(c, n) /\ n.step # "write"
    <2>1. CASE Goes(c, "activate")
      BY <1>1, <1>2, <2>1 DEF StepsTo, Goes
    <2>2. CASE Ends(c)
      BY IdleOK, <2>2 DEF StepsTo, Ends
    <2> QED BY <2>1, <2>2 DEF CompletenessGate
  <1>5. Others(c)
    BY <1>0, <1>4, CallSteps
  <1>6. gated' \subseteq Contracts /\ gated \subseteq Contracts
    BY <1>0 DEF TypeOK, CompletenessGate
  <1>7. \/ gated' \subseteq gated
        \/ (gated' \subseteq gated \cup {k}) /\ ~ Stranded(k, repo)
    BY DEF CompletenessGate, Stranded
  <1>8. GatedReported'
    <2> SUFFICES ASSUME faults' = 0, NEW i \in gated', Stranded(i, repo)'
                 PROVE  i \in told' \/ \E d \in Threads : Reports(d, i)'
      BY DEF GatedReported
    <2>1. Stranded(i, repo)
      BY <1>3 DEF Stranded
    <2>2. i \in gated
      BY <1>7, <2>1
    <2>3. i \in told \/ \E d \in Threads : Reports(d, i)
      BY <1>0, <1>3, <2>1, <2>2 DEF GatedReported
    <2>4. ASSUME NEW d \in Threads, Reports(d, i) PROVE Reports(d, i)'
      <3>1. d # c
        BY <1>0, <2>4 DEF Reports
      <3> QED BY <1>3, <1>5, <2>4, <3>1 DEF Others, Reports, Stranded
    <2> QED BY <1>3, <2>3, <2>4
  <1>9. /\ contract' \in [Contracts -> Contract]
        /\ told' \subseteq Contracts /\ faults' \in 0 .. MaxFaults
    BY <1>0, <1>3 DEF TypeOK
  <1> QED BY <1>3, <1>4, <1>6, <1>8, <1>9, StepKeeps

LEMMA TransitionKeeps ==
    ASSUME IndInv, NEW c \in Threads, Transition(c)
    PROVE  IndInv'
  <1>0. TypeOK /\ GatedReported /\ gated \subseteq Contracts
    BY DEF IndInv, TypeOK
  <1>1. StepsTo(c, Idle)
    BY IdleOK DEF StepsTo, Transition, Ends
  <1>2. /\ repo' = repo /\ shown' = shown /\ gated' = gated
        /\ told' = told /\ clobbered' = clobbered /\ faults' = faults
        /\ call[c].step = "activate"
        /\ contract' = [contract EXCEPT ![call[c].on].status = "active"]
    BY DEF Transition
  <1>3. /\ contract' \in [Contracts -> Contract]
        /\ \A i \in Contracts : contract'[i].style = contract[i].style
    BY <1>0, <1>2 DEF TypeOK, Contract
  <1>4. Others(c)
    BY <1>0, <1>1, CallSteps
  <1>5. GatedReported'
    BY <1>0, <1>2, <1>3, <1>4, ReportsStay
  <1>6. gated' \subseteq Contracts /\ told' \subseteq Contracts /\ faults' \in 0 .. MaxFaults
    BY <1>0, <1>2 DEF TypeOK
  <1> QED BY <1>1, <1>2, <1>3, <1>5, <1>6, IdleOK, StepKeeps

\* A patch takes the contract out of what the gate has accepted.
LEMMA PatchKeeps ==
    ASSUME IndInv, NEW k \in Contracts, NEW s \in Names, PatchStyle(k, s)
    PROVE  IndInv'
  <1>0. /\ TypeOK /\ VersionsIdentify /\ GatedReported
        /\ \A d \in Threads : WriterOK(call[d])
    BY DEF IndInv
  <1>1. /\ contract' = [contract EXCEPT ![k].style = s]
        /\ gated' = gated \ {k} /\ told' = told \ {k}
        /\ repo' = repo /\ shown' = shown /\ clobbered' = clobbered
        /\ call' = call /\ faults' = faults
    BY DEF PatchStyle
  <1>2. /\ contract' \in [Contracts -> Contract]
        /\ \A i \in Contracts : i # k => contract'[i] = contract[i]
    BY <1>0, <1>1 DEF TypeOK, Contract
  <1>3. TypeOK'
    <2>1. /\ call' \in [Threads -> Call] /\ \A d \in Threads : JobOK(call'[d])
      BY <1>0, <1>1 DEF TypeOK, JobOK
    <2>2. clobbered' \in BOOLEAN
      BY <1>0, <1>1 DEF TypeOK
    <2>3. /\ repo' \in Document /\ Loads(repo') /\ shown' \subseteq Document
          /\ gated' \subseteq Contracts /\ told' \subseteq Contracts /\ faults' \in 0 .. MaxFaults
      BY <1>0, <1>1 DEF TypeOK
    <2> QED BY <1>2, <2>1, <2>2, <2>3 DEF TypeOK, JobOK
  <1>4. VersionsIdentify'
    BY <1>0, <1>1 DEF VersionsIdentify
  <1>5. \A d \in Threads : WriterOK(call[d])'
    BY <1>0, <1>1 DEF WriterOK
  <1>6. GatedReported'
    <2> SUFFICES ASSUME faults' = 0, NEW i \in gated', Stranded(i, repo)'
                 PROVE  i \in told' \/ \E d \in Threads : Reports(d, i)'
      BY DEF GatedReported
    <2>1. i \in gated /\ i # k /\ contract'[i] = contract[i]
      BY <1>0, <1>1, <1>2 DEF TypeOK
    <2>2. Stranded(i, repo)
      BY <1>1, <2>1 DEF Stranded
    <2>3. i \in told \/ \E d \in Threads : Reports(d, i)
      BY <1>0, <1>1, <2>1, <2>2 DEF GatedReported
    <2>4. ASSUME NEW d \in Threads, Reports(d, i) PROVE Reports(d, i)'
      BY <1>1, <2>1, <2>4 DEF Reports, Stranded
    <2> QED BY <1>1, <2>1, <2>3, <2>4
  <1> QED BY <1>3, <1>4, <1>5, <1>6 DEF IndInv

LEMMA CrashKeeps ==
    ASSUME IndInv, Crash
    PROVE  IndInv'
  <1>0. TypeOK /\ VersionsIdentify
    BY DEF IndInv
  <1>1. /\ repo' = repo /\ shown' = shown /\ contract' = contract /\ gated' = gated
        /\ told' = told /\ clobbered' = clobbered
        /\ faults < MaxFaults /\ faults' = faults + 1
        /\ call' = [c \in Threads |-> Idle]
    BY DEF Crash
  <1>2. GatedReported' /\ faults' \in 0 .. MaxFaults
    BY <1>0, <1>1, FaultExcuses
  <1>3. /\ \A d \in Threads : call'[d] = Idle
        /\ call' \in [Threads -> Call] /\ \A d \in Threads : JobOK(call'[d])
    BY <1>1, IdleOK DEF JobOK
  <1>4. TypeOK'
    <2>1. clobbered' \in BOOLEAN
      BY <1>0, <1>1 DEF TypeOK
    <2>2. /\ repo' \in Document /\ Loads(repo') /\ shown' \subseteq Document
          /\ contract' \in [Contracts -> Contract]
          /\ gated' \subseteq Contracts /\ told' \subseteq Contracts
      BY <1>0, <1>1 DEF TypeOK
    <2> QED BY <1>2, <1>3, <2>1, <2>2 DEF TypeOK, JobOK
  <1>5. VersionsIdentify'
    BY <1>0, <1>1 DEF VersionsIdentify
  <1>6. \A d \in Threads : WriterOK(call[d])'
    BY <1>3, IdleOK DEF WriterOK
  <1> QED BY <1>2, <1>4, <1>5, <1>6 DEF IndInv

\* A document that a create or an update prepares.
LEMMA PreparedIsNext ==
    ASSUME IndInv, NEW c \in Threads, NEW view \in shown, NEW name \in Names,
           \/ \E x \in Texts : CreateStyle(c, view, name, x)
           \/ \E m \in Names \cup {None}, x \in Texts \cup {None} :
                 UpdateStyle(c, view, name, m, x)
    PROVE  IndInv'
  <1>0. repo \in Document /\ Loads(repo)
    BY DEF IndInv, TypeOK
  <1>1. ASSUME NEW x \in Texts, CreateStyle(c, view, name, x) PROVE IndInv'
    <2>1. Sends(c, view) /\ Prepares(c, view, Added(repo, name, x)) /\ name \notin NamesIn(repo)
      BY <1>1 DEF CreateStyle
    <2> QED BY <1>0, <2>1, AddedIsNext, PreparesKeeps
  <1>2. ASSUME NEW m \in Names \cup {None}, NEW x \in Texts \cup {None},
               UpdateStyle(c, view, name, m, x)
        PROVE  IndInv'
    <2>1. /\ Sends(c, view) /\ Prepares(c, view, Changed(repo, name, m, x))
          /\ m \in {None, name} \/ m \notin NamesIn(repo)
      BY <1>2 DEF UpdateStyle
    <2> QED BY <1>0, <2>1, ChangedIsNext, PreparesKeeps
  <1> QED BY <1>1, <1>2

-----------------------------------------------------------------------------
(* The invariant and what it shows.                                        *)

LEMMA InitOK == Init => IndInv
  <1> SUFFICES ASSUME Init PROVE IndInv
    OBVIOUS
  <1>1. /\ repo = Seed /\ shown = {Seed} /\ gated = {} /\ told = {} /\ clobbered = FALSE
        /\ faults = 0 /\ \A c \in Threads : call[c] = Idle
        /\ contract \in [Contracts -> [style : Names, status : {"draft"}]]
    BY DEF Init
  <1>2. call \in [Threads -> Call] /\ \A c \in Threads : JobOK(call[c])
    BY IdleOK DEF Init, JobOK
  <1>3. TypeOK
    <2>1. contract \in [Contracts -> Contract]
      BY <1>1 DEF Contract
    <2>2. clobbered \in BOOLEAN
      BY <1>1
    <2>3. /\ repo \in Document /\ Loads(repo) /\ shown \subseteq Document
          /\ gated \subseteq Contracts /\ told \subseteq Contracts /\ faults \in 0 .. MaxFaults
      BY <1>1, SeedType, StylesAssumption
    <2> QED BY <1>2, <2>1, <2>2, <2>3 DEF TypeOK, JobOK
  <1>4. VersionsIdentify
    BY <1>1 DEF VersionsIdentify, Seed
  <1>5. \A c \in Threads : WriterOK(call[c])
    BY <1>1, IdleOK DEF WriterOK
  <1>6. GatedReported
    BY <1>1 DEF GatedReported
  <1> QED BY <1>3, <1>4, <1>5, <1>6 DEF IndInv

LEMMA StepOK == IndInv /\ [Next]_vars => IndInv'
  <1> SUFFICES ASSUME IndInv, [Next]_vars PROVE IndInv'
    OBVIOUS
  <1>1. ASSUME NEW c \in Threads, ThreadStep(c) PROVE IndInv'
    <2>1. CASE \E view \in shown, n \in Names :
                 \/ \E x \in Texts : CreateStyle(c, view, n, x)
                 \/ \E m \in Names \cup {None}, x \in Texts \cup {None} :
                       UpdateStyle(c, view, n, m, x)
      BY <2>1, PreparedIsNext
    <2>2. CASE Write(c)
      BY <2>2, WriteKeeps
    <2>3. CASE Reread(c)
      BY <2>3, RereadKeeps
    <2>4. CASE ListContracts(c)
      BY <2>4, ListKeeps
    <2>5. CASE ListFails(c) \/ AuditFails(c)
      BY <2>5, FailuresKeep
    <2>6. CASE Audit(c)
      BY <2>6, AuditKeeps
    <2>7. CASE \E k \in Contracts : ApproveCollection(c, k)
      BY <2>7, ApproveKeeps
    <2>8. CASE CompletenessGate(c)
      BY <2>8, GateKeeps
    <2>9. CASE Transition(c)
      BY <2>9, TransitionKeeps
    <2> QED BY <1>1, <2>1, <2>2, <2>3, <2>4, <2>5, <2>6, <2>7, <2>8, <2>9 DEF ThreadStep
  <1>2. CASE \E k \in Contracts, s \in Names : PatchStyle(k, s)
    BY <1>2, PatchKeeps
  <1>3. CASE Crash
    BY <1>3, CrashKeeps
  <1>4. CASE UNCHANGED vars
    BY <1>4 DEF vars, IndInv, TypeOK, Loads, VersionsIdentify, WriterOK, GatedReported,
                Reports, Stranded
  <1> QED BY <1>1, <1>2, <1>3, <1>4 DEF Next

\* Whatever calls overlap, the file on disk and every document on its way to it load.
THEOREM TypeCorrect == Spec => []TypeOK
  <1>1. IndInv => TypeOK
    BY DEF IndInv
  <1> QED BY <1>1, InitOK, StepOK, PTL DEF Spec

\* Without a fault no approved contract loses its style in silence, to a rename
\* or to a write over another one.
THEOREM StrandedNamed == Spec => []StrandedIsReported
  <1>1. IndInv => StrandedIsReported
    BY DEF IndInv, GatedReported, StrandedIsReported
  <1> QED BY <1>1, InitOK, StepOK, PTL DEF Spec

\* Only a write changes the file.
LEMMA WriteChanges ==
    ASSUME IndInv, [Next]_vars, repo' # repo
    PROVE  \E c \in Threads : Write(c)
  <1>1. ASSUME NEW c \in Threads, ThreadStep(c), ~ Write(c) PROVE repo' = repo
    <2>1. ASSUME NEW view, NEW doc, Prepares(c, view, doc) PROVE repo' = repo
      BY <2>1 DEF Prepares
    <2>2. CASE \E view \in shown, n \in Names :
                 \/ \E x \in Texts : CreateStyle(c, view, n, x)
                 \/ \E m \in Names \cup {None}, x \in Texts \cup {None} :
                       UpdateStyle(c, view, n, m, x)
      BY <2>1, <2>2 DEF CreateStyle, UpdateStyle
    <2>3. CASE \/ Reread(c) \/ ListContracts(c) \/ ListFails(c) \/ Audit(c) \/ AuditFails(c)
               \/ \E k \in Contracts : ApproveCollection(c, k)
               \/ CompletenessGate(c) \/ Transition(c)
      BY <2>3 DEF Reread, ListContracts, ListFails, Audit, AuditFails, ApproveCollection,
                  CompletenessGate, Transition
    <2> QED BY <1>1, <2>2, <2>3 DEF ThreadStep
  <1>2. CASE \E k \in Contracts, s \in Names : PatchStyle(k, s)
    BY <1>2 DEF PatchStyle
  <1>3. CASE Crash \/ UNCHANGED vars
    BY <1>3 DEF Crash, vars
  <1> QED BY <1>1, <1>2, <1>3 DEF Next

\* A write that ran over no other one replaces what its client saw, and keeps every
\* style but one.
THEOREM WritesAreInformed == Spec => WritesWhatWasShown
  <1>1. IndInv /\ [Next]_vars =>
          [repo' # repo /\ ~ clobbered' =>
             \E c \in Threads : /\ call[c].step = "write" /\ call[c].view = repo
                                /\ repo'.version = repo.version + 1
                                /\ KeepsOthers(repo, repo')]_vars
    <2> SUFFICES ASSUME IndInv, [Next]_vars, repo' # repo, ~ clobbered'
                 PROVE  \E c \in Threads : /\ call[c].step = "write" /\ call[c].view = repo
                                           /\ repo'.version = repo.version + 1
                                           /\ KeepsOthers(repo, repo')
      OBVIOUS
    <2> PICK c \in Threads : Write(c)
      BY WriteChanges
    <2>1. /\ call[c].step = "write" /\ repo' = call[c].doc /\ ~ clobbered
          /\ repo = call[c].base
      BY DEF Write
    <2> QED BY <2>1 DEF IndInv, WriterOK
  <1> QED BY <1>1, InitOK, StepOK, PTL DEF Spec, WritesWhatWasShown

===============================================================================
