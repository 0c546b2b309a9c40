----------------------------- MODULE SettingsProofs -----------------------------
(***************************************************************************)
(* Proofs about Settings, for any threads, models, requests and bounds.    *)
(* What holds of cache and table holds of calls that nobody overlaps: the  *)
(* invariant says what the one call at work has in hand at each step.      *)
(***************************************************************************)
EXTENDS Settings, TLAPS

\* What a thread may do.
Acts(c) ==
    \/ \E request \in Requests : PatchAgentConfig(c, request)
    \/ \E value \in {Set, Unset} : PatchHitl(c, value)
    \/ ReadSettings(c) \/ ReadEnds(c)
    \/ Accept(c) \/ Refuse(c) \/ LoadSelect(c) \/ LoadFill(c) \/ LoadFails(c)
    \/ Merge(c) \/ AssignCache(c) \/ WriteToDb(c) \/ WriteFails(c)
    \/ AuditPart(c) \/ AuditFails(c)

\* The steps of a change that was accepted: the cache is loaded, and a part is left.
Merged == {"read", "cache", "write", "audit"}

\* What the local variables of a call hold, whoever overlaps it.
JobOK(j) ==
    /\ j.step \in Merged => j.parts # << >>
    /\ j.step # "idle" => j.answer = "none"
    /\ j.step \in {"validate", "fill"} => ~ j.wrote
    /\ j.answer = "refused" => ~ j.wrote

CallType == call \in [Threads -> Call]
JobsOK == \A c \in Threads : JobOK(call[c])

MergedOK == \A c \in Threads : call[c].step \in Merged => loaded

Types ==
    /\ db \in [Keys -> Doc \cup {None}]
    /\ cache \in [Keys -> Doc \cup {None}]
    /\ loaded \in BOOLEAN
    /\ vendor \subseteq Models
    /\ catalog \in Catalog
    /\ gone \subseteq Models
    /\ raced \in BOOLEAN
    /\ faults \in 0 .. MaxFaults
    /\ restarts \in 0 .. MaxRestarts

\* What the vendor dropped long ago is in no catalog that may authorise a write.
GoneOK == gone \cap vendor = {} /\ (catalog.fresh => gone \cap catalog.rows = {})

IndInv == Types /\ CallType /\ JobsOK /\ MergedOK /\ GoneOK

\* Until two calls overlap, at most one is at work.
Lone == ~ raced => \A c, d \in Threads : Busy(c) /\ Busy(d) => c = d

\* The stored value of the key c works on, with the field of its part changed.
Due(c) ==
    LET part == Head(call[c].parts)
    IN  [Content(db[Key(c)]) EXCEPT ![part.field] = part.value]

\* What a call that nobody overlaps has in hand.
HandOK(c) ==
    /\ call[c].step = "fill" => call[c].rows = db /\ ~ loaded
    /\ call[c].step \in {"cache", "write"} => call[c].current = Due(c)
    /\ call[c].step = "write" => cache[Key(c)] = call[c].current

\* An empty cache until the first load; then the cache is the table, but for the key
\* whose write is on its way.
AgreeOK ==
    /\ ~ loaded => cache = NoRows
    /\ loaded => \A k \in Keys :
          \/ Content(cache[k]) = Content(db[k])
          \/ \E c \in Threads : call[c].step = "write" /\ Key(c) = k

Quiet == ~ raced /\ faults = 0
QuietOK == Quiet => AgreeOK /\ \A c \in Threads : HandOK(c)

-----------------------------------------------------------------------------
(* Calls.                                                                  *)

LEMMA ValueTypes ==
    /\ NoDoc \in Doc /\ NoRows \in [Keys -> Doc \cup {None}] /\ NoCatalog \in Catalog
    /\ << >> \in Seq(Part)
    /\ \A m \in Models : m \in Values
  BY DEF NoDoc, Doc, Values, NoRows, NoCatalog, Catalog

LEMMA IdleFacts ==
    ASSUME NEW a \in {"none", "refused"}, NEW b \in BOOLEAN
    PROVE  /\ Idle(a, b) \in Call /\ Idle(a, b).step = "idle" /\ Idle(a, b).answer = a
           /\ Idle(a, b).wrote = b
  BY ValueTypes DEF Idle, Call

LEMMA OneCall ==
    ASSUME CallType, JobsOK, MergedOK, NEW c \in Threads, NEW j \in Call, JobOK(j),
           call' = [call EXCEPT ![c] = j], loaded => loaded', j.step \in Merged => loaded'
    PROVE  CallType' /\ JobsOK' /\ MergedOK'
  BY DEF CallType, JobsOK, JobOK, MergedOK

LEMMA EndsOK ==
    ASSUME CallType, JobsOK, MergedOK, NEW c \in Threads, NEW a \in {"none", "refused"}, Ends(c, a),
           loaded' = loaded, a = "refused" => call[c].step = "validate"
    PROVE  CallType' /\ JobsOK' /\ MergedOK'
  <1> DEFINE b == call[c].wrote
             j == Idle(a, b)
  <1>1. b \in BOOLEAN /\ JobOK(call[c])
    BY DEF CallType, Call, JobsOK
  <1>2. j \in Call /\ j.step = "idle" /\ j.answer = a /\ j.wrote = b
    BY <1>1, IdleFacts
  <1>3. call' = [call EXCEPT ![c] = j]
    BY DEF Ends
  <1>4. a = "refused" => ~ b
    BY <1>1 DEF JobOK
  <1> HIDE DEF j
  <1>5. JobOK(j)
    BY <1>2, <1>4 DEF JobOK, Merged
  <1> QED BY <1>2, <1>3, <1>5, OneCall DEF Merged

LEMMA PartFacts ==
    ASSUME CallType, NEW c \in Threads, call[c].parts # << >>
    PROVE  /\ Head(call[c].parts) \in Part /\ Head(call[c].parts).field \in Fields
           /\ Head(call[c].parts).value \in Values /\ Key(c) \in Keys
  <1>1. call[c].parts \in Seq(Part)
    BY DEF CallType, Call
  <1>2. Head(call[c].parts) \in Part
    BY <1>1
  <1>3. Head(call[c].parts).field \in Fields /\ Head(call[c].parts).value \in Values
    BY <1>2 DEF Part
  <1>4. Key(c) \in Keys
    BY <1>3 DEF Key, KeyOf, Keys, Fields
  <1> QED BY <1>2, <1>3, <1>4

\* A call begins.
LEMMA BeginsOK ==
    ASSUME CallType, JobsOK, MergedOK, NEW c \in Threads, NEW parts \in Seq(Part), loaded' = loaded,
           call' = [call EXCEPT ![c] = [Idle("none", FALSE) EXCEPT !.step = "validate", !.parts = parts]]
    PROVE  CallType' /\ JobsOK' /\ MergedOK'
  <1> DEFINE i == Idle("none", FALSE)
             j == [i EXCEPT !.step = "validate", !.parts = parts]
  <1>1. i \in Call /\ i.answer = "none" /\ i.wrote = FALSE
    BY IdleFacts
  <1>2. call' = [call EXCEPT ![c] = j]
    OBVIOUS
  <1> HIDE DEF i
  <1>3. j \in Call /\ j.step = "validate" /\ j.parts = parts /\ j.answer = "none" /\ j.wrote = FALSE
    BY <1>1 DEF Call
  <1> HIDE DEF j
  <1>4. JobOK(j)
    BY <1>3 DEF JobOK, Merged
  <1> QED BY <1>2, <1>3, <1>4, OneCall DEF Merged

\* The steps that move a call on and change no other of its locals, or one of them.
LEMMA MovesOK ==
    ASSUME CallType, JobsOK, MergedOK, NEW c \in Threads, NEW s \in {"read", "write"}, Goes(c, s),
           loaded' = loaded, call[c].step # "idle", s = "write" => call[c].step = "cache",
           s = "read" => loaded /\ call[c].parts # << >>
    PROVE  CallType' /\ JobsOK' /\ MergedOK'
  <1> DEFINE j == [call[c] EXCEPT !.step = s]
  <1>1. call[c] \in Call /\ JobOK(call[c])
    BY DEF CallType, JobsOK
  <1>2. /\ j \in Call /\ j.step = s /\ j.parts = call[c].parts /\ j.answer = call[c].answer
        /\ j.wrote = call[c].wrote
    BY <1>1 DEF Call
  <1>3. call' = [call EXCEPT ![c] = j]
    BY DEF Goes
  <1> HIDE DEF j
  <1>4. JobOK(j)
    BY <1>1, <1>2 DEF JobOK, Merged
  <1>5. j.step \in Merged => loaded'
    BY <1>2 DEF Merged, MergedOK
  <1> QED BY <1>2, <1>3, <1>4, <1>5, OneCall

LEMMA LoadOK ==
    ASSUME Types, CallType, JobsOK, MergedOK, NEW c \in Threads, LoadSelect(c) \/ LoadFill(c)
    PROVE  CallType' /\ JobsOK' /\ MergedOK'
  <1>0. call[c] \in Call /\ JobOK(call[c])
    BY DEF CallType, JobsOK
  <1>1. CASE LoadSelect(c)
    <2> DEFINE j == [call[c] EXCEPT !.step = "fill", !.rows = db]
    <2>1. call[c].step = "validate" /\ loaded' = loaded /\ call' = [call EXCEPT ![c] = j]
      BY <1>1 DEF LoadSelect
    <2>2. /\ j \in Call /\ j.step = "fill" /\ j.parts = call[c].parts /\ j.answer = call[c].answer
          /\ j.wrote = call[c].wrote
      BY <1>0 DEF Call, Types
    <2> HIDE DEF j
    <2>3. JobOK(j)
      BY <1>0, <2>1, <2>2 DEF JobOK, Merged
    <2> QED BY <2>1, <2>2, <2>3, OneCall DEF Merged
  <1>2. CASE LoadFill(c)
    <2> DEFINE j == [call[c] EXCEPT !.step = "validate", !.rows = NoRows]
    <2>1. call[c].step = "fill" /\ loaded' = TRUE /\ call' = [call EXCEPT ![c] = j]
      BY <1>2 DEF LoadFill
    <2>2. /\ j \in Call /\ j.step = "validate" /\ j.parts = call[c].parts /\ j.answer = call[c].answer
          /\ j.wrote = call[c].wrote
      BY <1>0, ValueTypes DEF Call
    <2> HIDE DEF j
    <2>3. JobOK(j)
      BY <1>0, <2>1, <2>2 DEF JobOK, Merged
    <2> QED BY <2>1, <2>2, <2>3, OneCall DEF Merged
  <1> QED BY <1>1, <1>2

\* The merged copy of a cached value is a value again.
LEMMA MergedType ==
    ASSUME NEW entry \in Doc \cup {None}, NEW f \in Fields, NEW v \in Values
    PROVE  Content(entry) \in Doc /\ [Content(entry) EXCEPT ![f] = v] \in Doc
  <1>1. Content(entry) \in Doc
    BY ValueTypes DEF Content
  <1> QED BY <1>1 DEF Doc

LEMMA MergeOK ==
    ASSUME Types, CallType, JobsOK, MergedOK, NEW c \in Threads, Merge(c)
    PROVE  CallType' /\ JobsOK' /\ MergedOK'
  <1> DEFINE part == Head(call[c].parts)
             merged == [Content(cache[Key(c)]) EXCEPT ![part.field] = part.value]
             j == [call[c] EXCEPT !.step = "cache", !.current = merged]
  <1>1. /\ call[c] \in Call /\ JobOK(call[c]) /\ call[c].step = "read" /\ loaded
        /\ loaded' = loaded /\ call' = [call EXCEPT ![c] = j]
    BY DEF CallType, JobsOK, MergedOK, Merged, Merge
  <1>2. call[c].parts # << >>
    BY <1>1 DEF JobOK, Merged
  <1>3. part.field \in Fields /\ part.value \in Values /\ cache[Key(c)] \in Doc \cup {None}
    BY <1>2, PartFacts DEF Types
  <1>4. merged \in Doc
    BY <1>3, MergedType
  <1> HIDE DEF merged
  <1>5. /\ j \in Call /\ j.step = "cache" /\ j.parts = call[c].parts
        /\ j.answer = call[c].answer /\ j.wrote = call[c].wrote
    BY <1>1, <1>4 DEF Call
  <1> HIDE DEF j
  <1>6. JobOK(j)
    BY <1>1, <1>2, <1>5 DEF JobOK, Merged
  <1> QED BY <1>1, <1>5, <1>6, OneCall

LEMMA WriteOK ==
    ASSUME CallType, JobsOK, MergedOK, NEW c \in Threads, WriteToDb(c)
    PROVE  CallType' /\ JobsOK' /\ MergedOK'
  <1> DEFINE j == [call[c] EXCEPT !.step = "audit", !.wrote = TRUE]
  <1>1. /\ call[c] \in Call /\ JobOK(call[c]) /\ call[c].step = "write" /\ loaded
        /\ loaded' = loaded /\ call' = [call EXCEPT ![c] = j]
    BY DEF CallType, JobsOK, WriteToDb, MergedOK, Merged
  <1>2. /\ j \in Call /\ j.step = "audit" /\ j.parts = call[c].parts
        /\ j.answer = call[c].answer /\ j.wrote = TRUE
    BY <1>1 DEF Call
  <1> HIDE DEF j
  <1>3. JobOK(j)
    BY <1>1, <1>2 DEF JobOK, Merged
  <1> QED BY <1>1, <1>2, <1>3, OneCall

LEMMA TailFacts ==
    ASSUME NEW s \in Seq(Part), s # << >>
    PROVE  Tail(s) \in Seq(Part) /\ (Len(s) # 1 => Tail(s) # << >>)
  <1>1. Tail(s) \in Seq(Part) /\ Len(Tail(s)) = Len(s) - 1 /\ Len(s) \in Nat \ {0}
    OBVIOUS
  <1>2. ASSUME Tail(s) = << >> PROVE Len(s) = 1
    <2>1. Len(<< >>) = 0
      OBVIOUS
    <2>2. Len(Tail(s)) = 0
      BY <1>2, <2>1, Zenon
    <2>3. Len(Tail(s)) = Len(s) - 1 /\ Len(s) \in Nat
      BY <1>1
    <2> HIDE <1>2
    <2> QED BY <2>2, <2>3
  <1> QED BY <1>1, <1>2

\* The part that is done leaves the list, unless it was the last one.
LEMMA AuditOK ==
    ASSUME CallType, JobsOK, MergedOK, NEW c \in Threads, AuditPart(c)
    PROVE  CallType' /\ JobsOK' /\ MergedOK'
  <1>1. call[c] \in Call /\ JobOK(call[c]) /\ call[c].step = "audit" /\ loaded' = loaded
    BY DEF CallType, JobsOK, AuditPart
  <1>11. loaded
    BY <1>1 DEF MergedOK, Merged
  <1>2. call[c].parts \in Seq(Part) /\ call[c].parts # << >>
    BY <1>1 DEF Call, JobOK, Merged
  <1>3. CASE Len(call[c].parts) = 1
    <2>1. Ends(c, "none")
      BY <1>3 DEF AuditPart
    <2> QED BY <1>1, <2>1, EndsOK
  <1>4. CASE Len(call[c].parts) # 1
    <2> DEFINE tail == Tail(call[c].parts)
               j == [call[c] EXCEPT !.step = "read", !.parts = tail, !.current = NoDoc]
    <2>1. call' = [call EXCEPT ![c] = j]
      BY <1>4 DEF AuditPart
    <2> HIDE DEF j
    <2>2. tail \in Seq(Part) /\ tail # << >>
      BY <1>2, <1>4, TailFacts
    <2>41. NoDoc \in Doc
      BY ValueTypes
    <2> HIDE DEF tail
    <2>5. /\ j \in Call /\ j.step = "read" /\ j.parts = tail /\ j.answer = call[c].answer
      BY <1>1, <2>2, <2>41 DEF Call, j
    <2>7. JobOK(j)
      BY <1>1, <2>2, <2>5 DEF JobOK, Merged
    <2> QED BY <1>1, <1>11, <2>1, <2>5, <2>7, OneCall DEF Merged
  <1> QED BY <1>3, <1>4

-----------------------------------------------------------------------------
(* Type correctness, and the catalog.                                       *)

LEMMA CatalogFacts ==
    ASSUME Types, GoneOK
    PROVE  Refreshed \in Catalog /\ gone \cap Refreshed.rows = {}
  BY DEF Types, GoneOK, Refreshed, Catalog

LEMMA InitOK == Init => IndInv
  <1> SUFFICES ASSUME Init PROVE IndInv
    OBVIOUS
  <1>1. \A c \in Threads : call[c] = Idle("none", FALSE)
    BY DEF Init
  <1>2. CallType /\ JobsOK /\ MergedOK
    BY <1>1, IdleFacts DEF Init, CallType, JobsOK, JobOK, MergedOK, Merged
  <1>3. db \in [Keys -> Doc \cup {None}]
    BY SettingsAssumption DEF Init
  <1>4. Types
    <2>1. cache \in [Keys -> Doc \cup {None}] /\ catalog \in Catalog
      BY ValueTypes DEF Init
    <2>2. faults \in 0 .. MaxFaults /\ restarts \in 0 .. MaxRestarts
      BY SettingsAssumption DEF Init
    <2>3. vendor \subseteq Models /\ gone \subseteq Models /\ loaded \in BOOLEAN /\ raced \in BOOLEAN
      BY DEF Init
    <2> QED BY <1>3, <2>1, <2>2, <2>3 DEF Types
  <1>5. GoneOK
    BY DEF Init, GoneOK, NoCatalog
  <1> QED BY <1>2, <1>4, <1>5 DEF IndInv
LEMMA FaultCounts ==
    ASSUME faults \in 0 .. MaxFaults, Fault
    PROVE  faults' \in 0 .. MaxFaults /\ faults' # 0
  BY SettingsAssumption DEF Fault

LEMMA FillTypes ==
    ASSUME NEW rows \in [Keys -> Doc \cup {None}], NEW old \in [Keys -> Doc \cup {None}]
    PROVE  [k \in Keys |-> IF rows[k] = None THEN old[k] ELSE rows[k]] \in [Keys -> Doc \cup {None}]
  OBVIOUS

\* Beside the calls: the steps of one thread.
LEMMA ThreadTypes ==
    ASSUME IndInv, NEW c \in Threads,
           Acts(c)
    PROVE  Types' /\ GoneOK'
  <1>0. Types /\ GoneOK /\ call[c] \in Call
    BY DEF IndInv, CallType
  <1>1. Refreshed \in Catalog /\ gone \cap Refreshed.rows = {}
    BY <1>0, CatalogFacts
  <1>2. ASSUME NEW request \in Requests, PatchAgentConfig(c, request) PROVE Types' /\ GoneOK'
    BY <1>0, <1>2 DEF PatchAgentConfig, Types, GoneOK
  <1>3. ASSUME NEW value \in {Set, Unset}, PatchHitl(c, value) PROVE Types' /\ GoneOK'
    BY <1>0, <1>3 DEF PatchHitl, Types, GoneOK
  <1>31. CASE ReadSettings(c) \/ ReadEnds(c)
    BY <1>0, <1>31 DEF ReadSettings, ReadEnds, Types, GoneOK
  <1>4. CASE Accept(c)
    <2>1. PICK after \in {catalog, Refreshed} : catalog' = after
      BY <1>4 DEF Accept
    <2>2. catalog' \in Catalog /\ (catalog'.fresh => gone \cap catalog'.rows = {})
      BY <1>0, <1>1, <2>1 DEF Types, GoneOK
    <2> QED BY <1>0, <1>4, <2>2 DEF Accept, Types, GoneOK
  <1>5. CASE Refuse(c)
    <2>1. catalog' = catalog \/ catalog' = Refreshed
      BY <1>5 DEF Refuse
    <2>2. catalog' \in Catalog /\ (catalog'.fresh => gone \cap catalog'.rows = {})
      BY <1>0, <1>1, <2>1 DEF Types, GoneOK
    <2> QED BY <1>0, <1>5, <2>2 DEF Refuse, Types, GoneOK
  <1>6. CASE LoadSelect(c)
    BY <1>0, <1>6 DEF LoadSelect, Types, GoneOK
  <1>7. CASE LoadFill(c)
    <2>1. call[c].rows \in [Keys -> Doc \cup {None}]
      BY <1>0 DEF Call
    <2>2. cache' \in [Keys -> Doc \cup {None}]
      BY <1>0, <1>7, <2>1, FillTypes DEF LoadFill, Types
    <2> QED BY <1>0, <1>7, <2>2 DEF LoadFill, Types, GoneOK
  <1>8. CASE LoadFails(c)
    BY <1>0, <1>8, FaultCounts DEF LoadFails, Types, GoneOK
  <1>9. CASE Merge(c)
    BY <1>0, <1>9 DEF Merge, Types, GoneOK
  <1>10. CASE AssignCache(c)
    <2>1. call[c].current \in Doc
      BY <1>0 DEF Call
    <2>2. cache' \in [Keys -> Doc \cup {None}]
      BY <1>0, <1>10, <2>1 DEF AssignCache, Types
    <2> QED BY <1>0, <1>10, <2>2 DEF AssignCache, Types, GoneOK
  <1>11. CASE WriteToDb(c)
    <2>1. call[c].current \in Doc
      BY <1>0 DEF Call
    <2>2. db' \in [Keys -> Doc \cup {None}]
      BY <1>0, <1>11, <2>1 DEF WriteToDb, Types
    <2> QED BY <1>0, <1>11, <2>2 DEF WriteToDb, Types, GoneOK
  <1>12. CASE WriteFails(c)
    BY <1>0, <1>12, FaultCounts DEF WriteFails, Types, GoneOK
  <1>13. CASE AuditPart(c)
    BY <1>0, <1>13 DEF AuditPart, Types, GoneOK
  <1>14. CASE AuditFails(c)
    BY <1>0, <1>14, FaultCounts DEF AuditFails, Types, GoneOK
  <1> QED BY <1>2, <1>3, <1>31, <1>4, <1>5, <1>6, <1>7, <1>8, <1>9, <1>10, <1>11, <1>12, <1>13, <1>14 DEF Acts

LEMMA ThreadCalls ==
    ASSUME IndInv, NEW c \in Threads,
           Acts(c)
    PROVE  CallType' /\ JobsOK' /\ MergedOK'
  <1>0. Types /\ CallType /\ JobsOK /\ MergedOK
    BY DEF IndInv
  <1>2. ASSUME NEW request \in Requests, PatchAgentConfig(c, request)
        PROVE  CallType' /\ JobsOK' /\ MergedOK'
    <2>1. request \in Seq(Part) /\ request # << >>
      BY SettingsAssumption
    <2>2. /\ loaded' = loaded
          /\ call' = [call EXCEPT ![c] = [Idle("none", FALSE) EXCEPT !.step = "validate",
                                                                      !.parts = request]]
      BY <1>2 DEF PatchAgentConfig
    <2> QED BY <1>0, <2>1, <2>2, BeginsOK
  <1>3. ASSUME NEW value \in {Set, Unset}, PatchHitl(c, value)
        PROVE  CallType' /\ JobsOK' /\ MergedOK'
    <2> DEFINE parts == <<[field |-> "gate", value |-> value]>>
    <2>1. parts \in Seq(Part) /\ parts # << >>
      BY DEF Part, Fields, Values
    <2>2. /\ loaded' = loaded
          /\ call' = [call EXCEPT ![c] = [Idle("none", FALSE) EXCEPT !.step = "validate",
                                                                      !.parts = parts]]
      BY <1>3 DEF PatchHitl
    <2> HIDE DEF parts
    <2> QED BY <1>0, <2>1, <2>2, BeginsOK
  <1>31. CASE ReadSettings(c)
    <2> DEFINE i == Idle("none", FALSE)
               j == [i EXCEPT !.step = "validate"]
    <2>1. i \in Call /\ i.answer = "none" /\ i.wrote = FALSE
      BY IdleFacts
    <2>2. call' = [call EXCEPT ![c] = j] /\ loaded' = loaded
      BY <1>31 DEF ReadSettings
    <2> HIDE DEF i
    <2>3. j \in Call /\ j.step = "validate" /\ j.answer = "none" /\ j.wrote = FALSE
      BY <2>1 DEF Call
    <2> HIDE DEF j
    <2>4. JobOK(j)
      BY <2>3 DEF JobOK, Merged
    <2> QED BY <1>0, <2>2, <2>3, <2>4, OneCall DEF Merged
  <1>32. CASE ReadEnds(c)
    BY <1>0, <1>32, EndsOK DEF ReadEnds
  <1>4. CASE Accept(c)
    BY <1>0, <1>4, MovesOK DEF Accept
  <1>5. CASE Refuse(c)
    BY <1>0, <1>5, EndsOK DEF Refuse
  <1>6. CASE LoadSelect(c) \/ LoadFill(c)
    BY <1>0, <1>6, LoadOK
  <1>8. CASE LoadFails(c)
    BY <1>0, <1>8 DEF LoadFails, CallType, JobsOK, MergedOK
  <1>9. CASE Merge(c)
    BY <1>0, <1>9, MergeOK
  <1>10. CASE AssignCache(c)
    BY <1>0, <1>10, MovesOK DEF AssignCache
  <1>11. CASE WriteToDb(c)
    BY <1>0, <1>11, WriteOK
  <1>12. CASE WriteFails(c)
    BY <1>0, <1>12, EndsOK DEF WriteFails
  <1>13. CASE AuditPart(c)
    BY <1>0, <1>13, AuditOK
  <1>14. CASE AuditFails(c)
    BY <1>0, <1>14, EndsOK DEF AuditFails
  <1> QED BY <1>2, <1>3, <1>31, <1>32, <1>4, <1>5, <1>6, <1>8, <1>9, <1>10, <1>11, <1>12, <1>13, <1>14 DEF Acts

LEMMA StepOK == IndInv /\ [Next]_vars => IndInv'
  <1> SUFFICES ASSUME IndInv, [Next]_vars PROVE IndInv'
    OBVIOUS
  <1>0. Types /\ CallType /\ JobsOK /\ MergedOK /\ GoneOK
    BY DEF IndInv
  <1>1. CASE UNCHANGED vars
    BY <1>0, <1>1 DEF vars, IndInv, Types, CallType, JobsOK, MergedOK, GoneOK
  <1>2. ASSUME NEW c \in Threads,
               Acts(c)
        PROVE  IndInv'
    BY <1>2, ThreadTypes, ThreadCalls DEF IndInv
  <1>3. CASE ListModels
    <2>1. catalog' \in Catalog /\ gone \cap catalog'.rows = {}
      BY <1>0, <1>3, CatalogFacts DEF ListModels
    <2> QED BY <1>0, <1>3, <2>1 DEF ListModels, IndInv, Types, CallType, JobsOK, MergedOK, GoneOK
  <1>4. CASE CatalogExpires
    <2>1. catalog' \in Catalog /\ ~ catalog'.fresh
      BY <1>0, <1>4 DEF CatalogExpires, Types, Catalog
    <2> QED BY <1>0, <1>4, <2>1 DEF CatalogExpires, IndInv, Types, CallType, JobsOK, MergedOK, GoneOK
  <1>5. CASE Restart
    <2>1. \A d \in Threads : call'[d] = Idle("none", FALSE)
      BY <1>5 DEF Restart
    <2>2. CallType' /\ JobsOK' /\ MergedOK'
      BY <1>5, <2>1, IdleFacts DEF Restart, CallType, JobsOK, JobOK, MergedOK, Merged
    <2>3. restarts' \in 0 .. MaxRestarts
      BY <1>0, <1>5, SettingsAssumption DEF Restart, Types
    <2>4. cache' \in [Keys -> Doc \cup {None}] /\ catalog' \in Catalog /\ catalog'.fresh = FALSE
      BY <1>5, ValueTypes DEF Restart, NoCatalog
    <2> QED BY <1>0, <1>5, <2>2, <2>3, <2>4 DEF Restart, IndInv, Types, GoneOK
  <1>6. ASSUME NEW m \in Models, VendorDrops(m) PROVE IndInv'
    BY <1>0, <1>6 DEF VendorDrops, IndInv, Types, CallType, JobsOK, MergedOK, GoneOK
  <1> QED BY <1>1, <1>2, <1>3, <1>4, <1>5, <1>6 DEF Next, Acts

\* Every variable keeps its type, and no call writes back a value that was merged before
\* the cache was loaded: of every PATCH, load, restart and failure of settings_store.
THEOREM TypeCorrect == Spec => []TypeOK
  <1>1. IndInv => TypeOK
    BY DEF IndInv, Types, CallType, MergedOK, Merged, TypeOK
  <1> QED BY <1>1, InitOK, StepOK, PTL DEF Spec

\* A PATCH of an agent that is answered 4xx or 503 wrote no part of itself, for any list
\* of parts: patch_agent_config validates every field before the first write.
THEOREM RefusalsWriteNothing == Spec => []RefusedPatchChangesNothing
  <1>1. IndInv => RefusedPatchChangesNothing
    BY DEF IndInv, JobsOK, JobOK, RefusedPatchChangesNothing
  <1> QED BY <1>1, InitOK, StepOK, PTL DEF Spec
\* What an accepted call wants is in a catalog that was fresh.
LEMMA AcceptedIsListed ==
    ASSUME IndInv, NEW c \in Threads, Accept(c)
    PROVE  Wanted(call[c].parts) \cap gone = {}
  <1>1. Types /\ GoneOK
    BY DEF IndInv
  <1>2. CASE Wanted(call[c].parts) = {}
    BY <1>2
  <1>3. CASE Wanted(call[c].parts) # {}
    <2>1. PICK after \in {catalog, Refreshed} : \A m \in Wanted(call[c].parts) : VerifyForWrite(m, after)
      BY <1>3 DEF Accept
    <2>2. ASSUME NEW m \in Wanted(call[c].parts) PROVE m \notin gone
      <3>1. m \in after.rows /\ (after = Refreshed \/ (after = catalog /\ catalog.fresh))
        BY <2>1 DEF VerifyForWrite
      <3>2. gone \cap Refreshed.rows = {}
        BY <1>1, CatalogFacts
      <3> QED BY <1>1, <3>1, <3>2 DEF GoneOK
    <2> QED BY <2>2
  <1> QED BY <1>2, <1>3

\* Steps of other threads, and those of the same thread that begin elsewhere.
LEMMA OnlyAcceptReads ==
    ASSUME IndInv, [Next]_vars, NEW c \in Threads, call[c].step = "validate", call'[c].step = "read"
    PROVE  Accept(c)
  <1>1. CallType
    BY DEF IndInv
  <1>2. call'[c] # call[c]
    OBVIOUS
  <1>3. CASE Restart
    <2>1. call'[c] = Idle("none", FALSE)
      BY <1>3 DEF Restart
    <2> QED BY <2>1, IdleFacts
  <1>4. ASSUME NEW d \in Threads,
               Acts(d)
        PROVE  Accept(c)
    <2>1. \E j : call' = [call EXCEPT ![d] = j]
      BY <1>4, <1>2 DEF Acts, PatchAgentConfig, PatchHitl, ReadSettings, ReadEnds, Accept, Refuse, LoadSelect, LoadFill, LoadFails, Merge,
                  AssignCache, WriteToDb, WriteFails, AuditPart, AuditFails, Ends, Goes
    <2>2. d = c
      BY <1>1, <1>2, <2>1 DEF CallType
    <2>3. CASE Refuse(d)
      <3>1. Ends(c, "refused") /\ call[c].wrote \in BOOLEAN
        BY <1>1, <2>2, <2>3 DEF Refuse, CallType, Call
      <3>2. call'[c] = Idle("refused", call[c].wrote)
        BY <1>1, <3>1 DEF Ends, CallType
      <3> QED BY <3>1, <3>2, IdleFacts
    <2>4. CASE ReadEnds(d)
      <3>1. Ends(c, "none") /\ call[c].wrote \in BOOLEAN
        BY <1>1, <2>2, <2>4 DEF ReadEnds, CallType, Call
      <3>2. call'[c] = Idle("none", call[c].wrote)
        BY <1>1, <3>1 DEF Ends, CallType
      <3> QED BY <3>1, <3>2, IdleFacts
    <2>5. CASE LoadSelect(d)
      <3>1. call'[c].step = "fill"
        BY <1>1, <2>2, <2>5 DEF LoadSelect, CallType, Call
      <3> QED BY <3>1
    <2> QED BY <1>2, <1>4, <2>2, <2>3, <2>4, <2>5 DEF Acts, Busy, PatchAgentConfig, PatchHitl, ReadSettings, ReadEnds, Accept, LoadSelect, LoadFill, LoadFails, Merge,
                  AssignCache, WriteToDb, WriteFails, AuditPart, AuditFails
  <1> QED BY <1>2, <1>3, <1>4 DEF Next, Acts, vars, ListModels, CatalogExpires, VendorDrops

\* A stale catalog authorises no write: whatever had left the vendor's list when the
\* catalog last went stale is refused by every later PATCH (verify_for_write).
THEOREM NoStaleModel == Spec => NoLongGoneModel
  <1>1. IndInv /\ [Next]_vars =>
          \A c \in Threads : call[c].step = "validate" /\ call'[c].step = "read"
                             => Wanted(call[c].parts) \cap gone = {}
    BY OnlyAcceptReads, AcceptedIsListed
  <1>2. IndInv /\ [Next]_vars =>
          [\A c \in Threads : call[c].step = "validate" /\ call'[c].step = "read"
                              => Wanted(call[c].parts) \cap gone = {}]_vars
    BY <1>1
  <1> QED BY <1>2, InitOK, StepOK, PTL DEF Spec, NoLongGoneModel
-----------------------------------------------------------------------------
(* Cache and table, while no two calls overlap and nothing fails.           *)

\* The cache of a process that no call is about to write from.
Same ==
    /\ ~ loaded => cache = NoRows
    /\ loaded => \A k \in Keys : Content(cache[k]) = Content(db[k])

OthersIdle(c) == \A d \in Threads \ {c} : call[d].step = "idle"

LEMMA SameUnlessWriting ==
    ASSUME NEW c \in Threads, AgreeOK, OthersIdle(c), call[c].step # "write"
    PROVE  Same
  BY DEF AgreeOK, OthersIdle, Same

LEMMA SameAgrees == Same => AgreeOK
  BY DEF Same, AgreeOK

\* Steps that leave cache and table alone and do not bring a call near a write.
LEMMA AsideOK ==
    ASSUME NEW c \in Threads, AgreeOK, OthersIdle(c), call[c].step # "write",
           UNCHANGED <<db, cache, loaded>>, call'[c].step \in {"idle", "validate", "read", "audit"}
    PROVE  AgreeOK' /\ HandOK(c)'
  <1>1. Same
    BY SameUnlessWriting
  <1>2. Same'
    BY <1>1 DEF Same
  <1>3. Same' => AgreeOK'
    BY SameAgrees, PTL
  <1> QED BY <1>2, <1>3 DEF HandOK

\* The load of a process at rest shows the table.
LEMMA LoadAgrees ==
    ASSUME IndInv, NEW c \in Threads, AgreeOK, HandOK(c), OthersIdle(c), LoadSelect(c) \/ LoadFill(c)
    PROVE  AgreeOK' /\ HandOK(c)'
  <1>0. CallType /\ Types
    BY DEF IndInv
  <1>1. Same /\ call[c] \in Call
    BY <1>0, SameUnlessWriting DEF LoadSelect, LoadFill, CallType
  <1>2. Same' => AgreeOK'
    BY SameAgrees, PTL
  <1>3. CASE LoadSelect(c)
    <2>1. Same'
      BY <1>1, <1>3 DEF LoadSelect, Same
    <2>2. call'[c].step = "fill" /\ call'[c].rows = db
      BY <1>0, <1>1, <1>3 DEF LoadSelect, CallType, Call
    <2>3. HandOK(c)'
      BY <1>3, <2>2 DEF LoadSelect, HandOK
    <2> QED BY <1>2, <2>1, <2>3
  <1>4. CASE LoadFill(c)
    <2>1. call[c].rows = db /\ cache = NoRows
      BY <1>1, <1>4 DEF LoadFill, HandOK, Same
    <2>2. ASSUME NEW k \in Keys PROVE cache'[k] = db'[k]
      BY <1>4, <2>1 DEF LoadFill, NoRows
    <2>3. Same'
      BY <1>4, <2>2 DEF LoadFill, Same
    <2>4. call'[c].step = "validate"
      BY <1>0, <1>1, <1>4 DEF LoadFill, CallType, Call
    <2> QED BY <1>2, <2>3, <2>4 DEF HandOK
  <1> QED BY <1>3, <1>4

\* The copy of a merge differs from the stored value in the field of the part.
LEMMA MergeAgrees ==
    ASSUME IndInv, NEW c \in Threads, AgreeOK, OthersIdle(c), Merge(c)
    PROVE  AgreeOK' /\ HandOK(c)'
  <1>0. CallType /\ JobOK(call[c]) /\ call[c] \in Call
    BY DEF IndInv, CallType, JobsOK
  <1>1. Same /\ loaded
    BY SameUnlessWriting DEF Merge, IndInv, MergedOK, Merged
  <1>2. call[c].parts # << >>
    BY <1>0 DEF Merge, JobOK, Merged
  <1>3. Key(c) \in Keys
    BY <1>0, <1>2, PartFacts
  <1>4. Content(cache[Key(c)]) = Content(db[Key(c)])
    BY <1>1, <1>3 DEF Same
  <1> DEFINE part == Head(call[c].parts)
             merged == [Content(cache[Key(c)]) EXCEPT ![part.field] = part.value]
             j == [call[c] EXCEPT !.step = "cache", !.current = merged]
  <1>5. merged = Due(c)
    BY <1>4 DEF Due
  <1>6. call' = [call EXCEPT ![c] = j] /\ UNCHANGED <<db, cache, loaded>>
    BY DEF Merge
  <1> HIDE DEF merged
  <1>7. j.step = "cache" /\ j.current = merged /\ j.parts = call[c].parts
    BY <1>0 DEF Call
  <1> HIDE DEF j
  <1>8. call'[c] = j
    BY <1>0, <1>6 DEF CallType
  <1>9. Due(c)' = Due(c)
    BY <1>6, <1>7, <1>8 DEF Due, Key
  <1>10. HandOK(c)'
    BY <1>5, <1>7, <1>8, <1>9 DEF HandOK
  <1>11. Same'
    BY <1>1, <1>6 DEF Same
  <1>12. Same' => AgreeOK'
    BY SameAgrees, PTL
  <1> QED BY <1>10, <1>11, <1>12

LEMMA AssignAgrees ==
    ASSUME IndInv, NEW c \in Threads, AgreeOK, HandOK(c), OthersIdle(c), AssignCache(c)
    PROVE  AgreeOK' /\ HandOK(c)'
  <1>0. CallType /\ JobOK(call[c]) /\ call[c] \in Call /\ Types /\ MergedOK
    BY DEF IndInv, CallType, JobsOK
  <1>1. Same /\ loaded
    BY <1>0, SameUnlessWriting DEF AssignCache, MergedOK, Merged
  <1>2. call[c].parts # << >>
    BY <1>0 DEF AssignCache, JobOK, Merged
  <1>3. Key(c) \in Keys
    BY <1>0, <1>2, PartFacts
  <1>4. /\ call'[c].step = "write" /\ call'[c].parts = call[c].parts
        /\ call'[c].current = call[c].current
    BY <1>0 DEF AssignCache, Goes, CallType, Call
  <1>5. /\ db' = db /\ loaded' = loaded
        /\ cache' = [cache EXCEPT ![Key(c)] = call[c].current]
    BY DEF AssignCache
  <1>6. Key(c)' = Key(c) /\ Due(c)' = Due(c)
    BY <1>4, <1>5 DEF Key, Due
  <1>7. cache'[Key(c)] = call[c].current
    BY <1>0, <1>3, <1>5 DEF Types
  <1>8. call[c].current = Due(c)
    BY DEF HandOK, AssignCache
  <1>9. HandOK(c)'
    BY <1>4, <1>6, <1>7, <1>8 DEF HandOK
  <1>10. ASSUME NEW k \in Keys, k # Key(c) PROVE Content(cache'[k]) = Content(db'[k])
    BY <1>0, <1>1, <1>5, <1>10 DEF Types, Same
  <1>11. AgreeOK'
    BY <1>1, <1>4, <1>5, <1>6, <1>10 DEF AgreeOK
  <1> QED BY <1>9, <1>11

LEMMA WriteAgrees ==
    ASSUME IndInv, NEW c \in Threads, AgreeOK, HandOK(c), OthersIdle(c), WriteToDb(c)
    PROVE  AgreeOK' /\ HandOK(c)'
  <1>0. CallType /\ JobOK(call[c]) /\ call[c] \in Call /\ Types /\ MergedOK
    BY DEF IndInv, CallType, JobsOK
  <1>1. loaded /\ cache[Key(c)] = call[c].current
    BY <1>0 DEF WriteToDb, MergedOK, Merged, HandOK
  <1>2. Key(c) \in Keys
    BY <1>0, PartFacts DEF WriteToDb, JobOK, Merged
  <1>3. call'[c].step = "audit"
    BY <1>0 DEF WriteToDb, CallType, Call
  <1>4. /\ cache' = cache /\ loaded' = loaded
        /\ db' = [db EXCEPT ![Key(c)] = call[c].current]
    BY DEF WriteToDb
  <1>5. ASSUME NEW k \in Keys PROVE Content(cache'[k]) = Content(db'[k])
    <2>1. CASE k = Key(c)
      BY <1>0, <1>1, <1>2, <1>4, <2>1 DEF Types
    <2>2. CASE k # Key(c)
      BY <1>0, <1>1, <1>4, <2>2 DEF Types, AgreeOK, OthersIdle
    <2> QED BY <2>1, <2>2
  <1>6. AgreeOK'
    BY <1>1, <1>4, <1>5 DEF AgreeOK
  <1> QED BY <1>3, <1>6 DEF HandOK
\* A step of one thread is the work of the only call, unless another one is under way.
LEMMA ActsAlone ==
    ASSUME IndInv, Lone, NEW c \in Threads, Acts(c), ~ raced'
    PROVE  ~ raced /\ OthersIdle(c)
  <1>1. CASE \/ \E request \in Requests : PatchAgentConfig(c, request)
             \/ \E value \in {Set, Unset} : PatchHitl(c, value)
             \/ ReadSettings(c)
    BY <1>1 DEF PatchAgentConfig, PatchHitl, ReadSettings, OthersIdle, Busy
  <1>2. CASE \/ ReadEnds(c) \/ Accept(c) \/ Refuse(c) \/ LoadSelect(c) \/ LoadFill(c) \/ LoadFails(c)
             \/ Merge(c) \/ AssignCache(c) \/ WriteToDb(c) \/ WriteFails(c)
             \/ AuditPart(c) \/ AuditFails(c)
    <2>1. Busy(c) /\ raced' = raced
      BY <1>2 DEF Busy, ReadEnds, Accept, Refuse, LoadSelect, LoadFill, LoadFails, Merge, AssignCache,
                  WriteToDb, WriteFails, AuditPart, AuditFails
    <2> QED BY <2>1 DEF Lone, OthersIdle, Busy
  <1> QED BY <1>1, <1>2 DEF Acts

LEMMA ActsOnOne ==
    ASSUME IndInv, NEW c \in Threads, Acts(c)
    PROVE  \A d \in Threads \ {c} : call'[d] = call[d]
  <1>1. CallType
    BY DEF IndInv
  <1>2. call' = call \/ \E j : call' = [call EXCEPT ![c] = j]
    BY DEF Acts, PatchAgentConfig, PatchHitl, ReadSettings, ReadEnds, Accept, Refuse, LoadSelect, LoadFill, LoadFails,
           Merge, AssignCache, WriteToDb, WriteFails, AuditPart, AuditFails, Ends, Goes
  <1> QED BY <1>1, <1>2 DEF CallType

LEMMA EndsIdle ==
    ASSUME IndInv, NEW c \in Threads, NEW a \in {"none", "refused"}, Ends(c, a)
    PROVE  call'[c].step = "idle"
  <1>1. CallType /\ call[c].wrote \in BOOLEAN
    BY DEF IndInv, CallType, Call
  <1>2. call'[c] = Idle(a, call[c].wrote)
    BY <1>1 DEF Ends, CallType
  <1> QED BY <1>1, <1>2, IdleFacts

LEMMA ActsAgree ==
    ASSUME IndInv, NEW c \in Threads, Acts(c), AgreeOK, HandOK(c), OthersIdle(c), faults' = 0
    PROVE  AgreeOK' /\ HandOK(c)'
  <1>0. CallType /\ Types /\ call[c] \in Call
    BY DEF IndInv, CallType
  <1>1. ASSUME NEW request \in Requests, PatchAgentConfig(c, request)
        PROVE  AgreeOK' /\ HandOK(c)'
    <2> DEFINE i == Idle("none", FALSE)
               j == [i EXCEPT !.step = "validate", !.parts = request]
    <2>1. i \in Call
      BY IdleFacts
    <2>2. call' = [call EXCEPT ![c] = j]
      BY <1>1 DEF PatchAgentConfig
    <2> HIDE DEF i
    <2>3. j.step = "validate"
      BY <2>1 DEF Call
    <2> HIDE DEF j
    <2>4. call'[c].step = "validate"
      BY <1>0, <2>2, <2>3 DEF CallType
    <2> QED BY <1>1, <2>4, AsideOK DEF PatchAgentConfig, Busy
  <1>2. ASSUME NEW value \in {Set, Unset}, PatchHitl(c, value)
        PROVE  AgreeOK' /\ HandOK(c)'
    <2> DEFINE i == Idle("none", FALSE)
               parts == <<[field |-> "gate", value |-> value]>>
               j == [i EXCEPT !.step = "validate", !.parts = parts]
    <2>1. i \in Call
      BY IdleFacts
    <2>2. call' = [call EXCEPT ![c] = j]
      BY <1>2 DEF PatchHitl
    <2> HIDE DEF i, parts
    <2>3. j.step = "validate"
      BY <2>1 DEF Call
    <2> HIDE DEF j
    <2>4. call'[c].step = "validate"
      BY <1>0, <2>2, <2>3 DEF CallType
    <2> QED BY <1>2, <2>4, AsideOK DEF PatchHitl, Busy
  <1>21. CASE ReadSettings(c)
    <2> DEFINE i == Idle("none", FALSE)
               j == [i EXCEPT !.step = "validate"]
    <2>1. i \in Call
      BY IdleFacts
    <2>2. call' = [call EXCEPT ![c] = j]
      BY <1>21 DEF ReadSettings
    <2> HIDE DEF i
    <2>3. j.step = "validate"
      BY <2>1 DEF Call
    <2> HIDE DEF j
    <2>4. call'[c].step = "validate"
      BY <1>0, <2>2, <2>3 DEF CallType
    <2> QED BY <1>21, <2>4, AsideOK DEF ReadSettings, Busy
  <1>22. CASE ReadEnds(c)
    <2>1. call'[c].step = "idle"
      BY <1>22, EndsIdle DEF ReadEnds
    <2> QED BY <1>22, <2>1, AsideOK DEF ReadEnds
  <1>3. CASE Accept(c)
    <2>1. call'[c].step = "read"
      BY <1>0, <1>3 DEF Accept, Goes, CallType, Call
    <2> QED BY <1>3, <2>1, AsideOK DEF Accept
  <1>4. CASE Refuse(c)
    <2>1. call'[c].step = "idle"
      BY <1>4, EndsIdle DEF Refuse
    <2> QED BY <1>4, <2>1, AsideOK DEF Refuse
  <1>5. CASE LoadSelect(c) \/ LoadFill(c)
    BY <1>5, LoadAgrees
  <1>6. CASE LoadFails(c) \/ WriteFails(c) \/ AuditFails(c)
    BY <1>0, <1>6, FaultCounts DEF LoadFails, WriteFails, AuditFails, Types
  <1>7. CASE Merge(c)
    BY <1>7, MergeAgrees
  <1>8. CASE AssignCache(c)
    BY <1>8, AssignAgrees
  <1>9. CASE WriteToDb(c)
    BY <1>9, WriteAgrees
  <1>10. CASE AuditPart(c)
    <2>1. CASE Len(call[c].parts) = 1
      <3>1. Ends(c, "none")
        BY <1>10, <2>1 DEF AuditPart
      <3>2. call'[c].step = "idle"
        BY <3>1, EndsIdle
      <3> QED BY <1>10, <3>2, AsideOK DEF AuditPart
    <2>2. CASE Len(call[c].parts) # 1
      <3> DEFINE tail == Tail(call[c].parts)
                 j == [call[c] EXCEPT !.step = "read", !.parts = tail, !.current = NoDoc]
      <3>1. call' = [call EXCEPT ![c] = j]
        BY <1>10, <2>2 DEF AuditPart
      <3> HIDE DEF tail
      <3>2. j.step = "read"
        BY <1>0 DEF Call
      <3> HIDE DEF j
      <3>3. call'[c].step = "read"
        BY <1>0, <3>1, <3>2 DEF CallType
      <3> QED BY <1>10, <3>3, AsideOK DEF AuditPart
    <2> QED BY <2>1, <2>2
  <1> QED BY <1>1, <1>2, <1>21, <1>22, <1>3, <1>4, <1>5, <1>6, <1>7, <1>8, <1>9, <1>10 DEF Acts

LEMMA LoneStep ==
    ASSUME IndInv, Lone, [Next]_vars
    PROVE  Lone'
  <1>1. CallType
    BY DEF IndInv
  <1>2. ASSUME NEW c \in Threads, Acts(c), ~ raced'
        PROVE  \A d \in Threads \ {c} : call'[d].step = "idle"
    BY <1>2, ActsAlone, ActsOnOne DEF OthersIdle
  <1>3. ASSUME NEW c \in Threads, Acts(c) PROVE Lone'
    BY <1>2, <1>3 DEF Lone, Busy
  <1>4. CASE Restart
    <2>1. \A d \in Threads : call'[d] = Idle("none", FALSE)
      BY <1>4 DEF Restart
    <2> QED BY <2>1, IdleFacts DEF Lone, Busy
  <1>5. CASE ListModels \/ CatalogExpires \/ UNCHANGED vars \/ \E m \in Models : VendorDrops(m)
    BY <1>5 DEF ListModels, CatalogExpires, VendorDrops, vars, Lone, Busy
  <1> QED BY <1>3, <1>4, <1>5 DEF Next, Acts

LEMMA QuietStep ==
    ASSUME IndInv, Lone, QuietOK, [Next]_vars
    PROVE  QuietOK'
  <1> SUFFICES ASSUME ~ raced', faults' = 0 PROVE AgreeOK' /\ \A d \in Threads : HandOK(d)'
    BY DEF QuietOK, Quiet
  <1>0. CallType /\ Types
    BY DEF IndInv
  <1>1. ASSUME NEW c \in Threads, Acts(c) PROVE AgreeOK' /\ \A d \in Threads : HandOK(d)'
    <2>1. ~ raced /\ OthersIdle(c)
      BY <1>1, ActsAlone
    <2>2. faults = 0
      BY <1>0, <1>1, FaultCounts DEF Types, Acts, PatchAgentConfig, PatchHitl, ReadSettings, ReadEnds, Accept, Refuse, LoadSelect, LoadFill,
            LoadFails, Merge, AssignCache, WriteToDb, WriteFails, AuditPart, AuditFails
    <2>3. AgreeOK /\ HandOK(c)
      BY <2>1, <2>2 DEF QuietOK, Quiet
    <2>4. AgreeOK' /\ HandOK(c)'
      BY <1>1, <2>1, <2>3, ActsAgree
    <2>5. ASSUME NEW d \in Threads, d # c PROVE HandOK(d)'
      <3>1. call'[d].step = "idle"
        BY <1>1, <2>1, <2>5, ActsOnOne DEF OthersIdle
      <3> QED BY <3>1 DEF HandOK
    <2> QED BY <2>4, <2>5
  <1>2. CASE Restart
    <2>1. \A d \in Threads : call'[d] = Idle("none", FALSE)
      BY <1>2 DEF Restart
    <2>2. \A d \in Threads : call'[d].step = "idle"
      BY <2>1, IdleFacts
    <2>3. AgreeOK'
      BY <1>2 DEF Restart, AgreeOK
    <2> QED BY <2>2, <2>3 DEF HandOK
  <1>3. CASE ListModels \/ CatalogExpires \/ UNCHANGED vars \/ \E m \in Models : VendorDrops(m)
    <2>1. UNCHANGED <<db, cache, loaded, call, raced, faults>>
      BY <1>3 DEF ListModels, CatalogExpires, VendorDrops, vars
    <2>2. AgreeOK /\ \A d \in Threads : HandOK(d)
      BY <2>1 DEF QuietOK, Quiet
    <2> QED BY <2>1, <2>2 DEF AgreeOK, HandOK, Due, Key
  <1> QED BY <1>1, <1>2, <1>3 DEF Next, Acts

LEMMA QuietInit == Init => Lone /\ QuietOK
  <1> SUFFICES ASSUME Init PROVE Lone /\ QuietOK
    OBVIOUS
  <1>1. \A d \in Threads : call[d] = Idle("none", FALSE)
    BY DEF Init
  <1>2. \A d \in Threads : call[d].step = "idle"
    BY <1>1, IdleFacts
  <1>3. AgreeOK
    BY DEF Init, AgreeOK
  <1> QED BY <1>2, <1>3 DEF Lone, Busy, QuietOK, HandOK

\* While calls do not overlap and nothing fails, a loaded process at rest shows what the
\* settings table holds, however often it restarts and at whatever point of a call.
THEOREM CacheIsTheTable == Spec => []CacheShowsTable
  <1>1. QuietOK => CacheShowsTable
    BY DEF QuietOK, Quiet, AgreeOK, CacheShowsTable, Busy
  <1> QED BY <1>1, InitOK, StepOK, QuietInit, LoneStep, QuietStep, PTL DEF Spec

\* Under the same conditions a write of a whole key changes the field of its part and
\* keeps the stored value of all others: the merge of set_node_config_override is one of
\* the table, though it reads the cache.
THEOREM OtherFieldsAreKept == Spec => WriteKeepsOtherFields
  <1> DEFINE Keeps ==
        db' # db /\ ~ raced /\ faults = 0 =>
          \E c \in Threads :
             LET part == Head(call[c].parts)
             IN  /\ call[c].step = "write"
                 /\ db' = [db EXCEPT ![KeyOf(part.field)] =
                             [Content(@) EXCEPT ![part.field] = part.value]]
  <1>1. ASSUME IndInv, Lone, QuietOK, [Next]_vars PROVE Keeps
    <2> SUFFICES ASSUME db' # db, ~ raced, faults = 0
                 PROVE  \E c \in Threads :
                           LET part == Head(call[c].parts)
                           IN  /\ call[c].step = "write"
                               /\ db' = [db EXCEPT ![KeyOf(part.field)] =
                                           [Content(@) EXCEPT ![part.field] = part.value]]
      OBVIOUS
    <2>1. PICK c \in Threads : WriteToDb(c)
      BY <1>1 DEF Next, vars, ListModels, CatalogExpires, VendorDrops, Restart, PatchAgentConfig, PatchHitl,
            ReadSettings, ReadEnds, Accept, Refuse, LoadSelect, LoadFill, LoadFails, Merge, AssignCache, WriteFails, AuditPart, AuditFails
    <2>2. call[c].step = "write" /\ HandOK(c)
      BY <1>1, <2>1 DEF WriteToDb, QuietOK, Quiet
    <2>3. call[c].current = Due(c)
      BY <2>2 DEF HandOK
    <2>4. db' = [db EXCEPT ![Key(c)] = Due(c)]
      BY <2>1, <2>3 DEF WriteToDb
    <2> QED BY <2>2, <2>4 DEF Due, Key
  <1>2. IndInv /\ Lone /\ QuietOK /\ [Next]_vars => [Keeps]_vars
    BY <1>1
  <1> QED BY <1>2, InitOK, StepOK, QuietInit, LoneStep, QuietStep, PTL DEF Spec, WriteKeepsOtherFields

===============================================================================
