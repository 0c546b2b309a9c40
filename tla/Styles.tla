-------------------------------- MODULE Styles --------------------------------
(***************************************************************************)
(* The brand style repository (api/app/styles_store.py, routers/styles.py, *)
(* pipeline/styles.py) and the approval gate that reads it                 *)
(* (routers/collections.py).                                               *)
(*                                                                         *)
(* styles.yaml is read, checked and replaced as a whole by handlers on     *)
(* threads of their own; nothing locks it in between.  A client quotes the *)
(* version it was shown.  Behind the write the handler reads the file      *)
(* again, lists the contracts, and reports those whose style the file no   *)
(* longer has.  The steps of a change of one contract file are in          *)
(* Collections; here each is one step.                                     *)
(***************************************************************************)
EXTENDS Naturals, Sequences

CONSTANTS Names, Texts,    \* of styles, of their definitions
          Contracts, Threads, None,
          FirstStyles,     \* the styles the repository was seeded with
          MaxVersion,      \* bound: versions of the repository
          MaxFaults        \* bound: listings or audit rows that fail, deaths of the process

Style == [name : Names, text : Texts]

ASSUME StylesAssumption ==
    /\ None \notin Names \cup Texts \cup Contracts
    /\ FirstStyles \in Seq(Style)
    /\ \A i, j \in DOMAIN FirstStyles : FirstStyles[i].name = FirstStyles[j].name => i = j
    /\ MaxVersion \in Nat /\ MaxFaults \in Nat

VARIABLES repo,       \* the document in styles.yaml
          shown,      \* every document it ever held, which clients may have on their screen
          contract,   \* the stored contracts, as far as styles and approval see them
          gated,      \* the contracts whose present style passed the approval gate
          told,       \* the contracts that a report named, since their style is missing
          clobbered,  \* a write replaced a document that its call had not read
          call,       \* the local variables of each thread
          faults

vars == <<repo, shown, contract, gated, told, clobbered, call, faults>>

Document == [version : Nat, styles : Seq(Style)]

\* A draft carries any style, also one that the repository never had.
Contract == [style : Names, status : {"draft", "active"}]

NamesIn(doc) == {doc.styles[i].name : i \in DOMAIN doc.styles}

\* _validate_doc: the loader refuses a document with two styles of one name.
Loads(doc) == \A i, j \in DOMAIN doc.styles : doc.styles[i].name = doc.styles[j].name => i = j

Stranded(k, doc) == contract[k].style \notin NamesIn(doc)

\* step: where the call stands;  view: what the client was shown;  base, doc: the
\* document read and the one to write, later the one read back;  affected: the report;
\* on, seen: the contract of an approval and the style it was read with.  A local that
\* is not read any more is as in Idle.
Call == [step : {"idle", "write", "reread", "list", "audit", "gate", "activate"},
         view : Document, base : Document, doc : Document, affected : SUBSET Contracts,
         on : Contracts \cup {None}, seen : Names \cup {None}]

Seed == [version |-> 1, styles |-> FirstStyles]

Idle == [step |-> "idle", view |-> Seed, base |-> Seed, doc |-> Seed, affected |-> {},
         on |-> None, seen |-> None]

Goes(c, step) == call' = [call EXCEPT ![c] = [@ EXCEPT !.step = step]]
Ends(c) == call' = [call EXCEPT ![c] = Idle]

Init ==
    /\ repo = Seed
    /\ shown = {Seed}
    /\ contract \in [Contracts -> [style : Names, status : {"draft"}]]
    /\ gated = {} /\ told = {}
    /\ clobbered = FALSE
    /\ call = [c \in Threads |-> Idle]
    /\ faults = 0

-----------------------------------------------------------------------------
(* Creating and editing a style.                                           *)

\* The style that an update leaves behind, None being what its body leaves out.
Edited(old, to, text) ==
    [name |-> IF to = None THEN old.name ELSE to,
     text |-> IF text = None THEN old.text ELSE text]

\* _add, _edit: the document to write, from the one that was read.
Added(base, name, text) ==
    [version |-> base.version + 1, styles |-> Append(base.styles, [name |-> name, text |-> text])]

Changed(base, name, to, text) ==
    [version |-> base.version + 1,
     styles |-> [i \in DOMAIN base.styles |->
                   IF base.styles[i].name = name THEN Edited(base.styles[i], to, text)
                   ELSE base.styles[i]]]

\* A plausible bug: the version of the client is not compared.
FreshAlways(view) == TRUE

\* 409 unless the file has the version that the client was shown.
Fresh(view) == repo.version = view.version

\* A client sends what it edited on its screen.
Sends(c, view) ==
    /\ call[c].step = "idle"
    /\ view \in shown /\ view.version < MaxVersion
    /\ Fresh(view)

\* The file is read once; the checks and the new document are about this reading, also
\* when the file changes before the write.  A refused request (404, 409, 422) does nothing.
Prepares(c, view, doc) ==
    /\ call' = [call EXCEPT ![c] = [Idle EXCEPT !.step = "write", !.view = view,
                                                !.base = repo, !.doc = doc]]
    /\ UNCHANGED <<repo, shown, contract, gated, told, clobbered, faults>>

CreateStyle(c, view, name, text) ==
    /\ Sends(c, view) /\ name \notin NamesIn(repo)
    /\ Prepares(c, view, Added(repo, name, text))

\* A plausible bug: a rename does not look for the new name.
UpdateUnchecked(c, view, name, to, text) ==
    /\ Sends(c, view) /\ name \in NamesIn(repo)
    /\ to # None \/ text # None
    /\ Prepares(c, view, Changed(repo, name, to, text))

UpdateStyle(c, view, name, to, text) ==
    /\ Sends(c, view) /\ name \in NamesIn(repo)
    /\ to # None \/ text # None
    /\ to \in {None, name} \/ to \notin NamesIn(repo)
    /\ Prepares(c, view, Changed(repo, name, to, text))

\* _write_doc: os.replace, whatever the file holds by now.
Write(c) ==
    /\ call[c].step = "write"
    /\ repo' = call[c].doc
    /\ shown' = shown \cup {call[c].doc}
    /\ clobbered' = (clobbered \/ repo # call[c].base)
    /\ told' = {k \in told : Stranded(k, call[c].doc)}
    /\ call' = [call EXCEPT ![c] = [Idle EXCEPT !.step = "reread"]]
    /\ UNCHANGED <<contract, gated, faults>>

\* load_file: the document read back is the one the report is about.
Reread(c) ==
    /\ call[c].step = "reread"
    /\ call' = [call EXCEPT ![c] = [@ EXCEPT !.step = "list", !.doc = repo]]
    /\ UNCHANGED <<repo, shown, contract, gated, told, clobbered, faults>>

\* A plausible bug: drafts are left out of the report.
RevalidateActive(c) == {k \in Contracts : contract[k].status = "active" /\ Stranded(k, call[c].doc)}

Revalidate(c) == {k \in Contracts : Stranded(k, call[c].doc)}

ListContracts(c) ==
    /\ call[c].step = "list"
    /\ call' = [call EXCEPT ![c] = [@ EXCEPT !.step = "audit", !.doc = Seed,
                                             !.affected = Revalidate(c)]]
    /\ UNCHANGED <<repo, shown, contract, gated, told, clobbered, faults>>

\* One contract that does not validate fails the listing, and the report is empty.
ListFails(c) ==
    /\ call[c].step = "list"
    /\ faults < MaxFaults /\ faults' = faults + 1
    /\ call' = [call EXCEPT ![c] = [Idle EXCEPT !.step = "audit"]]
    /\ UNCHANGED <<repo, shown, contract, gated, told, clobbered>>

\* The audit row is written, then the answer shows the report.
Audit(c) ==
    /\ call[c].step = "audit"
    /\ told' = told \cup call[c].affected
    /\ Ends(c)
    /\ UNCHANGED <<repo, shown, contract, gated, clobbered, faults>>

\* No audit row: 500 without the report, and the write stands.
AuditFails(c) ==
    /\ call[c].step = "audit"
    /\ faults < MaxFaults /\ faults' = faults + 1
    /\ Ends(c)
    /\ UNCHANGED <<repo, shown, contract, gated, told, clobbered>>

-----------------------------------------------------------------------------
(* The contracts.                                                          *)

\* A PATCH may give any contract any style; it is for the gate to refuse it.
PatchStyle(k, s) ==
    /\ contract[k].style # s
    /\ contract' = [contract EXCEPT ![k].style = s]
    /\ gated' = gated \ {k} /\ told' = told \ {k}
    /\ UNCHANGED <<repo, shown, clobbered, call, faults>>

ApproveCollection(c, k) ==
    /\ call[c].step = "idle" /\ contract[k].status = "draft"
    /\ call' = [call EXCEPT ![c] = [Idle EXCEPT !.step = "gate", !.on = k, !.seen = contract[k].style]]
    /\ UNCHANGED <<repo, shown, contract, gated, told, clobbered, faults>>

\* assert_known_archetype, with a reading of the repository of its own.
CompletenessGate(c) ==
    LET k == call[c].on
    IN  /\ call[c].step = "gate"
        /\ \/ /\ call[c].seen \in NamesIn(repo)
              /\ gated' = IF contract[k].style = call[c].seen THEN gated \cup {k} ELSE gated
              /\ Goes(c, "activate")
           \/ /\ call[c].seen \notin NamesIn(repo)
              /\ Ends(c)
              /\ UNCHANGED gated
        /\ UNCHANGED <<repo, shown, contract, told, clobbered, faults>>

Transition(c) ==
    /\ call[c].step = "activate"
    /\ contract' = [contract EXCEPT ![call[c].on].status = "active"]
    /\ Ends(c)
    /\ UNCHANGED <<repo, shown, gated, told, clobbered, faults>>

Crash ==
    /\ \E c \in Threads : call[c].step # "idle"
    /\ faults < MaxFaults /\ faults' = faults + 1
    /\ call' = [c \in Threads |-> Idle]
    /\ UNCHANGED <<repo, shown, contract, gated, told, clobbered>>

ThreadStep(c) ==
    \/ \E view \in shown, n \in Names :
         \/ \E x \in Texts : CreateStyle(c, view, n, x)
         \/ \E m \in Names \cup {None}, x \in Texts \cup {None} : UpdateStyle(c, view, n, m, x)
    \/ Write(c) \/ Reread(c) \/ ListContracts(c) \/ ListFails(c)
    \/ Audit(c) \/ AuditFails(c)
    \/ \E k \in Contracts : ApproveCollection(c, k)
    \/ CompletenessGate(c) \/ Transition(c)

Next ==
    \/ \E c \in Threads : ThreadStep(c)
    \/ \E k \in Contracts, s \in Names : PatchStyle(k, s)
    \/ Crash

Spec == Init /\ [][Next]_vars

-----------------------------------------------------------------------------
(* Properties.                                                             *)

\* Type invariant; whatever overlaps, the file can be loaded, and so can every
\* document that a call is about to write: no name occurs twice.
TypeOK ==
    /\ repo \in Document /\ Loads(repo)
    /\ shown \subseteq Document
    /\ contract \in [Contracts -> Contract]
    /\ gated \subseteq Contracts /\ told \subseteq Contracts
    /\ clobbered \in BOOLEAN
    /\ call \in [Threads -> Call]
    /\ \A c \in Threads : /\ Loads(call[c].doc)
                          /\ call[c].step \in {"gate", "activate"} => call[c].on \in Contracts
    /\ faults \in 0 .. MaxFaults

\* Every style but one is kept as it is.
KeepsOthers(old, new) ==
    \E n \in Names : \A i \in DOMAIN old.styles :
        old.styles[i].name # n => i \in DOMAIN new.styles /\ new.styles[i] = old.styles[i]

\* As long as no write ran over another one, every write replaces exactly the document
\* that its client was shown by the next version of it: it keeps every style but one.
WritesWhatWasShown ==
    [][repo' # repo /\ ~ clobbered' =>
         \E c \in Threads : /\ call[c].step = "write" /\ call[c].view = repo
                            /\ repo'.version = repo.version + 1
                            /\ KeepsOthers(repo, repo')]_vars

\* The call c will report contract k, if nobody changes it.
Reports(c, k) ==
    \/ call[c].step = "reread"
    \/ call[c].step = "list" /\ Stranded(k, call[c].doc)
    \/ call[c].step = "audit" /\ k \in call[c].affected

\* An approved contract is never stranded in silence: when its style, accepted by
\* the gate and not patched since, has left the repository, by a rename or by a write
\* that ran over another one, then a report has named the contract, or the call that
\* will is still at work.  Excepted are faults: a report that fails is an empty one.
StrandedIsReported ==
    faults = 0 =>
        \A k \in gated :
            contract[k].status = "active" /\ Stranded(k, repo)
              => k \in told \/ \E c \in Threads : Reports(c, k)

-----------------------------------------------------------------------------
(* What the documents say and the code does not do.                        *)

\* "The locked repo only grows; rename instead" (api/app/routers/styles.py): of two
\* styles created at once under one version one is lost, although both were answered.
\* Renames keep the number of styles, too.
OnlyGrows == [][Len(repo.styles) <= Len(repo'.styles)]_vars

===============================================================================
