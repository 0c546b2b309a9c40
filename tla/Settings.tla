------------------------------- MODULE Settings -------------------------------
(***************************************************************************)
(* The settings store and the agent control plane: api/app/settings_store  *)
(* (one row per key, read through a cache of the process), the PATCH of    *)
(* routers/agents.py and agents.py, the model catalog that has to know a   *)
(* model before it is saved (model_catalog.py), and the PATCH of a gate in *)
(* routers/settings.py.  Those of the brand and of the credentials are     *)
(* like it, over keys of their own, and are left out.                      *)
(*                                                                         *)
(* A change reads the whole value of a key through the cache, merges its   *)
(* own field into a copy, assigns the copy to the cache and then writes it *)
(* to the database.  Endpoints run on a thread pool: each of these is a    *)
(* step, and so are the two halves of the first load.                      *)
(***************************************************************************)
EXTENDS Naturals, Sequences

CONSTANTS Threads,
          Models,     \* model ids
          Requests,   \* the bodies clients send: sequences of parts
          None,
          Tables,     \* the settings tables a process may find
          MaxFaults,  \* bound: failing loads, writes and audit rows
          MaxRestarts \* bound: restarts of the process

\* One part of a PATCH: a field and its new value.  A model has values of its own, of
\* the others matters whether they hold their default; null clears a field.
Fields == {"gate", "cap_usd", "model", "enabled"}
Unset == "unset"
Set == "set"
Values == Models \cup {Set, Unset}
Part == [field : Fields, value : Values]

Keys == {"hitl", "agent_budget_caps", "node_config"}
KeyOf(field) ==
    CASE field = "gate" -> "hitl" [] field = "cap_usd" -> "agent_budget_caps"
      [] OTHER -> "node_config"

Doc == [Fields -> Values]
NoDoc == [f \in Fields |-> Unset]

ASSUME SettingsAssumption ==
    /\ {Set, Unset} \cap Models = {}
    /\ Requests \subseteq Seq(Part)
    /\ << >> \notin Requests
    /\ Tables \subseteq [Keys -> Doc \cup {None}]
    /\ MaxFaults \in Nat /\ MaxRestarts \in Nat

VARIABLES db,       \* the settings table: the value of each key, None without a row
          cache,    \* _cache, of the process
          loaded,   \* _cache_loaded
          vendor,   \* the models that OpenRouter lists
          catalog,  \* the cache of model_catalog
          call,     \* the local variables of each thread
          gone,     \* history: models the vendor had dropped when the catalog last went stale
          raced,    \* history: two calls have overlapped
          faults, restarts

vars == <<db, cache, loaded, vendor, catalog, call, gone, raced, faults, restarts>>

\* _cache.get(key, {}): no entry means code defaults.
Content(entry) == IF entry = None THEN NoDoc ELSE entry

Catalog == [rows : SUBSET Models, fresh : BOOLEAN]
NoCatalog == [rows |-> {}, fresh |-> FALSE]

\* parts: what is left to do, the first being worked on;  rows: the SELECT of a load;
\* current: the merged copy;  wrote: whether a part reached the table;  answer: whether the
\* last call was refused (200 and 500 make no difference to what follows).
Call == [step : {"idle", "validate", "read", "fill", "cache", "write", "audit"},
         parts : Seq(Part), rows : [Keys -> Doc \cup {None}], current : Doc,
         wrote : BOOLEAN, answer : {"none", "refused"}]

NoRows == [k \in Keys |-> None]
Idle(answer, wrote) == [step |-> "idle", parts |-> << >>, rows |-> NoRows, current |-> NoDoc,
                        wrote |-> wrote, answer |-> answer]

Ends(c, answer) == call' = [call EXCEPT ![c] = Idle(answer, @.wrote)]
Goes(c, step) == call' = [call EXCEPT ![c] = [@ EXCEPT !.step = step]]

Busy(c) == call[c].step # "idle"
Key(c) == KeyOf(Head(call[c].parts).field)

Fault == faults < MaxFaults /\ faults' = faults + 1

Init ==
    /\ db \in Tables
    /\ cache = NoRows
    /\ loaded = FALSE
    /\ vendor = Models
    /\ catalog = NoCatalog
    /\ call = [c \in Threads |-> Idle("none", FALSE)]
    /\ gone = {}
    /\ raced = FALSE
    /\ faults = 0
    /\ restarts = 0

-----------------------------------------------------------------------------
(* The model catalog.                                                       *)

\* _try_refresh reaches the vendor, from any read of the catalog.
Refreshed == [rows |-> vendor, fresh |-> TRUE]

\* list_models refreshes a catalog that is empty or older than the TTL.
ListModels ==
    /\ catalog.rows = {} \/ ~ catalog.fresh
    /\ catalog' = Refreshed
    /\ UNCHANGED <<db, cache, loaded, vendor, call, gone, raced, faults, restarts>>

\* TTL_SECONDS pass after the last fetch.
CatalogExpires ==
    /\ catalog.fresh
    /\ catalog' = [catalog EXCEPT !.fresh = FALSE]
    /\ gone' = Models \ vendor
    /\ UNCHANGED <<db, cache, loaded, vendor, call, raced, faults, restarts>>

\* One model after the other disappears; the last one stays.
VendorDrops(m) ==
    /\ m \in vendor /\ vendor # {m}
    /\ vendor' = vendor \ {m}
    /\ UNCHANGED <<db, cache, loaded, catalog, call, gone, raced, faults, restarts>>

\* A plausible bug: rows that are cached authorise a write whatever their age.
VerifyAgainstCached(m, after) ==
    \/ catalog.rows # {} /\ after = catalog /\ m \in after.rows
    \/ catalog.rows = {} /\ after = Refreshed /\ m \in after.rows

\* verify_for_write: a fresh catalog decides, any other is fetched first.
VerifyForWrite(m, after) ==
    /\ after = IF catalog.rows # {} /\ catalog.fresh THEN catalog ELSE Refreshed
    /\ m \in after.rows

-----------------------------------------------------------------------------
(* PATCH /api/agents/{node}/config.                                         *)

PatchAgentConfig(c, request) ==
    /\ ~ Busy(c)
    /\ call' = [call EXCEPT ![c] = [Idle("none", FALSE) EXCEPT !.step = "validate",
                                                                !.parts = request]]
    /\ raced' = (raced \/ \E d \in Threads \ {c} : Busy(d))
    /\ UNCHANGED <<db, cache, loaded, vendor, catalog, gone, faults, restarts>>

\* PATCH /api/settings/hitl of a known node, confirmed: one part, nothing to verify.
PatchHitl(c, value) ==
    /\ ~ Busy(c)
    /\ call' = [call EXCEPT ![c] = [Idle("none", FALSE) EXCEPT
                                      !.step = "validate",
                                      !.parts = <<[field |-> "gate", value |-> value]>>]]
    /\ raced' = (raced \/ \E d \in Threads \ {c} : Busy(d))
    /\ UNCHANGED <<db, cache, loaded, vendor, catalog, gone, faults, restarts>>

\* A GET of the settings or of the roster, or a run that starts, in a process that has
\* not loaded yet; in any other it changes nothing.
ReadSettings(c) ==
    /\ ~ Busy(c) /\ ~ loaded
    /\ call' = [call EXCEPT ![c] = [Idle("none", FALSE) EXCEPT !.step = "validate"]]
    /\ raced' = (raced \/ \E d \in Threads \ {c} : Busy(d))
    /\ UNCHANGED <<db, cache, loaded, vendor, catalog, gone, faults, restarts>>

ReadEnds(c) ==
    /\ call[c].step = "validate" /\ loaded
    /\ call[c].parts = << >>
    /\ Ends(c, "none")
    /\ UNCHANGED <<db, cache, loaded, vendor, catalog, gone, raced, faults, restarts>>

\* The models a request wants to save.
Wanted(parts) == {parts[i].value : i \in {j \in DOMAIN parts : parts[j].field = "model"}} \ {Unset}

\* A plausible bug: the node is looked up without the store, which nobody has loaded.
AcceptUnloaded(c) ==
    /\ call[c].step = "validate"
    /\ call[c].parts # << >>
    /\ \E after \in {catalog, Refreshed} :
         /\ IF Wanted(call[c].parts) = {} THEN after = catalog
            ELSE \A m \in Wanted(call[c].parts) : VerifyForWrite(m, after)
         /\ catalog' = after
    /\ Goes(c, "read")
    /\ UNCHANGED <<db, cache, loaded, vendor, gone, raced, faults, restarts>>

\* The node is looked up in the loaded store, and every field is validated before the
\* first is written.
Accept(c) ==
    /\ call[c].step = "validate" /\ loaded
    /\ call[c].parts # << >>
    /\ \E after \in {catalog, Refreshed} :
         /\ IF Wanted(call[c].parts) = {} THEN after = catalog
            ELSE \A m \in Wanted(call[c].parts) : VerifyForWrite(m, after)
         /\ catalog' = after
    /\ Goes(c, "read")
    /\ UNCHANGED <<db, cache, loaded, vendor, gone, raced, faults, restarts>>

\* A plausible bug: the model is verified only when its turn to be written comes.
RefuseAtItsTurn(c) ==
    /\ call[c].step = "read"
    /\ Wanted(call[c].parts) # {}
    /\ \E after \in {catalog, Refreshed} :
         /\ after = IF catalog.rows # {} /\ catalog.fresh THEN catalog ELSE Refreshed
         /\ ~ (Wanted(call[c].parts) \subseteq after.rows)
         /\ catalog' = after
    /\ Ends(c, "refused")
    /\ UNCHANGED <<db, cache, loaded, vendor, gone, raced, faults, restarts>>

\* 422 for a model the catalog does not list, 503 when a catalog that has to be fetched
\* cannot be.
Refuse(c) ==
    /\ call[c].step = "validate" /\ loaded
    /\ Wanted(call[c].parts) # {}
    /\ \/ /\ catalog' = IF catalog.rows # {} /\ catalog.fresh THEN catalog ELSE Refreshed
          /\ ~ (Wanted(call[c].parts) \subseteq catalog'.rows)
       \/ /\ ~ (catalog.rows # {} /\ catalog.fresh)
          /\ UNCHANGED catalog
    /\ Ends(c, "refused")
    /\ UNCHANGED <<db, cache, loaded, vendor, gone, raced, faults, restarts>>

-----------------------------------------------------------------------------
(* settings_store: the parts are written one after the other.               *)

\* _load_from_db: the SELECT of a process that has not loaded yet, at the first look
\* into the store, in front of all checks.
LoadSelect(c) ==
    /\ call[c].step = "validate" /\ ~ loaded
    /\ call' = [call EXCEPT ![c] = [@ EXCEPT !.step = "fill", !.rows = db]]
    /\ UNCHANGED <<db, cache, loaded, vendor, catalog, gone, raced, faults, restarts>>

\* The rows replace what the cache holds for their keys.
LoadFill(c) ==
    /\ call[c].step = "fill"
    /\ cache' = [k \in Keys |-> IF call[c].rows[k] = None THEN cache[k] ELSE call[c].rows[k]]
    /\ loaded' = TRUE
    /\ call' = [call EXCEPT ![c] = [@ EXCEPT !.step = "validate", !.rows = NoRows]]
    /\ UNCHANGED <<db, vendor, catalog, gone, raced, faults, restarts>>

\* The SELECT fails: the cache counts as loaded all the same.
LoadFails(c) ==
    /\ call[c].step = "validate" /\ ~ loaded
    /\ Fault
    /\ loaded' = TRUE
    /\ UNCHANGED <<db, cache, vendor, catalog, call, gone, raced, restarts>>

\* A plausible bug: the new field replaces the value of its key.
MergeReplaces(c) ==
    /\ call[c].step = "read"
    /\ LET part == Head(call[c].parts)
       IN  call' = [call EXCEPT ![c] = [@ EXCEPT !.step = "cache",
                                                 !.current = [NoDoc EXCEPT ![part.field] = part.value]]]
    /\ UNCHANGED <<db, cache, loaded, vendor, catalog, gone, raced, faults, restarts>>

\* The field of the first part is merged into a copy of the cached value; the store is
\* loaded since the look-up.
Merge(c) ==
    /\ call[c].step = "read"
    /\ LET part == Head(call[c].parts)
       IN  call' = [call EXCEPT ![c] =
                      [@ EXCEPT !.step = "cache",
                                !.current = [Content(cache[Key(c)]) EXCEPT ![part.field] = part.value]]]
    /\ UNCHANGED <<db, cache, loaded, vendor, catalog, gone, raced, faults, restarts>>

\* A plausible bug: the change goes to the database only.
AssignNothing(c) ==
    /\ call[c].step = "cache"
    /\ Goes(c, "write")
    /\ UNCHANGED <<db, cache, loaded, vendor, catalog, gone, raced, faults, restarts>>

\* _cache[key] = current.
AssignCache(c) ==
    /\ call[c].step = "cache"
    /\ cache' = [cache EXCEPT ![Key(c)] = call[c].current]
    /\ Goes(c, "write")
    /\ UNCHANGED <<db, loaded, vendor, catalog, gone, raced, faults, restarts>>

\* The upsert of the whole value.
WriteToDb(c) ==
    /\ call[c].step = "write"
    /\ db' = [db EXCEPT ![Key(c)] = call[c].current]
    /\ call' = [call EXCEPT ![c] = [@ EXCEPT !.step = "audit", !.wrote = TRUE]]
    /\ UNCHANGED <<cache, loaded, vendor, catalog, gone, raced, faults, restarts>>

\* The upsert raises: 500, and the cache keeps the new value.
WriteFails(c) ==
    /\ call[c].step = "write"
    /\ Fault
    /\ Ends(c, "none")
    /\ UNCHANGED <<db, cache, loaded, vendor, catalog, gone, raced, restarts>>

\* One audit row per part, then the next part.
AuditPart(c) ==
    /\ call[c].step = "audit"
    /\ IF Len(call[c].parts) = 1 THEN Ends(c, "none")
       ELSE LET rest == Tail(call[c].parts)
            IN  call' = [call EXCEPT ![c] = [@ EXCEPT !.step = "read", !.parts = rest,
                                                       !.current = NoDoc]]
    /\ UNCHANGED <<db, cache, loaded, vendor, catalog, gone, raced, faults, restarts>>

AuditFails(c) ==
    /\ call[c].step = "audit"
    /\ Fault
    /\ Ends(c, "none")
    /\ UNCHANGED <<db, cache, loaded, vendor, catalog, gone, raced, restarts>>

Restart ==
    /\ restarts < MaxRestarts /\ restarts' = restarts + 1
    /\ cache' = NoRows /\ loaded' = FALSE /\ catalog' = NoCatalog
    /\ call' = [c \in Threads |-> Idle("none", FALSE)]
    /\ UNCHANGED <<db, vendor, gone, raced, faults>>

Next ==
    \/ \E c \in Threads :
         \/ \E request \in Requests : PatchAgentConfig(c, request)
         \/ \E value \in {Set, Unset} : PatchHitl(c, value)
         \/ ReadSettings(c) \/ ReadEnds(c)
         \/ Accept(c) \/ Refuse(c) \/ LoadSelect(c) \/ LoadFill(c) \/ LoadFails(c)
         \/ Merge(c) \/ AssignCache(c) \/ WriteToDb(c) \/ WriteFails(c)
         \/ AuditPart(c) \/ AuditFails(c)
    \/ ListModels \/ CatalogExpires \/ Restart
    \/ \E m \in Models : VendorDrops(m)

Spec == Init /\ [][Next]_vars

-----------------------------------------------------------------------------
(* Properties.                                                              *)

\* Type invariant; a loaded cache was merged before it is written back.
TypeOK ==
    /\ db \in [Keys -> Doc \cup {None}]
    /\ cache \in [Keys -> Doc \cup {None}]
    /\ loaded \in BOOLEAN
    /\ vendor \subseteq Models
    /\ catalog \in Catalog
    /\ call \in [Threads -> Call]
    /\ gone \subseteq Models
    /\ raced \in BOOLEAN
    /\ faults \in 0 .. MaxFaults
    /\ restarts \in 0 .. MaxRestarts
    /\ \A c \in Threads : call[c].step \in {"read", "cache", "write", "audit"} => loaded

\* A PATCH that is answered 4xx or 503 left no part of itself behind: every field is
\* validated before the first one is written, whatever fails.
RefusedPatchChangesNothing == \A c \in Threads : call[c].answer = "refused" => ~ call[c].wrote

\* As long as no two calls overlapped and no statement failed, over restarts at any
\* point of a call: a loaded process at rest shows and hands to new runs exactly what
\* the table holds.
CacheShowsTable ==
    /\ loaded /\ ~ raced /\ faults = 0
    /\ \A c \in Threads : ~ Busy(c)
    => \A k \in Keys : Content(cache[k]) = Content(db[k])

\* Under the same conditions a write of a whole key changes the one field it is about
\* and keeps the stored value of every other one.
WriteKeepsOtherFields ==
    [][db' # db /\ ~ raced /\ faults = 0 =>
         \E c \in Threads :
            LET part == Head(call[c].parts)
            IN  /\ call[c].step = "write"
                /\ db' = [db EXCEPT ![KeyOf(part.field)] =
                            [Content(@) EXCEPT ![part.field] = part.value]]]_vars

\* A cached catalog may serve reads but never authorises a write when it is stale: a
\* model that had left the vendor's list when the catalog last went stale is not
\* accepted by any later PATCH.
NoLongGoneModel ==
    [][\A c \in Threads :
         call[c].step = "validate" /\ call'[c].step = "read"
         => Wanted(call[c].parts) \cap gone = {}]_vars

=============================================================================
