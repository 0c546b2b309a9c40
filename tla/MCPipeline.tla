----------------------------- MODULE MCPipeline -----------------------------
(***************************************************************************)
(* Instances of Pipeline for TLC: the sets of gates and of switched-off    *)
(* nodes a run may start with.                                             *)
(***************************************************************************)
EXTENDS Pipeline

\* The default gates, no gate at all, and a gate no decision can reach.
GateSets == {Decidable, {}, {"contract_approval", "placement"}}
DefaultGates == {Decidable}

\* All nodes on, or one or two of them switched off.
OffSets == {{}, {"trend_research"}, {"listing_copy", "aesthetic_qc"}, {"art_render"},
            {"design_spec"}}
AllOn == {{}}

\* No stored contract, one nobody approved, and an approved one: a start does not ask
\* for the status.  Only the shelf does, which treats a retired contract like a draft.
SomeStored == {"none", "draft", "active"}
ActiveStored == {"active"}
AllClients == {"absent", "dry", "live"}
NoClient == {"absent"}

=============================================================================
