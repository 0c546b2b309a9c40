------------------------------- MODULE Accounts -------------------------------
(***************************************************************************)
(* User administration (api/app/users.py, routers/users.py), operator      *)
(* tokens (operator_tokens.py, routers/operator_tokens.py), and the tools  *)
(* that machine clients call with a token (api/app/mcp/).                  *)
(*                                                                         *)
(* Each endpoint runs on a thread of its own, and every SQL statement of   *)
(* it is a transaction of its own: the two listings of the last-admin      *)
(* guard, the update and the audit row are four steps that other calls     *)
(* come between.  Better Auth owns the sign-in and the creation of users;  *)
(* here the users are given, and nobody is deleted or reactivated.         *)
(***************************************************************************)
EXTENDS Naturals, FiniteSets

CONSTANTS Users, Threads, Tokens, None,
          Called,    \* bound: the tools that clients call
          MaxFaults  \* bound: audit rows that cannot be written, deaths of the process

-----------------------------------------------------------------------------
(* The tools.  Each asks for a scope and then calls the function behind    *)
(* the endpoint of the same meaning, as an actor that names the token.     *)

ReadTools == {"runs_list", "run_detail", "run_logs", "approvals_queue", "agents_roster",
              "models_search", "prompt_meta", "collection_get", "audit_query",
              "calibration_get"}
GraphTools == {"graph_inspect"}
WriteTools == {"run_start", "approval_decide", "agent_config", "run_replay"}
ResearchReadTools == {"research_runs_list", "research_run_detail", "research_run_logs",
                      "research_approvals_queue", "styles_list", "board_file"}
ResearchWriteTools == {"research_start", "research_approval_decide",
                       "style_create", "style_update"}

ToolSet == ReadTools \cup GraphTools \cup WriteTools \cup ResearchReadTools
               \cup ResearchWriteTools

Writes(tool) == tool \in WriteTools \cup ResearchWriteTools

\* The run service of the tools is made for reading, its audit writer writes nothing;
\* of the tools that write only the replay uses it.
NullWriter == {"run_replay"}

ASSUME AccountsAssumption ==
    /\ None \notin Users \cup Tokens
    /\ Called \subseteq ToolSet
    /\ MaxFaults \in Nat

-----------------------------------------------------------------------------

VARIABLES role,     \* of each user
          active,   \* not banned
          token,    \* the row of each operator token
          trail,    \* what the audit log shows: who was deactivated, which token was
                    \* issued or revoked, which tool acted for it
          acts,     \* what the tools did under each token
          call,     \* the local variables of each thread
          faults

vars == <<role, active, token, trail, acts, call, faults>>

Roles == {"admin", "operator", "viewer"}
Scopes == {"read", "operate"}

\* A token keeps its row when it is revoked.
TokenRow == [state : {"none", "live", "revoked"}, scope : Scopes]

UserOps == {"role", "deactivate"}
TokenOps == {"issue", "revoke"}

\* step: where the call stands;  on: its user or token;  to: the role, scope or tool
\* asked for, or what the audit row will say;  before, others: the results of the listings.
Call == [step : {"idle", "find", "guard", "write", "prefix", "token", "audit", "tool"},
         op : UserOps \cup TokenOps \cup {"tool"},
         on : Users \cup Tokens \cup {None},
         to : Roles \cup Scopes \cup ToolSet \cup {"inactive", "revoked"},
         wasAdmin : BOOLEAN, others : SUBSET Users]

Idle == [step |-> "idle", op |-> "role", on |-> None, to |-> "viewer",
         wasAdmin |-> FALSE, others |-> {}]

ActiveAdmins == {u \in Users : role[u] = "admin" /\ active[u]}

Goes(c, step) == call' = [call EXCEPT ![c] = [@ EXCEPT !.step = step]]
Ends(c) == call' = [call EXCEPT ![c] = Idle]

Init ==
    /\ role \in [Users -> Roles]
    /\ active = [u \in Users |-> TRUE]
    /\ ActiveAdmins # {}
    /\ token = [t \in Tokens |-> [state |-> "none", scope |-> "read"]]
    /\ trail = {}
    /\ acts = {}
    /\ call = [c \in Threads |-> Idle]
    /\ faults = 0

-----------------------------------------------------------------------------
(* require_role(ROLE_ADMIN): the session gives the role the user has now;  *)
(* the flag of a deactivated user is not read.                             *)

Admitted(c) == call[c].step = "idle" /\ \E u \in Users : role[u] = "admin"

Begins(c, step, op, on, to) ==
    /\ call' = [call EXCEPT ![c] = [Idle EXCEPT !.step = step, !.op = op, !.on = on, !.to = to]]
    /\ UNCHANGED <<role, active, token, trail, acts, faults>>

ChangeRole(c, u, r) == Admitted(c) /\ Begins(c, "find", "role", u, r)
DeactivateUser(c, u) == Admitted(c) /\ Begins(c, "find", "deactivate", u, "inactive")

\* _find: what the listing says of the target.
Find(c) ==
    /\ call[c].step = "find"
    /\ call' = [call EXCEPT ![c] = [@ EXCEPT !.step = "guard",
                                             !.wasAdmin = call[c].on \in ActiveAdmins]]
    /\ UNCHANGED <<role, active, token, trail, acts, faults>>

StillAdmin(c) == call[c].to = "admin"

\* A plausible bug: only deactivations are guarded, not changes of the role.
GuardDeactivationOnly(c) ==
    LET others == ActiveAdmins \ {call[c].on}
    IN  /\ call[c].step = "guard"
        /\ IF ~ call[c].wasAdmin \/ call[c].op = "role" THEN Goes(c, "write")
           ELSE IF others = {} THEN Ends(c)
           ELSE call' = [call EXCEPT ![c] = [@ EXCEPT !.step = "write", !.others = others]]
        /\ UNCHANGED <<role, active, token, trail, acts, faults>>

\* The second listing, for the removal of an active admin only; 409 without another one.
GuardLastAdmin(c) ==
    LET others == ActiveAdmins \ {call[c].on}
    IN  /\ call[c].step = "guard"
        /\ \/ (~ call[c].wasAdmin \/ StillAdmin(c)) /\ Goes(c, "write")
           \/ /\ call[c].wasAdmin /\ ~ StillAdmin(c)
              /\ IF others = {} THEN Ends(c)
                 ELSE call' = [call EXCEPT ![c] = [@ EXCEPT !.step = "write", !.others = others]]
        /\ UNCHANGED <<role, active, token, trail, acts, faults>>

\* UPDATE ... RETURNING: what is audited is what was written.
SetRole(c) ==
    /\ call[c].step = "write" /\ call[c].op = "role"
    /\ role' = [role EXCEPT ![call[c].on] = call[c].to]
    /\ Goes(c, "audit")
    /\ UNCHANGED <<active, token, trail, acts, faults>>

\* A plausible bug: a deactivation is answered without its audit row.
DeactivateSilently(c) ==
    /\ call[c].step = "write" /\ call[c].op = "deactivate"
    /\ active' = [active EXCEPT ![call[c].on] = FALSE]
    /\ Ends(c)
    /\ UNCHANGED <<role, token, trail, acts, faults>>

Deactivate(c) ==
    /\ call[c].step = "write" /\ call[c].op = "deactivate"
    /\ active' = [active EXCEPT ![call[c].on] = FALSE]
    /\ Goes(c, "audit")
    /\ UNCHANGED <<role, token, trail, acts, faults>>

-----------------------------------------------------------------------------
(* Operator tokens.                                                         *)

IssueRequest(c, t, s) == Admitted(c) /\ Begins(c, "token", "issue", t, s)

\* The INSERT gives the row an id of its own.
IssueToken(c) ==
    /\ call[c].step = "token" /\ call[c].op = "issue"
    /\ \/ /\ token[call[c].on].state = "none"
          /\ token' = [token EXCEPT ![call[c].on] = [state |-> "live", scope |-> call[c].to]]
          /\ Goes(c, "audit")
       \/ /\ token[call[c].on].state # "none"  \* another insert took the id
          /\ Ends(c)
          /\ UNCHANGED token
    /\ UNCHANGED <<role, active, trail, acts, faults>>

RevokeRequest(c, t) == Admitted(c) /\ Begins(c, "prefix", "revoke", t, "revoked")

\* 404 for an unknown id; a revoked one still has its prefix.
TokenPrefixForId(c) ==
    /\ call[c].step = "prefix"
    /\ IF token[call[c].on].state = "none" THEN Ends(c) ELSE Goes(c, "token")
    /\ UNCHANGED <<role, active, token, trail, acts, faults>>

\* The update flags a live row only: 409 for the caller that comes second.
RevokeToken(c) ==
    /\ call[c].step = "token" /\ call[c].op = "revoke"
    /\ \/ /\ token[call[c].on].state = "live"
          /\ token' = [token EXCEPT ![call[c].on].state = "revoked"]
          /\ Goes(c, "audit")
       \/ /\ token[call[c].on].state # "live"
          /\ Ends(c)
          /\ UNCHANGED token
    /\ UNCHANGED <<role, active, trail, acts, faults>>

ScopeCovers(granted, required) == required = "read" \/ granted = "operate"

\* Each request of a machine client is verified anew: the token must be live now.
VerifyToken(c, t, tool) ==
    /\ call[c].step = "idle"
    /\ token[t].state = "live"
    /\ Begins(c, "tool", "tool", t, tool)

\* require_scope, from what the verification found.
HasScope(c, required) == ScopeCovers(token[call[c].on].scope, required)

\* A read, the 403 of a token without the scope, or the 4xx of the endpoint.
ToolReturns(c) ==
    /\ call[c].step = "tool"
    /\ Ends(c)
    /\ UNCHANGED <<role, active, token, trail, acts, faults>>

\* The endpoint does its work, also for a token that was revoked meanwhile.
ToolActs(c) ==
    /\ call[c].step = "tool" /\ Writes(call[c].to) /\ HasScope(c, "operate")
    /\ acts' = acts \cup {<<call[c].on, call[c].to>>}
    /\ IF call[c].to \in NullWriter THEN Ends(c) ELSE Goes(c, "audit")
    /\ UNCHANGED <<role, active, token, trail, faults>>

-----------------------------------------------------------------------------

\* AuditWriter.record: one INSERT behind the change.  The rows of role changes, which
\* name the roles a user once had, are left out of the trail.
Audit(c) ==
    /\ call[c].step = "audit"
    /\ trail' = IF call[c].op = "role" THEN trail ELSE trail \cup {<<call[c].on, call[c].to>>}
    /\ Ends(c)
    /\ UNCHANGED <<role, active, token, acts, faults>>

\* The audit row cannot be written: 500, and the change stays.
AuditFails(c) ==
    /\ call[c].step = "audit"
    /\ faults < MaxFaults /\ faults' = faults + 1
    /\ Ends(c)
    /\ UNCHANGED <<role, active, token, trail, acts>>

Crash ==
    /\ \E c \in Threads : call[c].step # "idle"
    /\ faults < MaxFaults /\ faults' = faults + 1
    /\ call' = [c \in Threads |-> Idle]
    /\ UNCHANGED <<role, active, token, trail, acts>>

Next ==
    \/ \E c \in Threads :
         \/ \E u \in Users : DeactivateUser(c, u) \/ \E r \in Roles : ChangeRole(c, u, r)
         \/ \E t \in Tokens :
              \/ RevokeRequest(c, t)
              \/ \E s \in Scopes : IssueRequest(c, t, s)
              \/ \E tool \in Called : VerifyToken(c, t, tool)
         \/ Find(c) \/ GuardLastAdmin(c) \/ SetRole(c) \/ Deactivate(c)
         \/ IssueToken(c) \/ TokenPrefixForId(c) \/ RevokeToken(c)
         \/ ToolReturns(c) \/ ToolActs(c)
         \/ Audit(c) \/ AuditFails(c)
    \/ Crash

Spec == Init /\ [][Next]_vars

-----------------------------------------------------------------------------
(* Properties.                                                              *)

\* Type invariant; a call that is about to remove an active admin saw another one.
TypeOK ==
    /\ role \in [Users -> Roles]
    /\ active \in [Users -> BOOLEAN]
    /\ token \in [Tokens -> TokenRow]
    /\ trail \subseteq (Users \cup Tokens) \X (Scopes \cup ToolSet \cup {"inactive", "revoked"})
    /\ acts \subseteq Tokens \X {tool \in ToolSet : Writes(tool)}
    /\ call \in [Threads -> Call]
    /\ faults \in 0 .. MaxFaults
    /\ \A c \in Threads : call[c].step = "write" /\ call[c].wasAdmin /\ ~ StillAdmin(c)
                               => call[c].others # {}

\* The system may lose its last active admin only to overlapping calls: the call that
\* removes it either saw another active admin, all of whom others removed since, or
\* found a target that was no active admin and became one since.  A call that nobody
\* overlaps never does.
LastAdminOnlyByOverlap ==
    [][ActiveAdmins # {} /\ ActiveAdmins' = {} =>
         \E c \in Threads :
            /\ call[c].step = "write" /\ call'[c].step # "write"
            /\ IF call[c].wasAdmin
               THEN call[c].others # {} /\ call[c].others \cap ActiveAdmins = {}
               ELSE call[c].others = {} /\ call[c].on \in ActiveAdmins]_vars

\* A call is about to audit that x became v.
AuditsNext(x, v) == \E c \in Threads : call[c].step = "audit" /\ call[c].on = x /\ call[c].to = v

Accounted(x, v) == <<x, v>> \in trail \/ AuditsNext(x, v)

\* While no audit write fails and no process dies, every user that is deactivated,
\* every token that was issued or revoked, and every tool that acted for a token, also
\* one that overlapped its revocation, shows in the audit log, or its row is next.  The
\* replay is excepted, see EveryActReachesTheTrail.
ChangesReachTheTrail ==
    faults = 0 =>
        /\ \A u \in Users : ~ active[u] => Accounted(u, "inactive")
        /\ \A t \in Tokens :
             /\ token[t].state # "none" => Accounted(t, token[t].scope)
             /\ token[t].state = "revoked" => Accounted(t, "revoked")
        /\ \A a \in acts : a[2] \notin NullWriter => Accounted(a[1], a[2])

-----------------------------------------------------------------------------
(* What the documents say and the code does not do.                         *)

\* "Every tool calls the same router endpoint function the HTTP route calls [...]:
\* validation, cost guards, and audit rows are identical by construction"
\* (api/app/mcp/tools_writes.py), but the replay of a run is given the reading
\* service, whose audit writer does nothing.
EveryActReachesTheTrail == faults = 0 => \A a \in acts : Accounted(a[1], a[2])

=============================================================================
