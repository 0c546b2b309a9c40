----------------------------- MODULE AccountsProofs -----------------------------
(***************************************************************************)
(* Proofs about Accounts, for any users, threads, tokens and tools.  What  *)
(* the steps of a call may rely on is what its earlier steps left in its   *)
(* local variables; everything else may have changed in between.           *)
(***************************************************************************)
EXTENDS Accounts, TLAPS

Audited == Scopes \cup ToolSet \cup {"inactive", "revoked"}

\* What the local variables of a call hold at each of its steps.
JobOK(j) ==
    /\ j.step \in {"find", "guard", "write"} =>
         /\ j.on \in Users
         /\ (j.op = "role" /\ j.to \in Roles) \/ (j.op = "deactivate" /\ j.to = "inactive")
    /\ j.step = "prefix" => j.on \in Tokens /\ j.op = "revoke" /\ j.to = "revoked"
    /\ j.step = "token" =>
         /\ j.on \in Tokens
         /\ (j.op = "issue" /\ j.to \in Scopes) \/ (j.op = "revoke" /\ j.to = "revoked")
    /\ j.step = "tool" => j.on \in Tokens /\ j.op = "tool" /\ j.to \in ToolSet
    /\ j.step = "audit" =>
         /\ j.on \in Users \cup Tokens
         /\ (j.op = "role" /\ j.to \in Roles) \/ (j.op # "role" /\ j.to \in Audited)
    /\ j.step \in {"find", "guard"} => j.others = {}
    /\ j.step = "write" =>
         /\ j.on \notin j.others
         /\ j.wasAdmin /\ j.to # "admin" => j.others # {}
         /\ ~ j.wasAdmin => j.others = {}

JobsOK == \A c \in Threads : JobOK(call[c])

Types ==
    /\ role \in [Users -> Roles]
    /\ active \in [Users -> BOOLEAN]
    /\ token \in [Tokens -> TokenRow]
    /\ trail \subseteq (Users \cup Tokens) \X Audited
    /\ acts \subseteq Tokens \X {tool \in ToolSet : Writes(tool)}
    /\ faults \in 0 .. MaxFaults

CallType == call \in [Threads -> Call]

IndInv == Types /\ CallType /\ JobsOK

\* The names of roles are no names of scopes or tools.
LEMMA RolesApart == Roles \cap Audited = {}
  BY DEF Roles, Audited, Scopes, ToolSet, ReadTools, GraphTools, WriteTools, ResearchReadTools,
         ResearchWriteTools

LEMMA IdleFacts ==
    /\ Idle \in Call /\ Idle.step = "idle" /\ Idle.others = {} /\ Idle.wasAdmin = FALSE
    /\ JobOK(Idle)
  <1>1. Idle \in Call /\ Idle.step = "idle" /\ Idle.others = {} /\ Idle.wasAdmin = FALSE
    BY DEF Idle, Call, UserOps, Roles
  <1> QED BY <1>1 DEF JobOK

\* A step of one call.
LEMMA OneCall ==
    ASSUME CallType, JobsOK, NEW c \in Threads, NEW j \in Call, JobOK(j),
           call' = [call EXCEPT ![c] = j]
    PROVE  CallType' /\ JobsOK'
  BY DEF CallType, JobsOK

LEMMA EndsOK ==
    ASSUME CallType, JobsOK, NEW c \in Threads, Ends(c)
    PROVE  CallType' /\ JobsOK'
  BY IdleFacts, OneCall DEF Ends

\* The call goes on to a step that its local variables are ready for.
LEMMA GoesOK ==
    ASSUME CallType, JobsOK, NEW c \in Threads, NEW s \in {"write", "token", "audit"}, Goes(c, s),
           s = "write" => call[c].step = "guard" /\ (~ call[c].wasAdmin \/ call[c].to = "admin"),
           s = "token" => call[c].step = "prefix",
           s = "audit" => call[c].step \in {"write", "token", "tool"}
    PROVE  CallType' /\ JobsOK'
  <1> DEFINE j == [call[c] EXCEPT !.step = s]
  <1>0. call[c] \in Call /\ JobOK(call[c])
    BY DEF CallType, JobsOK
  <1>1. /\ j \in Call /\ j.step = s /\ j.op = call[c].op /\ j.on = call[c].on
        /\ j.to = call[c].to /\ j.wasAdmin = call[c].wasAdmin /\ j.others = call[c].others
    BY <1>0 DEF Call
  <1>2. call' = [call EXCEPT ![c] = j]
    BY DEF Goes
  <1> HIDE DEF j
  <1>3. JobOK(j)
    BY <1>0, <1>1 DEF JobOK, Audited
  <1> QED BY <1>1, <1>2, <1>3, OneCall

\* A call begins with what it was asked for.
LEMMA BeginsOK ==
    ASSUME CallType, JobsOK, NEW c \in Threads, NEW step, NEW op, NEW on, NEW to,
           Begins(c, step, op, on, to),
           \/ /\ step = "find" /\ on \in Users
              /\ (op = "role" /\ to \in Roles) \/ (op = "deactivate" /\ to = "inactive")
           \/ step = "token" /\ op = "issue" /\ on \in Tokens /\ to \in Scopes
           \/ step = "prefix" /\ op = "revoke" /\ on \in Tokens /\ to = "revoked"
           \/ step = "tool" /\ op = "tool" /\ on \in Tokens /\ to \in ToolSet
    PROVE  CallType' /\ JobsOK'
  <1> DEFINE j == [Idle EXCEPT !.step = step, !.op = op, !.on = on, !.to = to]
  <1>1. /\ j \in Call /\ j.step = step /\ j.op = op /\ j.on = on /\ j.to = to /\ j.others = {}
    BY IdleFacts DEF Call, UserOps, TokenOps
  <1>2. call' = [call EXCEPT ![c] = j]
    BY DEF Begins
  <1> HIDE DEF j
  <1>3. JobOK(j)
    BY <1>1 DEF JobOK
  <1> QED BY <1>1, <1>2, <1>3, OneCall

LEMMA InitOK == Init => IndInv
  <1> SUFFICES ASSUME Init PROVE IndInv
    OBVIOUS
  <1>1. Types
    BY AccountsAssumption DEF Init, Types, TokenRow, Scopes
  <1>2. CallType /\ JobsOK
    BY IdleFacts DEF Init, CallType, JobsOK
  <1> QED BY <1>1, <1>2 DEF IndInv

\* The listing of the target, and of the other admins.
LEMMA ListingsOK ==
    ASSUME IndInv, NEW c \in Threads, Find(c) \/ GuardLastAdmin(c)
    PROVE  CallType' /\ JobsOK'
  <1>0. CallType /\ JobsOK /\ call[c] \in Call /\ JobOK(call[c])
    BY DEF IndInv, CallType, JobsOK
  <1>1. CASE Find(c)
    <2> DEFINE b == call[c].on \in ActiveAdmins
               j == [call[c] EXCEPT !.step = "guard", !.wasAdmin = b]
    <2>1. b \in BOOLEAN
      OBVIOUS
    <2>2. call[c].step = "find" /\ call' = [call EXCEPT ![c] = j]
      BY <1>1 DEF Find
    <2> HIDE DEF b
    <2>3. /\ j \in Call /\ j.step = "guard" /\ j.op = call[c].op /\ j.on = call[c].on
          /\ j.to = call[c].to /\ j.others = call[c].others
      BY <1>0, <2>1 DEF Call
    <2> HIDE DEF j
    <2>4. JobOK(j)
      BY <1>0, <2>2, <2>3 DEF JobOK
    <2> QED BY <1>0, <2>2, <2>3, <2>4, OneCall
  <1>2. CASE GuardLastAdmin(c)
    <2> DEFINE o == ActiveAdmins \ {call[c].on}
               j == [call[c] EXCEPT !.step = "write", !.others = o]
    <2>1. call[c].step = "guard"
      BY <1>2 DEF GuardLastAdmin
    <2>2. CASE (~ call[c].wasAdmin \/ StillAdmin(c)) /\ Goes(c, "write")
      BY <1>0, <2>1, <2>2, GoesOK DEF StillAdmin
    <2>3. CASE Ends(c)
      BY <1>0, <2>3, EndsOK
    <2>4. CASE call[c].wasAdmin /\ ~ StillAdmin(c) /\ o # {} /\ call' = [call EXCEPT ![c] = j]
      <3>1. o \in SUBSET Users /\ call[c].on \notin o
        BY DEF ActiveAdmins
      <3> HIDE DEF o
      <3>2. /\ j \in Call /\ j.step = "write" /\ j.op = call[c].op /\ j.on = call[c].on
            /\ j.to = call[c].to /\ j.others = o /\ j.wasAdmin = call[c].wasAdmin
        BY <1>0, <3>1 DEF Call
      <3> HIDE DEF j
      <3>3. JobOK(j)
        BY <1>0, <2>1, <2>4, <3>1, <3>2 DEF JobOK
      <3> QED BY <1>0, <2>4, <3>2, <3>3, OneCall
    <2> QED BY <1>2, <2>2, <2>3, <2>4 DEF GuardLastAdmin
  <1> QED BY <1>1, <1>2

\* Every step of a call leaves the calls in order.
LEMMA CallsOK ==
    ASSUME IndInv, [Next]_vars
    PROVE  CallType' /\ JobsOK'
  <1>0. CallType /\ JobsOK
    BY DEF IndInv
  <1>1. ASSUME NEW c \in Threads,
               \/ \E u \in Users : DeactivateUser(c, u) \/ \E r \in Roles : ChangeRole(c, u, r)
               \/ \E t \in Tokens :
                    \/ RevokeRequest(c, t)
                    \/ \E s \in Scopes : IssueRequest(c, t, s)
                    \/ \E tool \in Called : VerifyToken(c, t, tool)
        PROVE  CallType' /\ JobsOK'
    <2>1. ASSUME NEW u \in Users, DeactivateUser(c, u)
          PROVE  CallType' /\ JobsOK'
      BY <1>0, <2>1, BeginsOK DEF DeactivateUser
    <2>2. ASSUME NEW u \in Users, NEW r \in Roles, ChangeRole(c, u, r)
          PROVE  CallType' /\ JobsOK'
      BY <1>0, <2>2, BeginsOK DEF ChangeRole
    <2>3. ASSUME NEW t \in Tokens, RevokeRequest(c, t)
          PROVE  CallType' /\ JobsOK'
      BY <1>0, <2>3, BeginsOK DEF RevokeRequest
    <2>4. ASSUME NEW t \in Tokens, NEW s \in Scopes, IssueRequest(c, t, s)
          PROVE  CallType' /\ JobsOK'
      BY <1>0, <2>4, BeginsOK DEF IssueRequest
    <2>5. ASSUME NEW t \in Tokens, NEW tool \in Called, VerifyToken(c, t, tool)
          PROVE  CallType' /\ JobsOK'
      <3>1. tool \in ToolSet
        BY AccountsAssumption
      <3> QED BY <1>0, <2>5, <3>1, BeginsOK DEF VerifyToken
    <2> QED BY <1>1, <2>1, <2>2, <2>3, <2>4, <2>5
  <1>2. ASSUME NEW c \in Threads, Find(c) \/ GuardLastAdmin(c)
        PROVE  CallType' /\ JobsOK'
    BY <1>2, ListingsOK
  <1>3. ASSUME NEW c \in Threads,
               \/ SetRole(c) \/ Deactivate(c) \/ IssueToken(c) \/ TokenPrefixForId(c)
               \/ RevokeToken(c) \/ ToolReturns(c) \/ ToolActs(c) \/ Audit(c) \/ AuditFails(c)
        PROVE  CallType' /\ JobsOK'
    <2>1. \/ Ends(c)
          \/ Goes(c, "token") /\ call[c].step = "prefix"
          \/ Goes(c, "audit") /\ call[c].step \in {"write", "token", "tool"}
      BY <1>3 DEF SetRole, Deactivate, IssueToken, TokenPrefixForId, RevokeToken, ToolReturns,
                  ToolActs, Audit, AuditFails
    <2>2. CASE Ends(c)
      BY <1>0, <2>2, EndsOK
    <2>3. CASE Goes(c, "token") /\ call[c].step = "prefix"
      BY <1>0, <2>3, GoesOK
    <2>4. CASE Goes(c, "audit") /\ call[c].step \in {"write", "token", "tool"}
      BY <1>0, <2>4, GoesOK
    <2> QED BY <2>1, <2>2, <2>3, <2>4
  <1>4. CASE Crash
    BY <1>4, IdleFacts DEF Crash, CallType, JobsOK
  <1>5. CASE UNCHANGED vars
    BY <1>0, <1>5 DEF vars, CallType, JobsOK
  <1> QED BY <1>1, <1>2, <1>3, <1>4, <1>5 DEF Next

\* The steps of a call that leave the tables alone.
Quiet(c) ==
    \/ call[c].step = "idle" /\ \E step, op, on, to : Begins(c, step, op, on, to)
    \/ Find(c) \/ GuardLastAdmin(c) \/ TokenPrefixForId(c) \/ ToolReturns(c)

LEMMA Steps ==
    ASSUME [Next]_vars
    PROVE  \/ \E c \in Threads :
                 \/ Quiet(c) \/ SetRole(c) \/ Deactivate(c) \/ IssueToken(c) \/ RevokeToken(c)
                 \/ ToolActs(c) \/ Audit(c) \/ AuditFails(c)
           \/ Crash
           \/ UNCHANGED vars
  <1>1. ASSUME NEW c \in Threads,
               \/ \E u \in Users : DeactivateUser(c, u) \/ \E r \in Roles : ChangeRole(c, u, r)
               \/ \E t \in Tokens :
                    \/ RevokeRequest(c, t)
                    \/ \E s \in Scopes : IssueRequest(c, t, s)
                    \/ \E tool \in Called : VerifyToken(c, t, tool)
        PROVE  Quiet(c)
    BY <1>1 DEF Quiet, Admitted, DeactivateUser, ChangeRole, RevokeRequest, IssueRequest, VerifyToken
  <1> QED BY <1>1 DEF Next, Quiet

LEMMA QuietFacts ==
    ASSUME NEW c \in Threads, Quiet(c)
    PROVE  UNCHANGED <<role, active, token, trail, acts, faults>>
  BY DEF Quiet, Begins, Find, GuardLastAdmin, TokenPrefixForId, ToolReturns

LEMMA TypesOK ==
    ASSUME IndInv, [Next]_vars
    PROVE  Types'
  <1>0. Types /\ \A c \in Threads : call[c] \in Call /\ JobOK(call[c])
    BY DEF IndInv, CallType, JobsOK
  <1>1. ASSUME NEW c \in Threads, Quiet(c) PROVE Types'
    BY <1>0, <1>1, QuietFacts DEF Types
  <1>2. ASSUME NEW c \in Threads, SetRole(c) PROVE Types'
    <2>1. call[c].on \in Users /\ call[c].to \in Roles
      BY <1>0, <1>2 DEF SetRole, JobOK
    <2> QED BY <1>0, <1>2, <2>1 DEF SetRole, Types
  <1>3. ASSUME NEW c \in Threads, Deactivate(c) PROVE Types'
    BY <1>0, <1>3 DEF Deactivate, Types
  <1>4. ASSUME NEW c \in Threads, IssueToken(c) \/ RevokeToken(c) PROVE Types'
    <2>1. call[c].on \in Tokens /\ (call[c].op = "issue" => call[c].to \in Scopes)
      BY <1>0, <1>4 DEF IssueToken, RevokeToken, JobOK
    <2>2. token' \in [Tokens -> TokenRow]
      BY <1>0, <1>4, <2>1 DEF IssueToken, RevokeToken, Types, TokenRow
    <2>3. UNCHANGED <<role, active, trail, acts, faults>>
      BY <1>4 DEF IssueToken, RevokeToken
    <2> QED BY <1>0, <2>2, <2>3 DEF Types
  <1>5. ASSUME NEW c \in Threads, ToolActs(c) PROVE Types'
    <2>1. call[c].on \in Tokens /\ call[c].to \in ToolSet /\ Writes(call[c].to)
      BY <1>0, <1>5 DEF ToolActs, JobOK
    <2>2. <<call[c].on, call[c].to>> \in Tokens \X {tool \in ToolSet : Writes(tool)}
      BY <2>1
    <2>3. /\ acts' = acts \cup {<<call[c].on, call[c].to>>}
          /\ UNCHANGED <<role, active, token, trail, faults>>
      BY <1>5 DEF ToolActs
    <2> QED BY <1>0, <2>2, <2>3 DEF Types
  <1>6. ASSUME NEW c \in Threads, Audit(c) PROVE Types'
    <2>1. call[c].on \in Users \cup Tokens /\ (call[c].op # "role" => call[c].to \in Audited)
      BY <1>0, <1>6 DEF Audit, JobOK
    <2>2. /\ trail' = trail \/ (call[c].op # "role" /\ trail' = trail \cup {<<call[c].on, call[c].to>>})
          /\ UNCHANGED <<role, active, token, acts, faults>>
      BY <1>6 DEF Audit
    <2> QED BY <1>0, <2>1, <2>2 DEF Types
  <1>7. ASSUME NEW c \in Threads, AuditFails(c) PROVE Types'
    BY <1>0, <1>7, AccountsAssumption DEF AuditFails, Types
  <1>8. CASE Crash
    BY <1>0, <1>8, AccountsAssumption DEF Crash, Types
  <1>9. CASE UNCHANGED vars
    BY <1>0, <1>9 DEF vars, Types
  <1> QED BY <1>1, <1>2, <1>3, <1>4, <1>5, <1>6, <1>7, <1>8, <1>9, Steps

LEMMA StepOK == IndInv /\ [Next]_vars => IndInv'
  BY CallsOK, TypesOK DEF IndInv

\* Types of users, tokens and calls, for any instance; a call that is about to remove an
\* active admin saw another one.
THEOREM TypeCorrect == Spec => []TypeOK
  <1>1. IndInv => TypeOK
    BY DEF IndInv, Types, CallType, JobsOK, JobOK, TypeOK, StillAdmin, Audited
  <1> QED BY <1>1, InitOK, StepOK, PTL DEF Spec

-----------------------------------------------------------------------------
(* The last admin.                                                         *)

Overlapped ==
    ActiveAdmins # {} /\ ActiveAdmins' = {} =>
      \E c \in Threads :
         /\ call[c].step = "write" /\ call'[c].step # "write"
         /\ IF call[c].wasAdmin
            THEN call[c].others # {} /\ call[c].others \cap ActiveAdmins = {}
            ELSE call[c].others = {} /\ call[c].on \in ActiveAdmins

\* Only a write of c removes an admin, only the one it is about, and c looked before.
LEMMA LastOne ==
    ASSUME IndInv, NEW c \in Threads, SetRole(c) \/ Deactivate(c),
           ActiveAdmins # {}, ActiveAdmins' = {}
    PROVE  Overlapped
  <1> DEFINE u == call[c].on
  <1>0. /\ call \in [Threads -> Call] /\ call[c] \in Call /\ JobOK(call[c]) /\ Types
    BY DEF IndInv, CallType, JobsOK
  <1>1. call[c].step = "write" /\ call' = [call EXCEPT ![c] = [call[c] EXCEPT !.step = "audit"]]
    BY DEF SetRole, Deactivate, Goes
  <1>2. call'[c].step = "audit"
    <2>1. [call[c] EXCEPT !.step = "audit"].step = "audit"
      BY <1>0 DEF Call
    <2> QED BY <1>0, <1>1, <2>1
  <1>3. /\ u \in Users
        /\ \A x \in Users : x # u => role'[x] = role[x] /\ active'[x] = active[x]
    BY <1>0, <1>1 DEF SetRole, Deactivate, JobOK, Types
  <1>4. ActiveAdmins = {u}
    BY <1>3 DEF ActiveAdmins
  <1>5. call[c].to # "admin"
    <2>1. CASE SetRole(c)
      BY <1>0, <1>4, <2>1 DEF SetRole, ActiveAdmins, Types
    <2>2. CASE Deactivate(c)
      BY <1>0, <1>1, <2>2 DEF Deactivate, JobOK
    <2> QED BY <2>1, <2>2
  <1>6. /\ u \notin call[c].others
        /\ call[c].wasAdmin => call[c].others # {}
        /\ ~ call[c].wasAdmin => call[c].others = {}
    BY <1>0, <1>1, <1>5 DEF JobOK
  <1>7. CASE call[c].wasAdmin
    BY <1>1, <1>2, <1>4, <1>6, <1>7 DEF Overlapped
  <1>8. CASE ~ call[c].wasAdmin
    BY <1>1, <1>2, <1>4, <1>6, <1>8 DEF Overlapped
  <1> QED BY <1>7, <1>8

\* The last active admin is lost only to calls that overlap, for any number of them.
THEOREM LastAdmin == Spec => LastAdminOnlyByOverlap
  <1>1. IndInv /\ [Next]_vars => [Overlapped]_vars
    <2> SUFFICES ASSUME IndInv, [Next]_vars, ActiveAdmins # {}, ActiveAdmins' = {} PROVE Overlapped
      BY DEF Overlapped
    <2>1. ~ (UNCHANGED <<role, active>>)
      BY DEF ActiveAdmins
    <2>2. ASSUME NEW c \in Threads,
                 Quiet(c) \/ IssueToken(c) \/ RevokeToken(c) \/ ToolActs(c) \/ Audit(c) \/ AuditFails(c)
          PROVE  UNCHANGED <<role, active>>
      BY <2>2, QuietFacts DEF IssueToken, RevokeToken, ToolActs, Audit, AuditFails
    <2>3. Crash \/ UNCHANGED vars => UNCHANGED <<role, active>>
      BY DEF Crash, vars
    <2>4. \E c \in Threads : SetRole(c) \/ Deactivate(c)
      BY <2>1, <2>2, <2>3, Steps
    <2> QED BY <2>4, LastOne
  <1>2. Spec => [][Overlapped]_vars
    BY <1>1, InitOK, StepOK, PTL DEF Spec
  <1> QED BY <1>2 DEF LastAdminOnlyByOverlap, Overlapped

-----------------------------------------------------------------------------
(* The audit log.                                                          *)

\* What the log says or will say next.
Book == trail \cup {<<call[c].on, call[c].to>> : c \in {d \in Threads : call[d].step = "audit"}}

TrailInBook ==
    faults = 0 =>
      /\ \A u \in Users : ~ active[u] => <<u, "inactive">> \in Book
      /\ \A t \in Tokens :
           /\ token[t].state # "none" => <<t, token[t].scope>> \in Book
           /\ token[t].state = "revoked" => <<t, "revoked">> \in Book
      /\ \A a \in acts : a[2] \notin NullWriter => <<a[1], a[2]>> \in Book

LEMMA AccountedInBook == ChangesReachTheTrail <=> TrailInBook
  <1>1. ASSUME NEW x, NEW v PROVE Accounted(x, v) <=> <<x, v>> \in Book
    BY DEF Accounted, AuditsNext, Book
  <1> QED BY <1>1 DEF ChangesReachTheTrail, TrailInBook

\* What is in the book stays there while no fault occurs.
LEMMA BookStays ==
    ASSUME IndInv, [Next]_vars, faults' = 0, NEW x, NEW v \in Audited, <<x, v>> \in Book
    PROVE  <<x, v>> \in Book'
  <1>0. /\ call \in [Threads -> Call] /\ faults \in Nat
        /\ \A c \in Threads : call[c] \in Call /\ JobOK(call[c])
    BY DEF IndInv, CallType, JobsOK, Types
  <1>1. ASSUME NEW c \in Threads, Quiet(c) \/ SetRole(c) \/ Deactivate(c) \/ IssueToken(c)
                                    \/ RevokeToken(c) \/ ToolActs(c)
        PROVE  <<x, v>> \in Book'
    <2>1. call[c].step # "audit" /\ trail' = trail
      BY <1>1, IdleFacts, QuietFacts
         DEF Quiet, Begins, Find, GuardLastAdmin, TokenPrefixForId, ToolReturns, SetRole,
             Deactivate, IssueToken, RevokeToken, ToolActs
    <2>2. \A d \in Threads : d # c => call'[d] = call[d]
      BY <1>0, <1>1
         DEF Quiet, Begins, Find, GuardLastAdmin, TokenPrefixForId, ToolReturns, SetRole,
             Deactivate, IssueToken, RevokeToken, ToolActs, Goes, Ends
    <2> QED BY <2>1, <2>2 DEF Book
  <1>2. ASSUME NEW c \in Threads, Audit(c)
        PROVE  <<x, v>> \in Book'
    <2>1. /\ call[c].step = "audit"
          /\ \A d \in Threads : d # c => call'[d] = call[d]
          /\ trail' = IF call[c].op = "role" THEN trail ELSE trail \cup {<<call[c].on, call[c].to>>}
      BY <1>0, <1>2 DEF Audit, Ends
    <2>2. call[c].op = "role" => call[c].to # v
      BY <1>0, <2>1, RolesApart DEF JobOK
    <2> QED BY <2>1, <2>2 DEF Book
  <1>3. ASSUME NEW c \in Threads, AuditFails(c) \/ Crash
        PROVE  FALSE
    BY <1>0, <1>3 DEF AuditFails, Crash
  <1>4. CASE Crash
    BY <1>0, <1>4 DEF Crash
  <1>5. CASE UNCHANGED vars
    BY <1>5 DEF vars, Book
  <1> QED BY <1>1, <1>2, <1>3, <1>4, <1>5, Steps

\* A call that goes on to its audit row enters what the row will say.
LEMMA GoesToAudit ==
    ASSUME CallType, NEW c \in Threads, Goes(c, "audit")
    PROVE  <<call[c].on, call[c].to>> \in Book'
  <1> DEFINE j == [call[c] EXCEPT !.step = "audit"]
  <1>1. j.step = "audit" /\ j.on = call[c].on /\ j.to = call[c].to
    BY DEF CallType, Call
  <1>2. call'[c] = j
    BY DEF Goes, CallType
  <1> HIDE DEF j
  <1> QED BY <1>1, <1>2 DEF Book

LEMMA TrailOK ==
    ASSUME IndInv, [Next]_vars, ChangesReachTheTrail
    PROVE  ChangesReachTheTrail'
  <1>p. ChangesReachTheTrail' <=> TrailInBook'
    BY AccountedInBook, PTL
  <1> SUFFICES ASSUME faults' = 0
               PROVE  /\ \A u \in Users : ~ active'[u] => <<u, "inactive">> \in Book'
                      /\ \A t \in Tokens :
                           /\ token'[t].state # "none" => <<t, token'[t].scope>> \in Book'
                           /\ token'[t].state = "revoked" => <<t, "revoked">> \in Book'
                      /\ \A a \in acts' : a[2] \notin NullWriter => <<a[1], a[2]>> \in Book'
    BY <1>p DEF TrailInBook
  <1>0. /\ Types /\ CallType /\ faults \in Nat
        /\ \A c \in Threads : JobOK(call[c])
    BY DEF IndInv, JobsOK, Types
  <1>1. faults = 0
    <2>1. faults' = faults \/ faults' = faults + 1
      BY Steps, QuietFacts DEF SetRole, Deactivate, IssueToken, RevokeToken, ToolActs, Audit,
                               AuditFails, Crash, vars
    <2> QED BY <1>0, <2>1
  <1>2. /\ \A u \in Users : ~ active[u] => <<u, "inactive">> \in Book
        /\ \A t \in Tokens :
             /\ token[t].state # "none" => <<t, token[t].scope>> \in Book
             /\ token[t].state = "revoked" => <<t, "revoked">> \in Book
        /\ \A a \in acts : a[2] \notin NullWriter => <<a[1], a[2]>> \in Book
    BY <1>1, AccountedInBook DEF TrailInBook
  <1>3. /\ "inactive" \in Audited /\ "revoked" \in Audited
        /\ \A t \in Tokens : token[t].scope \in Audited
        /\ \A a \in acts : a[2] \in Audited
    BY <1>0 DEF Types, Audited, TokenRow
  <1>b. \A x : \A v \in Audited : <<x, v>> \in Book => <<x, v>> \in Book'
    BY BookStays
  <1>4. ASSUME NEW u \in Users, ~ active'[u] PROVE <<u, "inactive">> \in Book'
    <2>1. CASE ~ active[u]
      BY <1>2, <1>3, <1>b, <2>1
    <2>2. CASE active[u]
      <3>1. PICK c \in Threads : Deactivate(c)
        BY <1>4, <2>2, Steps, QuietFacts DEF SetRole, IssueToken, RevokeToken, ToolActs, Audit,
                                             AuditFails, Crash, vars
      <3>2. call[c].on = u /\ call[c].to = "inactive" /\ Goes(c, "audit")
        BY <1>0, <1>4, <2>2, <3>1 DEF Deactivate, JobOK, Types
      <3>3. <<call[c].on, call[c].to>> \in Book'
        BY <1>0, <3>2, GoesToAudit
      <3> QED BY <3>2, <3>3
    <2> QED BY <2>1, <2>2
  <1>5. ASSUME NEW t \in Tokens
        PROVE  /\ token'[t].state # "none" => <<t, token'[t].scope>> \in Book'
               /\ token'[t].state = "revoked" => <<t, "revoked">> \in Book'
    <2>1. CASE token'[t] = token[t]
      BY <1>2, <1>3, <1>b, <2>1
    <2>2. CASE token'[t] # token[t]
      <3>1. PICK c \in Threads : IssueToken(c) \/ RevokeToken(c)
        BY <2>2, Steps, QuietFacts DEF SetRole, Deactivate, ToolActs, Audit, AuditFails, Crash, vars
      <3>2. call[c].on = t /\ Goes(c, "audit")
        BY <1>0, <2>2, <3>1 DEF IssueToken, RevokeToken, Types
      <3>b. <<call[c].on, call[c].to>> \in Book'
        BY <1>0, <3>2, GoesToAudit
      <3>3. CASE IssueToken(c)
        <4>1. token'[t] = [state |-> "live", scope |-> call[c].to]
          BY <1>0, <2>2, <3>2, <3>3 DEF IssueToken, Types
        <4>2. token'[t].scope = call[c].to /\ token'[t].state = "live"
          BY <4>1
        <4> QED BY <3>2, <3>b, <4>2
      <3>4. CASE RevokeToken(c)
        <4>1. token'[t] = [token[t] EXCEPT !.state = "revoked"] /\ token[t].state = "live"
          BY <1>0, <2>2, <3>2, <3>4 DEF RevokeToken, Types
        <4>2. token[t] \in TokenRow
          BY <1>0 DEF Types
        <4>3. token'[t].scope = token[t].scope
          BY <4>1, <4>2 DEF TokenRow
        <4>4. call[c].to = "revoked"
          BY <1>0, <3>4 DEF RevokeToken, JobOK
        <4>5. <<t, token[t].scope>> \in Book'
          BY <1>2, <1>3, <1>b, <4>1
        <4> QED BY <3>2, <3>b, <4>3, <4>4, <4>5
      <3> QED BY <3>1, <3>3, <3>4
    <2> QED BY <2>1, <2>2
  <1>6. ASSUME NEW a \in acts', a[2] \notin NullWriter PROVE <<a[1], a[2]>> \in Book'
    <2>1. CASE a \in acts
      BY <1>2, <1>3, <1>6, <1>b, <2>1
    <2>2. CASE a \notin acts
      <3>1. PICK c \in Threads : ToolActs(c)
        BY <2>2, Steps, QuietFacts DEF SetRole, Deactivate, IssueToken, RevokeToken, Audit,
                                       AuditFails, Crash, vars
      <3>2. a = <<call[c].on, call[c].to>> /\ (call[c].to \notin NullWriter => Goes(c, "audit"))
        BY <2>2, <3>1 DEF ToolActs
      <3>3. Goes(c, "audit")
        BY <1>6, <3>2
      <3>4. <<call[c].on, call[c].to>> \in Book'
        BY <1>0, <3>3, GoesToAudit
      <3> QED BY <3>2, <3>4
    <2> QED BY <2>1, <2>2
  <1> QED BY <1>4, <1>5, <1>6

\* Without faults, every change of an account and every act of a tool but the replay
\* reaches the audit log, or its row is next.
THEOREM Audits == Spec => []ChangesReachTheTrail
  <1>1. Init => ChangesReachTheTrail
    BY DEF Init, ChangesReachTheTrail
  <1> QED BY <1>1, InitOK, StepOK, TrailOK, PTL DEF Spec

===============================================================================
