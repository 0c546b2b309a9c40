--------------------------- MODULE ApprovalLedger ---------------------------
(***************************************************************************)
(* What the approval queue promises a reviewer, one row of the             *)
(* hitl_approvals index at a time and without saying how: a row is opened, *)
(* one decision claims it, the paused run is resumed, the decision is      *)
(* audited.  A claim may be rolled back, but only before the resume call   *)
(* returned; a failure may leave a decided row that is never audited.      *)
(* Hitl.tla implements this ledger.                                        *)
(***************************************************************************)

CONSTANTS Items,      \* ids of the rows of the index
          Actions     \* the decisions a reviewer may send

VARIABLES state,      \* where each row is in its life
          verdict     \* the decision each row carries, "none" when it has none

ledgerVars == <<state, verdict>>

States == {"absent", "open", "claimed", "resumed", "audited", "orphaned"}

LedgerTypeOK ==
    /\ state \in [Items -> States]
    /\ verdict \in [Items -> Actions \cup {"none"}]

LedgerInit ==
    /\ state = [i \in Items |-> "absent"]
    /\ verdict = [i \in Items |-> "none"]

----------------------------------------------------------------------------

Move(i, from, to) ==
    /\ state[i] = from
    /\ state' = [state EXCEPT ![i] = to]

\* A gate is found waiting and gets a row.
OpenRow(i) == Move(i, "absent", "open") /\ UNCHANGED verdict

\* One decision takes the row, and is recorded on it.
TakeRow(i, a) ==
    /\ Move(i, "open", "claimed")
    /\ verdict' = [verdict EXCEPT ![i] = a]

\* The call that resumes the run returned.
FinishResume(i) == Move(i, "claimed", "resumed") /\ UNCHANGED verdict

\* The decision is in the audit log; it is final.
FinishAudit(i) == Move(i, "resumed", "audited") /\ UNCHANGED verdict

\* The resume call failed: the row may be decided again.
RollBack(i) ==
    /\ Move(i, "claimed", "open")
    /\ verdict' = [verdict EXCEPT ![i] = "none"]

\* A failure takes away whoever was working on these rows.
Lose(lost) ==
    /\ lost # {}
    /\ \A i \in lost : state[i] \in {"claimed", "resumed"}
    /\ state' = [i \in Items |-> IF i \in lost THEN "orphaned" ELSE state[i]]
    /\ UNCHANGED verdict

LedgerNext ==
    \/ \E i \in Items : \/ OpenRow(i)
                        \/ \E a \in Actions : TakeRow(i, a)
                        \/ FinishResume(i)
                        \/ FinishAudit(i)
                        \/ RollBack(i)
    \/ \E lost \in SUBSET Items : Lose(lost)

LedgerSpec == LedgerInit /\ [][LedgerNext]_ledgerVars

=============================================================================
