---------------------------- MODULE OutboxTable ----------------------------
(***************************************************************************)
(* The columns of tenant.cluster_outbox that decide what happens to a row, *)
(* and one operator per statement of cluster-worker/pkg/db/outbox.sql.     *)
(* retry_after is "past" when it is NULL or not after now().  The status   *)
(* "absent" stands for a row that is not inserted yet.                     *)
(***************************************************************************)
EXTENDS Naturals

OutboxStatus == {"pending", "retrying", "completed", "failed"}

Active == {"pending", "retrying"}

Row == [status : OutboxStatus \cup {"absent"},
        retries : Nat, deferrals : Nat, retry_after : {"past", "future"}]

NoRow == [status |-> "absent", retries |-> 0, deferrals |-> 0, retry_after |-> "past"]

\* The column defaults of an INSERT.
NewRow == [status |-> "pending", retries |-> 0, deferrals |-> 0, retry_after |-> "past"]

\* Mutants: only pending rows are claimed; rows are claimed whatever their status.
Mut_ClaimPendingOnly(row) == row.status = "pending" /\ row.retry_after = "past"
Mut_ClaimAnyStatus(row) == row.status # "absent" /\ row.retry_after = "past"

\* The WHERE clause of OutboxGetAndLock.
Claimable(row) == row.status \in Active /\ row.retry_after = "past"

OutboxMarkProcessed(row) == [row EXCEPT !.status = "completed", !.retry_after = "past"]

OutboxMarkRetry(row) ==
    [row EXCEPT !.status = "retrying", !.retries = @ + 1, !.retry_after = "future"]

OutboxMarkFailed(row) == [row EXCEPT !.status = "failed"]

OutboxDeferWithoutRetry(row) ==
    [row EXCEPT !.deferrals = @ + 1, !.retry_after = "future"]

\* The rows the conditional inserts of the reconcile loops look for: an active
\* row, or a failed one that has used up its retries.
BlocksReconcile(row, maxRetries) ==
    \/ row.status \in Active
    \/ row.status = "failed" /\ row.retries >= maxRetries
=============================================================================
