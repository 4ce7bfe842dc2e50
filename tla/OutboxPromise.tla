--------------------------- MODULE OutboxPromise ---------------------------
(***************************************************************************)
(* What an outbox promises about each row, without workers, retries or     *)
(* faults: a row that is accepted is handled by everyone it is for and     *)
(* completed, or given up; either is final, and one of them happens.       *)
(***************************************************************************)
CONSTANTS
    Rows,      \* row identifiers
    Parts(_)   \* what there is to do for a row

VARIABLES
    outcome,   \* what became of each row
    handled    \* what has been done for each row

vars == <<outcome, handled>>

Outcomes == {"absent", "waiting", "completed", "failed"}

Init ==
    /\ outcome = [r \in Rows |-> "absent"]
    /\ handled = [r \in Rows |-> {}]

Accept(r) ==
    /\ outcome[r] = "absent"
    /\ outcome' = [outcome EXCEPT ![r] = "waiting"]
    /\ UNCHANGED handled

\* A part may be done again, but only while the row waits.
Handle(r) ==
    /\ outcome[r] = "waiting"
    /\ \E p \in Parts(r) : handled' = [handled EXCEPT ![r] = @ \cup {p}]
    /\ UNCHANGED outcome

Complete(r) ==
    /\ outcome[r] = "waiting"
    /\ handled[r] = Parts(r)
    /\ outcome' = [outcome EXCEPT ![r] = "completed"]
    /\ UNCHANGED handled

GiveUp(r) ==
    /\ outcome[r] = "waiting"
    /\ outcome' = [outcome EXCEPT ![r] = "failed"]
    /\ UNCHANGED handled

Settle(r) == Complete(r) \/ GiveUp(r)

Next == \E r \in Rows : Accept(r) \/ Handle(r) \/ Settle(r)

Safety == Init /\ [][Next]_vars

Spec == Safety /\ \A r \in Rows : WF_vars(Settle(r))
=============================================================================
