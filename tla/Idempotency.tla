----------------------------- MODULE Idempotency -----------------------------
(***************************************************************************)
(* common/idempotency: the interceptor around the Create procedures of     *)
(* organization-api and its store, for one key of one user, and the client *)
(* that polls with the key (terraform-provider createIdempotent).  A       *)
(* resource is known by the request body it was made from.                 *)
(***************************************************************************)
EXTENDS Naturals

CONSTANTS
    Clients,    \* callers that use the key, concurrently
    Bodies,     \* request messages, told apart by their hash
    None,       \* no body
    MaxFaults   \* bound on failed database calls, handlers and crashes

ASSUME IdempotencyAssumption ==
    /\ MaxFaults \in Nat
    /\ None \notin Bodies

VARIABLES
    body,    \* the message each client sends
    row,     \* the row of tenant.idempotency_keys
    pc,      \* where each client's call is
    answer,  \* how its last call ended
    ok,      \* whether its handler succeeded, once it ran
    made,    \* the resources made since the key was last free
    outbox,  \* the status of the newest resource's row in authz.outbox
    faults   \* faults so far

vars == <<body, row, pc, answer, ok, made, outbox, faults>>

NoRow == [state |-> "absent", hash |-> None, response |-> None]

NoAnswer == [kind |-> "none", response |-> None, status |-> "unset"]

Success(response, status) == [kind |-> "success", response |-> response, status |-> status]

Failure(kind) == [NoAnswer EXCEPT !.kind = kind]

TypeOK ==
    /\ body \in [Clients -> Bodies]
    /\ row \in [state : {"absent", "live", "expired"}, hash : Bodies \cup {None},
                response : Bodies \cup {None}]
    /\ pc \in [Clients -> {"idle", "lookup", "reserve", "again", "bare", "handle", "complete",
                           "unreserve"}]
    /\ answer \in [Clients -> [kind : {"none", "success", "aborted", "invalid", "error", "lost"},
                               response : Bodies \cup {None},
                               status : {"unset", "processing", "completed", "failed"}]]
    /\ ok \in [Clients -> BOOLEAN]
    /\ made \in Nat
    /\ outbox \in {"processing", "completed", "failed"}
    /\ faults \in 0 .. MaxFaults

Init ==
    /\ body \in [Clients -> Bodies]
    /\ row = NoRow
    /\ pc = [c \in Clients |-> "idle"]
    /\ answer = [c \in Clients |-> NoAnswer]
    /\ ok = [c \in Clients |-> FALSE]
    /\ made = 0
    /\ outbox = "processing"
    /\ faults = 0

-----------------------------------------------------------------------------
Goto(c, next) == pc' = [pc EXCEPT ![c] = next]

\* The call ends.
Return(c, a) ==
    /\ Goto(c, "idle")
    /\ answer' = [answer EXCEPT ![c] = a]
    /\ ok' = [ok EXCEPT ![c] = FALSE]

Faulty ==
    /\ faults < MaxFaults
    /\ faults' = faults + 1

\* createIdempotent has a resource and no terminal status for it.
Polling(c) == answer[c].kind = "success" /\ answer[c].status \in {"unset", "processing"}

\* A client calls, for the first time or again.
Send(c) ==
    /\ pc[c] = "idle"
    /\ ~Polling(c)
    /\ Goto(c, "lookup")
    /\ UNCHANGED <<body, row, answer, ok, made, outbox, faults>>

\* createIdempotent calls again until the status is terminal.
Poll(c) ==
    /\ pc[c] = "idle"
    /\ Polling(c)
    /\ Goto(c, "lookup")
    /\ UNCHANGED <<body, row, answer, ok, made, outbox, faults>>

\* idempotencyTotalBudget is used up.
GiveUp(c) ==
    /\ pc[c] = "idle"
    /\ Polling(c)
    /\ Return(c, Failure("lost"))
    /\ UNCHANGED <<body, row, made, outbox, faults>>

\* Mutants: any request with the key gets the response; the status is not looked up.
Mut_ReplayAny(c) ==
    Return(c, Success(row.response, outbox))

Mut_ReplayUnresolved(c) ==
    IF row.hash # body[c]
    THEN Return(c, Failure("invalid"))
    ELSE Return(c, Success(row.response, "processing"))

\* handleReplay; a row that waits or is retried is as good as "processing".
HandleReplay(c) ==
    IF row.hash # body[c]
    THEN Return(c, Failure("invalid"))
    ELSE Return(c, Success(row.response, outbox))

\* Lookup finds the key: the response is replayed, or the call is aborted.
Found(c) ==
    IF row.response # None THEN HandleReplay(c) ELSE Return(c, Failure("aborted"))

Lookup(c) ==
    /\ pc[c] = "lookup"
    /\ IF row.state = "live" THEN Found(c) ELSE Goto(c, "reserve") /\ UNCHANGED <<answer, ok>>
    /\ UNCHANGED <<body, row, made, outbox, faults>>

\* Mutant: a reservation replaces one that is there.
Mut_ReserveAnyway(c) ==
    /\ pc[c] = "reserve"
    /\ row' = [state |-> "live", hash |-> body[c], response |-> None]
    /\ Goto(c, "handle")
    /\ UNCHANGED <<body, answer, ok, made, outbox, faults>>

\* Reserve: ON CONFLICT DO NOTHING, with an expired row too.
Reserve(c) ==
    /\ pc[c] = "reserve"
    /\ IF row.state = "absent"
       THEN /\ row' = [state |-> "live", hash |-> body[c], response |-> None]
            /\ Goto(c, "handle")
       ELSE Goto(c, "again") /\ UNCHANGED row
    /\ UNCHANGED <<body, answer, ok, made, outbox, faults>>

\* Another request reserved in between: look again.
LookupAgain(c) ==
    /\ pc[c] = "again"
    /\ IF row.state = "live" THEN Found(c) ELSE Return(c, Failure("aborted"))
    /\ UNCHANGED <<body, row, made, outbox, faults>>

\* The store fails: "proceeding without cache".
StoreFails(c) ==
    /\ pc[c] \in {"lookup", "reserve", "again"}
    /\ Faulty
    /\ Goto(c, "bare")
    /\ UNCHANGED <<body, row, answer, ok, made, outbox>>

\* The handler makes the resource, whose outbox row is pending.
Make ==
    /\ made' = made + 1
    /\ outbox' = "processing"

HandleBare(c) ==
    /\ pc[c] = "bare"
    /\ Make
    /\ Return(c, Success(body[c], "unset"))
    /\ UNCHANGED <<body, row, faults>>

Handle(c) ==
    /\ pc[c] = "handle"
    /\ Make
    /\ ok' = [ok EXCEPT ![c] = TRUE]
    /\ Goto(c, "complete")
    /\ UNCHANGED <<body, row, answer, faults>>

\* The handler fails, before or (an answer lost at the commit) after the fact.
HandlerFails(c) ==
    /\ pc[c] \in {"handle", "bare"}
    /\ Faulty
    /\ Make \/ UNCHANGED <<made, outbox>>
    /\ IF pc[c] = "handle"
       THEN Goto(c, "unreserve") /\ UNCHANGED <<answer, ok>>
       ELSE Return(c, Failure("error"))
    /\ UNCHANGED <<body, row>>

\* The row once IdempotencyKeyComplete has run.
Completed(c) ==
    IF row.state # "absent" /\ row.response = None THEN [row EXCEPT !.response = body[c]] ELSE row

Complete(c) ==
    /\ pc[c] = "complete"
    /\ row' = Completed(c)
    /\ Return(c, Success(body[c], "processing"))
    /\ UNCHANGED <<body, made, outbox, faults>>

\* completeReservation fails, before or after the fact.
CompleteFails(c) ==
    /\ pc[c] = "complete"
    /\ Faulty
    /\ row' \in {row, Completed(c)}
    /\ Goto(c, "unreserve")
    /\ UNCHANGED <<body, answer, ok, made, outbox>>

Outcome(c) == IF ok[c] THEN Success(body[c], "unset") ELSE Failure("error")

\* Mutant: a completed row is deleted too.
Mut_UnreserveAny(c) ==
    /\ pc[c] = "unreserve"
    /\ row' = NoRow
    /\ Return(c, Outcome(c))
    /\ UNCHANGED <<body, made, outbox, faults>>

\* Unreserve deletes the row if it has no response.
Unreserve(c) ==
    /\ pc[c] = "unreserve"
    /\ row' = IF row.response = None THEN NoRow ELSE row
    /\ Return(c, Outcome(c))
    /\ UNCHANGED <<body, made, outbox, faults>>

UnreserveFails(c) ==
    /\ pc[c] = "unreserve"
    /\ Faulty
    /\ Return(c, Outcome(c))
    /\ UNCHANGED <<body, row, made, outbox>>

\* The server dies during the call.
Crash(c) ==
    /\ pc[c] # "idle"
    /\ Faulty
    /\ Return(c, Failure("lost"))
    /\ UNCHANGED <<body, row, made, outbox>>

-----------------------------------------------------------------------------
\* The TTL, a day, is over; no handler and no client's polling takes that long.
Expire ==
    /\ row.state = "live"
    /\ \A c \in Clients : pc[c] \notin {"handle", "complete", "unreserve"} /\ ~Polling(c)
    /\ row' = [row EXCEPT !.state = "expired"]
    /\ UNCHANGED <<body, pc, answer, ok, made, outbox, faults>>

\* StartCleanup: DeleteExpired.  The key may be used afresh.
DeleteExpired ==
    /\ row.state = "expired"
    /\ row' = NoRow
    /\ made' = 0
    /\ UNCHANGED <<body, pc, answer, ok, outbox, faults>>

\* The authz-worker is done with the row of the newest resource (AuthzOutbox) ...
OutboxSettles ==
    /\ made > 0
    /\ outbox = "processing"
    /\ outbox' \in {"completed", "failed"}
    /\ UNCHANGED <<body, row, pc, answer, ok, made, faults>>

\* ... and takes a failed one up again when it restarts.
OutboxResets ==
    /\ outbox = "failed"
    /\ Faulty
    /\ outbox' = "processing"
    /\ UNCHANGED <<body, row, pc, answer, ok, made>>

-----------------------------------------------------------------------------
CallStep(c) ==
    \/ Lookup(c) \/ Reserve(c) \/ LookupAgain(c) \/ HandleBare(c) \/ Handle(c) \/ Complete(c)
    \/ Unreserve(c)

Fault(c) ==
    StoreFails(c) \/ HandlerFails(c) \/ CompleteFails(c) \/ UnreserveFails(c) \/ Crash(c)

Next ==
    \/ \E c \in Clients : Send(c) \/ Poll(c) \/ GiveUp(c) \/ CallStep(c) \/ Fault(c)
    \/ Expire \/ DeleteExpired \/ OutboxSettles \/ OutboxResets

Spec == Init /\ [][Next]_vars

\* Calls run, the client polls, the cleanup ticks, and the outbox is drained.
Fairness ==
    /\ \A c \in Clients : WF_vars(Poll(c)) /\ WF_vars(CallStep(c))
    /\ WF_vars(Expire) /\ WF_vars(DeleteExpired) /\ WF_vars(OutboxSettles)

FairSpec == Spec /\ Fairness

-----------------------------------------------------------------------------
(* Properties *)

\* Calls with one key, concurrent or repeated, make one resource while the key is
\* kept, as long as nothing fails: of the calls that find no key one reserves it,
\* and the others are refused or get its response (Reserve, LookupAgain).
OncePerKey == faults = 0 => made <= 1

\* The interceptor "provides idempotency for Create operations": the same, though
\* the store fails.
AlwaysOncePerKey == made <= 1

\* Whoever gets a success gets the resource of its own message: a key that was
\* used for another message is refused (handleReplay), and no call fills in the
\* reservation of another (Complete).
OwnResponse == \A c \in Clients : answer[c].kind = "success" => answer[c].response = body[c]

\* A response that is stored stays until the key expires: Unreserve, after a
\* completion that failed only as far as the caller can tell, does not delete it.
ResponseIsKept ==
    [][row.state = "live" /\ row.response # None => row'.response = row.response]_vars

\* A reservation does not block its key for ever, even if the server that made it is
\* gone: it gets its response or it goes (CleanupLoop).  And the client that polls gets
\* to see the terminal status of the resource, or an error (createIdempotent).
KeySettles ==
    /\ row.state # "absent" /\ row.response = None ~> row.state = "absent" \/ row.response # None
    /\ \A c \in Clients : Polling(c) ~> ~Polling(c)
=============================================================================
