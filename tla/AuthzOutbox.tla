---------------------------- MODULE AuthzOutbox ----------------------------
(***************************************************************************)
(* The authz-worker: it takes rows of authz.outbox, written by triggers    *)
(* when a tenant row changes, and brings the OpenFGA tuples in line        *)
(* (authz-worker/pkg/worker).  A behaviour is about the tenant rows of one *)
(* kind: the memberships of one user in one project or organization, over  *)
(* time, or an API key, or a resource with an owner.  The organization API *)
(* that writes them asks OpenFGA for permission, and sits behind the       *)
(* circuit breaker that watches the outbox's lag.                          *)
(***************************************************************************)
EXTENDS OutboxTable, CircuitBreaker, FiniteSets

CONSTANTS
    Workers,     \* authz-worker processes
    Entities,    \* ids of tenant rows of one kind
    Kinds,       \* the kinds of tenant rows to look at
    MaxRows,     \* bound on outbox rows, hence on changes of the entities
    MaxRetries,  \* Config.MaxRetries
    MaxFaults,   \* bound on failed calls, lost connections and crashes
    MaxLoad,     \* bound on rows and faults together
    None         \* no worker, no entity

\* A resource is a project, cluster, node pool, namespace or plugin.
AllKinds == {"project_member", "organization_user", "api_key", "resource"}

ASSUME AuthzAssumption ==
    /\ {MaxRows, MaxRetries, MaxFaults, MaxLoad} \subseteq Nat
    /\ Entities # {}
    /\ Kinds \subseteq AllKinds
    /\ None \notin Workers \cup Entities

Ids == 1 .. MaxRows

Roles == {"admin", "viewer"}

Entity == [state : {"absent", "pending", "active", "declined", "revoked", "deleted"}, role : Roles]

VARIABLES
    kind,      \* the kind of the entities
    entities,  \* the tenant rows
    rows,      \* authz.outbox
    subject,   \* the entity each row is about
    locked,    \* the worker whose transaction holds each row
    old,       \* the rows not completed, created longer ago than the breaker's threshold
    tuples,    \* OpenFGA: a relation, and the entity if the tuple names it
    worker,    \* the loop of each worker
    notified,  \* the workers with a notification to receive
    request,   \* a request of the API that the breaker has let through
    faults     \* faults so far

vars == <<kind, entities, rows, subject, locked, old, tuples, worker, notified, request, faults, open>>

RoleTuples == {<<role, None>> : role \in Roles}

Relations == {"parent", "owner", "creator", "usable_by"}

Loop == [pc : {"down", "draining", "waiting", "reading", "deleting", "writing",
               "finishing", "marking", "failing"},
         row : Nat, copy : Entity]

TypeOK ==
    /\ kind \in Kinds
    /\ entities \in [Entities -> Entity]
    /\ rows \in [Ids -> Row]
    /\ subject \in [Ids -> Entities]
    /\ locked \in [Ids -> Workers \cup {None}]
    /\ old \subseteq Ids
    /\ tuples \subseteq RoleTuples \cup (Relations \X Entities)
    /\ worker \in [Workers -> Loop]
    /\ notified \subseteq Workers
    /\ request \in BOOLEAN
    /\ faults \in 0 .. MaxFaults
    /\ open \in BOOLEAN

NoEntity == [state |-> "absent", role |-> "viewer"]

At(pc) == [pc |-> pc, row |-> 0, copy |-> NoEntity]

Init ==
    /\ kind \in Kinds
    /\ entities = [e \in Entities |-> NoEntity]
    /\ rows = [r \in Ids |-> NoRow]
    /\ subject \in {[r \in Ids |-> e] : e \in Entities}
    /\ locked = [r \in Ids |-> None]
    /\ old = {}
    /\ tuples = {}
    /\ worker = [w \in Workers |-> At("down")]
    /\ notified = {}
    /\ request = FALSE
    /\ faults = 0
    /\ open = FALSE

-----------------------------------------------------------------------------
(* The organization API and the triggers on the tenant tables. *)

WithinLoad == Cardinality({r \in Ids : rows[r].status # "absent"}) + faults < MaxLoad

\* The *_sync_trigger functions and outbox_notify_trigger.  A row's place in the
\* order of created is that of the start of its transaction, which may have waited
\* for another one that started later.
Enqueue(e) ==
    /\ WithinLoad
    /\ \E r \in Ids :
        /\ rows[r].status = "absent"
        /\ rows' = [rows EXCEPT ![r] = NewRow]
        /\ subject' = [subject EXCEPT ![r] = e]
        /\ notified' = notified \cup {w \in Workers : worker[w].pc # "down"}

\* The breaker is asked when a request comes in, not when it writes.
Admit ==
    /\ ~request
    /\ Admitted
    /\ request' = TRUE
    /\ UNCHANGED <<kind, entities, rows, subject, locked, old, tuples, worker, notified, faults, open>>

\* The request changes nothing: it only reads, or it is refused.
Answer ==
    /\ request
    /\ request' = FALSE
    /\ UNCHANGED <<kind, entities, rows, subject, locked, old, tuples, worker, notified, faults, open>>

Store(e, entity) ==
    /\ entities' = [entities EXCEPT ![e] = entity]
    /\ Enqueue(e)
    /\ UNCHANGED <<kind, locked, old, tuples, worker, faults, open>>

Change(e, entity) ==
    /\ request
    /\ request' = FALSE
    /\ Store(e, entity)

Insert(e, state, role) ==
    /\ entities[e].state = "absent"
    /\ Change(e, [state |-> state, role |-> role])

\* checkPermission, where the caller's permission comes from the entity's own tuples.
Permitted(relations, e) == \E relation \in relations : <<relation, e>> \in tuples

\* A user has one membership in a project at a time (project_members_uq_project_user).
AddProjectMember(e, role) ==
    /\ kind = "project_member"
    /\ \A f \in Entities : entities[f].state # "active"
    /\ Insert(e, "active", role)

\* An update that changes nothing writes no row.
UpdateProjectMemberRole(e, role) ==
    /\ kind = "project_member"
    /\ entities[e].state = "active"
    /\ entities[e].role # role
    /\ Permitted({"parent"}, e)
    /\ Change(e, [entities[e] EXCEPT !.role = role])

RemoveProjectMember(e) ==
    /\ kind = "project_member"
    /\ entities[e].state = "active"
    /\ Permitted({"parent"}, e)
    /\ Change(e, [entities[e] EXCEPT !.state = "deleted"])

\* The unique index does not count declined memberships (organizations_users_uq_user).
InviteMember(e, role) ==
    /\ kind = "organization_user"
    /\ \A f \in Entities : entities[f].state \notin {"pending", "active"}
    /\ Insert(e, "pending", role)

AcceptInvitation(e) ==
    /\ kind = "organization_user"
    /\ entities[e].state = "pending"
    /\ Change(e, [entities[e] EXCEPT !.state = "active"])

DeclineInvitation(e) ==
    /\ kind = "organization_user"
    /\ entities[e].state = "pending"
    /\ Change(e, [entities[e] EXCEPT !.state = "declined"])

UpdateMemberPermission(e, role) ==
    /\ kind = "organization_user"
    /\ entities[e].state \in {"pending", "active", "declined"}
    /\ entities[e].role # role
    /\ Change(e, [entities[e] EXCEPT !.role = role])

DeleteMember(e) ==
    /\ kind = "organization_user"
    /\ entities[e].state \in {"pending", "active", "declined"}
    /\ Change(e, [entities[e] EXCEPT !.state = "deleted"])

CreateAPIKey(e) == kind = "api_key" /\ Insert(e, "active", "viewer")

RevokeAPIKey(e) ==
    /\ kind = "api_key"
    /\ entities[e].state = "active"
    /\ Permitted({"creator", "owner"}, e)
    /\ Change(e, [entities[e] EXCEPT !.state = "revoked"])

DeleteAPIKey(e) ==
    /\ kind = "api_key"
    /\ entities[e].state \in {"active", "revoked"}
    /\ Permitted({"creator", "owner"}, e)
    /\ Change(e, [entities[e] EXCEPT !.state = "deleted"])

\* The authn API exchanges a key that it found good, and notes it on the row, which
\* may have been revoked since.  The breaker is not asked.
ExchangeToken(e) ==
    /\ kind = "api_key"
    /\ entities[e].state # "absent"
    /\ Store(e, entities[e])
    /\ UNCHANGED request

CreateResource(e) == kind = "resource" /\ Insert(e, "active", "viewer")

DeleteResource(e) ==
    /\ kind = "resource"
    /\ entities[e].state = "active"
    /\ Permitted({"parent"}, e)
    /\ Change(e, [entities[e] EXCEPT !.state = "deleted"])

-----------------------------------------------------------------------------
(* The worker. *)

Faulty ==
    /\ faults < MaxFaults /\ WithinLoad
    /\ faults' = faults + 1

Goto(w, next) == worker' = [worker EXCEPT ![w] = next]

Mine(w) == worker[w].row

Unlock(w) == locked' = [r \in Ids |-> IF locked[r] = w THEN None ELSE locked[r]]

ResetFailedOutboxItems == [r \in Ids |-> IF rows[r].status = "failed" THEN NewRow ELSE rows[r]]

\* runWithConnection: LISTEN, then failed rows get another chance.
Connect(w) ==
    /\ worker[w].pc = "down"
    /\ rows' = ResetFailedOutboxItems
    /\ Goto(w, At("draining"))
    /\ UNCHANGED <<kind, entities, subject, locked, old, tuples, notified, faults, open, request>>

Available(r) == Claimable(rows[r]) /\ locked[r] = None

\* GetAndLockNextOutboxRow
Claim(w) ==
    /\ worker[w].pc = "draining"
    /\ \E r \in Ids :
        /\ Available(r)
        /\ \A q \in Ids : q < r => ~Available(q)
        /\ locked' = [locked EXCEPT ![r] = w]
        /\ Goto(w, [At("reading") EXCEPT !.row = r])
    /\ UNCHANGED <<kind, entities, rows, subject, old, tuples, notified, faults, open, request>>

\* processBatch has nothing left to do.
Drained(w) ==
    /\ worker[w].pc = "draining"
    /\ \A r \in Ids : ~Available(r)
    /\ Goto(w, At("waiting"))
    /\ UNCHANGED <<kind, entities, rows, subject, locked, old, tuples, notified, faults, open, request>>

\* Mutant: the worker drains the outbox on a notification only.
Mut_WakeOnNotify(w) ==
    /\ worker[w].pc = "waiting"
    /\ w \in notified
    /\ notified' = notified \ {w}
    /\ Goto(w, At("draining"))
    /\ UNCHANGED <<kind, entities, rows, subject, locked, old, tuples, faults, open, request>>

\* waitForNotification: a notification has come, or the poll interval is over.
Wake(w) ==
    /\ worker[w].pc = "waiting"
    /\ notified' = notified \ {w}
    /\ Goto(w, At("draining"))
    /\ UNCHANGED <<kind, entities, rows, subject, locked, old, tuples, faults, open, request>>

\* dispatchItem: the handler reads the entity inside the transaction.
Read(w) ==
    /\ worker[w].pc = "reading"
    /\ Goto(w, [worker[w] EXCEPT !.pc = "deleting", !.copy = entities[subject[Mine(w)]]])
    /\ UNCHANGED <<kind, entities, rows, subject, locked, old, tuples, notified, faults, open, request>>

WhenActive(copy, written) == IF copy.state = "active" THEN written ELSE {}

\* What a handler deletes first and what it writes then, given the entity it has read.
ProjectMember(copy, e) ==
    [delete |-> RoleTuples \cup {<<"parent", e>>},
     write |-> WhenActive(copy, {<<copy.role, None>>, <<"parent", e>>})]

OrganizationUser(copy) ==
    [delete |-> RoleTuples, write |-> WhenActive(copy, {<<copy.role, None>>})]

KeyTuples(e) == {"owner", "creator", "usable_by"} \X {e}

ApiKey(copy, e) ==
    [delete |-> CASE copy.state = "deleted" -> KeyTuples(e)
                  [] copy.state = "revoked" -> {<<"usable_by", e>>}
                  [] OTHER -> {},
     write |-> WhenActive(copy, KeyTuples(e))]

\* Project, Cluster, NodePool, Namespace and Plugin are alike.
Resource(copy, e) ==
    [delete |-> IF copy.state = "deleted" THEN {<<"parent", e>>} ELSE {},
     write |-> WhenActive(copy, {<<"parent", e>>})]

dispatchItem(copy, e) ==
    CASE kind = "project_member" -> ProjectMember(copy, e)
      [] kind = "organization_user" -> OrganizationUser(copy)
      [] kind = "api_key" -> ApiKey(copy, e)
      [] kind = "resource" -> Resource(copy, e)

\* Mutant: only the tuple of the member's present role is deleted.
Mut_DeleteOwnRole(copy, e) == {<<copy.role, None>>, <<"parent", e>>}

ToDelete(copy, e) == dispatchItem(copy, e).delete

\* Mutant: the state of the entity is not looked at.
Mut_WriteWhatever(copy, e) == dispatchItem([copy EXCEPT !.state = "active"], e).write

ToWrite(copy, e) == dispatchItem(copy, e).write

DeleteTuples(w) == tuples' = tuples \ ToDelete(worker[w].copy, subject[Mine(w)])

\* "Remove conflicting role tuples first", if there is something to delete.
Delete(w) ==
    /\ worker[w].pc = "deleting"
    /\ DeleteTuples(w)
    /\ Goto(w, [worker[w] EXCEPT !.pc = "writing"])
    /\ UNCHANGED <<kind, entities, rows, subject, locked, old, notified, faults, open, request>>

WriteTuples(w) == tuples' = tuples \cup ToWrite(worker[w].copy, subject[Mine(w)])

Write(w) ==
    /\ worker[w].pc = "writing"
    /\ WriteTuples(w)
    /\ Goto(w, [worker[w] EXCEPT !.pc = "finishing"])
    /\ UNCHANGED <<kind, entities, rows, subject, locked, old, notified, faults, open, request>>

\* MarkOutboxRowProcessed and Commit.
Finish(w) ==
    /\ worker[w].pc = "finishing"
    /\ rows' = [rows EXCEPT ![Mine(w)].status = "completed"]
    /\ old' = old \ {Mine(w)}
    /\ Unlock(w)
    /\ Goto(w, At("draining"))
    /\ UNCHANGED <<kind, entities, subject, tuples, notified, faults, open, request>>

\* MarkOutboxRowRetry, which returns the new count.
MarkRetry(w) ==
    /\ worker[w].pc = "marking"
    /\ rows' = [rows EXCEPT ![Mine(w)] = OutboxMarkRetry(@)]
    /\ Goto(w, IF rows[Mine(w)].retries + 1 >= MaxRetries
               THEN [worker[w] EXCEPT !.pc = "failing"] ELSE At("draining"))
    /\ UNCHANGED <<kind, entities, subject, locked, old, tuples, notified, faults, open, request>>

\* MarkOutboxRowFailed
MarkFailed(w) ==
    /\ worker[w].pc = "failing"
    /\ rows' = [rows EXCEPT ![Mine(w)] = OutboxMarkFailed(@)]
    /\ Goto(w, At("draining"))
    /\ UNCHANGED <<kind, entities, subject, locked, old, tuples, notified, faults, open, request>>

-----------------------------------------------------------------------------
(* Faults. *)

\* No row can be fetched: the batch ends, and the worker waits.
ClaimFails(w) ==
    /\ worker[w].pc = "draining"
    /\ Faulty
    /\ Goto(w, At("waiting"))
    /\ UNCHANGED <<kind, entities, rows, subject, locked, old, tuples, notified, request, open>>

\* The read or a call to OpenFGA fails; the call may have been carried out.  The
\* transaction is rolled back, and the retry is marked outside of it.
DispatchFails(w) ==
    /\ \/ worker[w].pc \in {"reading", "deleting", "writing"} /\ UNCHANGED tuples
       \/ worker[w].pc = "deleting" /\ DeleteTuples(w)
       \/ worker[w].pc = "writing" /\ WriteTuples(w)
    /\ Faulty
    /\ Unlock(w)
    /\ Goto(w, [worker[w] EXCEPT !.pc = "marking", !.copy = NoEntity])
    /\ UNCHANGED <<kind, entities, rows, subject, old, notified, open, request>>

\* The row cannot be marked: it stays as it was, and the loop goes on.
FinalizeFails(w) ==
    /\ worker[w].pc \in {"finishing", "marking", "failing"}
    /\ Faulty
    /\ Unlock(w)
    /\ Goto(w, At("draining"))
    /\ UNCHANGED <<kind, entities, rows, subject, old, tuples, notified, open, request>>

\* The worker dies, or loses its LISTEN connection; it starts again from Connect.
Crash(w) ==
    /\ worker[w].pc # "down"
    /\ Faulty
    /\ Unlock(w)
    /\ notified' = notified \ {w}
    /\ Goto(w, At("down"))
    /\ UNCHANGED <<kind, entities, rows, subject, old, tuples, open, request>>

-----------------------------------------------------------------------------
(* Time and the circuit breaker of the organization API. *)

BackoffElapses(r) ==
    /\ rows[r].retry_after = "future"
    /\ rows' = [rows EXCEPT ![r].retry_after = "past"]
    /\ UNCHANGED <<kind, entities, subject, locked, old, tuples, worker, notified, request, faults, open>>

RowAges(r) ==
    /\ rows[r].status \in Active
    /\ r \notin old
    /\ old' = old \cup {r}
    /\ UNCHANGED <<kind, entities, rows, subject, locked, tuples, worker, notified, request, faults, open>>

\* AuthzOutboxLagSeconds exceeds the threshold.
Lagging == \E r \in old : rows[r].status \in Active

BreakerPoll ==
    /\ Poll(Lagging)
    /\ UNCHANGED <<kind, entities, rows, subject, locked, old, tuples, worker, notified, faults, request>>

BreakerCheckFails ==
    /\ PollCheckFails
    /\ Faulty
    /\ UNCHANGED <<kind, entities, rows, subject, locked, old, tuples, worker, notified, request>>

-----------------------------------------------------------------------------
API ==
    \/ Admit \/ Answer
    \/ \E e \in Entities :
        \/ \E role \in Roles :
            \/ AddProjectMember(e, role) \/ UpdateProjectMemberRole(e, role)
            \/ InviteMember(e, role) \/ UpdateMemberPermission(e, role)
        \/ RemoveProjectMember(e)
        \/ AcceptInvitation(e) \/ DeclineInvitation(e) \/ DeleteMember(e)
        \/ CreateAPIKey(e) \/ RevokeAPIKey(e) \/ DeleteAPIKey(e) \/ ExchangeToken(e)
        \/ CreateResource(e) \/ DeleteResource(e)

WorkerStep(w) ==
    \/ Connect(w) \/ Claim(w) \/ Drained(w) \/ Wake(w) \/ Read(w) \/ Delete(w)
    \/ Write(w) \/ Finish(w) \/ MarkRetry(w) \/ MarkFailed(w)

Fault(w) == ClaimFails(w) \/ DispatchFails(w) \/ FinalizeFails(w) \/ Crash(w)

Next ==
    \/ API
    \/ \E w \in Workers : WorkerStep(w) \/ Fault(w)
    \/ \E r \in Ids : BackoffElapses(r) \/ RowAges(r)
    \/ BreakerPoll \/ BreakerCheckFails

Spec == Init /\ [][Next]_vars

\* The loops run, time passes, and the breaker is polled by a ticker.
Fairness ==
    /\ \A w \in Workers : WF_vars(WorkerStep(w))
    /\ \A r \in Ids : WF_vars(BackoffElapses(r))
    /\ WF_vars(BreakerPoll)

FairSpec == Spec /\ Fairness

-----------------------------------------------------------------------------
(* Properties *)

\* The tuples an entity calls for: a revoked key is still its owner's and creator's.
Expected(e) ==
    LET live == entities[e].state = "active"
    IN  CASE live /\ kind = "project_member" -> {<<entities[e].role, None>>, <<"parent", e>>}
          [] live /\ kind = "organization_user" -> {<<entities[e].role, None>>}
          [] live /\ kind = "api_key" -> {<<"owner", e>>, <<"creator", e>>, <<"usable_by", e>>}
          [] live /\ kind = "resource" -> {<<"parent", e>>}
          [] entities[e].state = "revoked" -> {<<"owner", e>>, <<"creator", e>>}
          [] OTHER -> {}

\* Each handler "syncs" its entity to OpenFGA: once every row is completed the tuples
\* are those of the entities as they are now, in whatever order overlapping requests
\* committed and created their rows, and whatever was retried in between.
SettledIsSynced ==
    (\A r \in Ids : rows[r].status \in {"absent", "completed"})
        => tuples = UNION {Expected(e) : e \in Entities}

\* A user never holds two roles at once, whatever calls fail or are repeated
\* ("Remove conflicting role tuples first").
OneRole == ~(RoleTuples \subseteq tuples)

\* A change gets through, or its row is failed: no row waits
\* forever, even one whose backoff ends without a notification.
EveryRowSettles ==
    \A r \in Ids : rows[r].status \in Active ~> rows[r].status \in {"completed", "failed"}

\* The breaker opens on a lagging outbox and does not stay open: the worker drains
\* the outbox without the API's help, and failed rows do not count.
BreakerRecovers == open ~> ~open

=============================================================================
