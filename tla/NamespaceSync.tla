---------------------------- MODULE NamespaceSync ----------------------------
(***************************************************************************)
(* Namespaces on a shoot: cluster-worker/pkg/handler/namespace, for one    *)
(* cluster, one replica and one cluster-side name, which the successive    *)
(* namespaces of a project with that name share.  The outbox loop brings   *)
(* the object of that name in line with one row of tenant.namespaces; the  *)
(* reconcile loop re-enqueues what is missing and deletes orphans.         *)
(*                                                                         *)
(* Each call to PostgreSQL or to the shoot is a step of its own.  Of the   *)
(* rows with a final status only the failed ones are kept.                 *)
(***************************************************************************)
EXTENDS OutboxTable, Sequences, FiniteSets

CONSTANTS
    Namespaces,                \* ids of tenant.namespaces with the same project and name
    Cluster,                   \* the entity of a ready row
    Foreign,                   \* an object without the namespace-id label
    None,                      \* no object
    MaxRows,                   \* bound on the rows that wait when the API adds one
    MaxRetries,                \* Config.MaxRetries, of the outbox and of the handler
    MaxPreconditionDeferrals,  \* Config.MaxPreconditionDeferrals
    MaxEvents                  \* bound on changes of the limits, failed calls, crashes and
                               \* outside changes, together

ASSUME NamespaceAssumption ==
    /\ {MaxRows, MaxRetries, MaxPreconditionDeferrals, MaxEvents} \subseteq Nat
    /\ Cardinality({Cluster, Foreign, None}) = 3
    /\ {Cluster, Foreign, None} \cap Namespaces = {}

VARIABLES
    ns,       \* the rows of tenant.namespaces: none, active, deleted
    limits,   \* the merged resource defaults of organization and project
    ready,    \* shoot_status: not ready, ready, ready and announced
    queue,    \* the rows of tenant.cluster_outbox that wait, in the order of their ids
    failed,   \* those that were given up
    object,   \* the v1/Namespace of that name on the shoot, with its LimitRange
    sync,     \* the outbox loop
    recon,    \* the reconcile loop
    events    \* changes of the limits, failed calls, crashes and outside changes so far

vars == <<ns, limits, ready, queue, failed, object, sync, recon, events>>

Entry == [id : Namespaces \cup {Cluster}, row : Row]

Object == [phase : {"gone", "live", "terminating"}, id : Namespaces \cup {Foreign, None},
           limit : {"none", "some"}]

NoObject == [phase |-> "gone", id |-> None, limit |-> "none"]

\* Either no default is set, some are, or they contradict each other.
Limits == {"none", "some", "invalid"}

SyncLoop == [pc : {"idle", "loading", "getting", "creating", "getting_again", "patching",
                   "limiting", "getting_deleted", "deleting", "listing", "fanning", "completing"},
             at : Nat, limits : Limits, active : SUBSET Namespaces]

ReconLoop == [pc : {"idle", "listed", "enqueuing", "rechecking", "looking", "deleting"},
              active : SUBSET Namespaces, create : SUBSET Namespaces,
              orphan : BOOLEAN, id : Namespaces \cup {None}]

TypeOK ==
    /\ ns \in [Namespaces -> {"none", "active", "deleted"}]
    /\ limits \in Limits
    /\ ready \in {"no", "stored", "announced"}
    /\ queue \in Seq(Entry)
    /\ failed \subseteq Entry
    /\ object \in Object
    /\ sync \in SyncLoop
    /\ recon \in ReconLoop
    /\ events \in 0 .. MaxEvents

SyncIdle == [pc |-> "idle", at |-> 0, limits |-> "none", active |-> {}]

ReconIdle == [pc |-> "idle", active |-> {}, create |-> {}, orphan |-> FALSE, id |-> None]

Init ==
    /\ ns = [n \in Namespaces |-> "none"]
    /\ limits = "none"
    /\ ready = "no"
    /\ queue = <<>>
    /\ failed = {}
    /\ object = NoObject
    /\ sync = SyncIdle
    /\ recon = ReconIdle
    /\ events = 0

\* NamespaceListActiveForCluster
ActiveIds == {n \in Namespaces : ns[n] = "active"}

-----------------------------------------------------------------------------
(* The outbox table. *)

Entries(ids) == {[id |-> n, row |-> NewRow] : n \in ids}

\* Rows for ids are added, in any order.
Added(q, ids) ==
    {q \o s : s \in {t \in [1 .. Cardinality(ids) -> Entries(ids)] :
                        \A i, j \in DOMAIN t : t[i] = t[j] => i = j}}

\* Mutant: any row of the namespace blocks, a failed one too.
Mut_BlockedByFailed(n) ==
    \/ \E i \in DOMAIN queue : queue[i].id = n
    \/ \E e \in failed : e.id = n

\* The NOT EXISTS of OutboxInsertReconcileForNamespace.
Blocked(n) ==
    \/ \E i \in DOMAIN queue : queue[i].id = n /\ BlocksReconcile(queue[i].row, MaxRetries)
    \/ \E e \in failed : e.id = n /\ BlocksReconcile(e.row, MaxRetries)

\* OutboxInsertReconcileForNamespace for each of ids.
EnqueueReconcile(ids) == queue' \in Added(queue, {n \in ids : ~Blocked(n)})

\* Row i becomes row; nothing reads the deferrals of a failed one.
WriteRow(i, row) ==
    IF row.status \in Active
    THEN /\ queue' = [queue EXCEPT ![i].row = row]
         /\ UNCHANGED failed
    ELSE /\ queue' = SubSeq(queue, 1, i - 1) \o SubSeq(queue, i + 1, Len(queue))
         /\ failed' = IF row.status = "failed"
                      THEN failed \cup {[id |-> queue[i].id, row |-> [row EXCEPT !.deferrals = 0]]}
                      ELSE failed

-----------------------------------------------------------------------------
(* The organization API and the status loop. *)

Event ==
    /\ events < MaxEvents
    /\ events' = events + 1

\* The unique constraint leaves one namespace of a name active at a time.
CreateNamespace(n) ==
    /\ ns[n] = "none"
    /\ ActiveIds = {}
    /\ Len(queue) < MaxRows
    /\ ns' = [ns EXCEPT ![n] = "active"]
    /\ queue' \in Added(queue, {n})
    /\ UNCHANGED <<limits, ready, failed, object, sync, recon, events>>

DeleteNamespace(n) ==
    /\ ns[n] = "active"
    /\ Len(queue) < MaxRows
    /\ ns' = [ns EXCEPT ![n] = "deleted"]
    /\ queue' \in Added(queue, {n})
    /\ UNCHANGED <<limits, ready, failed, object, sync, recon, events>>

\* The triggers on organization and project limits add a row per active namespace.
UpdateLimits ==
    /\ Event
    /\ Len(queue) < MaxRows
    /\ limits' \in Limits \ {limits}
    /\ queue' \in Added(queue, ActiveIds)
    /\ UNCHANGED <<ns, ready, failed, object, sync, recon>>

\* pollActiveClusters stores that the shoot is ready (ClusterLifecycle) ...
StoreReady ==
    /\ ready = "no"
    /\ ready' = "stored"
    /\ UNCHANGED <<ns, limits, queue, failed, object, sync, recon, events>>

\* ... and announces it, which fails without a second try.
Announce ==
    /\ ready = "stored"
    /\ ready' = "announced"
    /\ queue' \in Added(queue, {Cluster})
    /\ UNCHANGED <<ns, limits, failed, object, sync, recon, events>>

-----------------------------------------------------------------------------
(* The outbox loop: one row through the namespace handler's Sync. *)

Goto(pc) == sync' = [sync EXCEPT !.pc = pc]

Me == queue[sync.at].id

MyRow == queue[sync.at].row

Claim ==
    /\ sync.pc = "idle"
    /\ \E i \in DOMAIN queue :
        /\ Claimable(queue[i].row)
        /\ \A j \in 1 .. i - 1 : ~Claimable(queue[j].row)
        /\ sync' = [SyncIdle EXCEPT !.at = i,
                        !.pc = IF queue[i].id = Cluster THEN "listing" ELSE "loading"]
    /\ UNCHANGED <<ns, limits, ready, queue, failed, object, recon, events>>

\* The handler returned an error: handleRowError.
RowError ==
    /\ WriteRow(sync.at, IF MyRow.retries + 1 >= MaxRetries
                         THEN OutboxMarkFailed(MyRow) ELSE OutboxMarkRetry(MyRow))
    /\ sync' = SyncIdle

\* The handler returned a PreconditionError: handlePreconditionError.
Defer ==
    IF MyRow.deferrals + 1 > MaxPreconditionDeferrals
    THEN RowError
    ELSE WriteRow(sync.at, OutboxDeferWithoutRetry(MyRow)) /\ sync' = SyncIdle

Proceed(pc) == Goto(pc) /\ UNCHANGED <<queue, failed>>

Complete ==
    /\ sync.pc = "completing"
    /\ WriteRow(sync.at, OutboxMarkProcessed(MyRow))
    /\ sync' = SyncIdle
    /\ UNCHANGED <<ns, limits, ready, object, recon, events>>

\* enqueueClusterNamespaces
ListActive ==
    /\ sync.pc = "listing"
    /\ sync' = [sync EXCEPT !.pc = "fanning", !.active = ActiveIds]
    /\ UNCHANGED <<ns, limits, ready, queue, failed, object, recon, events>>

FanOut ==
    /\ sync.pc = "fanning"
    /\ EnqueueReconcile(sync.active)
    /\ sync' = [sync EXCEPT !.pc = "completing", !.active = {}]
    /\ UNCHANGED <<ns, limits, ready, failed, object, recon, events>>

\* Mutant: a deleted namespace is synced like an active one.
Mut_LoadIgnoresDeleted ==
    /\ sync.pc = "loading"
    /\ IF ready = "no"
       THEN Defer
       ELSE sync' = [sync EXCEPT !.pc = "getting", !.limits = limits] /\ UNCHANGED <<queue, failed>>
    /\ UNCHANGED <<ns, limits, ready, object, recon, events>>

\* syncNamespace: NamespaceGetForSync and the gate on the shoot's readiness.
Load ==
    /\ sync.pc = "loading"
    /\ CASE ready = "no" -> Defer
         [] ready # "no" /\ ns[Me] = "deleted" -> Proceed("getting_deleted")
         [] OTHER -> /\ sync' = [sync EXCEPT !.pc = "getting", !.limits = limits]
                     /\ UNCHANGED <<queue, failed>>
    /\ UNCHANGED <<ns, limits, ready, object, recon, events>>

\* ensureNamespace with an object in place: ours is patched, that of a sibling is
\* waited for, another one is a collision (nameTakenError).
Existing ==
    CASE object.id = Me -> Proceed("patching")
      [] object.id \in Namespaces \ {Me} -> Defer
      [] object.id = Foreign -> RowError

Get ==
    /\ sync.pc = "getting"
    /\ IF object.phase = "gone" THEN Proceed("creating") ELSE Existing
    /\ UNCHANGED <<ns, limits, ready, object, recon, events>>

Create ==
    /\ sync.pc = "creating"
    /\ IF object.phase = "gone"
       THEN object' = [NoObject EXCEPT !.phase = "live", !.id = Me] /\ Goto("limiting")
       ELSE UNCHANGED object /\ Goto("getting_again")
    /\ UNCHANGED <<ns, limits, ready, queue, failed, recon, events>>

\* A create race was lost: look again.
GetAgain ==
    /\ sync.pc = "getting_again"
    /\ IF object.phase = "gone" THEN Defer ELSE Existing
    /\ UNCHANGED <<ns, limits, ready, object, recon, events>>

\* Mutant: only a new namespace gets a LimitRange.
Mut_PatchCompletes ==
    /\ sync.pc = "patching"
    /\ IF object.phase = "gone"
       THEN RowError /\ UNCHANGED object
       ELSE object' = [object EXCEPT !.id = Me] /\ Proceed("completing")
    /\ UNCHANGED <<ns, limits, ready, recon, events>>

\* reconcileLabels: a merge patch by name, whatever has that name now.
Patch ==
    /\ sync.pc = "patching"
    /\ IF object.phase = "gone"
       THEN RowError /\ UNCHANGED object
       ELSE object' = [object EXCEPT !.id = Me] /\ Proceed("limiting")
    /\ UNCHANGED <<ns, limits, ready, recon, events>>

\* reconcileLimitRange: an invalid merge is an error, no defaults delete the
\* LimitRange (a missing one or a missing namespace is fine), and others create or
\* update it, which an absent or a terminating namespace refuses.
ReconcileLimitRange ==
    /\ sync.pc = "limiting"
    /\ CASE sync.limits = "invalid" -> RowError /\ UNCHANGED object
         [] sync.limits = "none" ->
               object' = [object EXCEPT !.limit = "none"] /\ Proceed("completing")
         [] sync.limits = "some" /\ object.phase = "live" ->
               object' = [object EXCEPT !.limit = "some"] /\ Proceed("completing")
         [] OTHER -> RowError /\ UNCHANGED object
    /\ UNCHANGED <<ns, limits, ready, recon, events>>

\* delete: nothing is done about an object that is absent or not ours.
GetDeleted ==
    /\ sync.pc = "getting_deleted"
    /\ Proceed(IF object.id = Me THEN "deleting" ELSE "completing")
    /\ UNCHANGED <<ns, limits, ready, object, recon, events>>

\* DeleteNamespace goes by name, and absence is success.
Deleted == IF object.phase = "live" THEN [object EXCEPT !.phase = "terminating"] ELSE object

Delete ==
    /\ sync.pc = "deleting"
    /\ object' = Deleted
    /\ Proceed("completing")
    /\ UNCHANGED <<ns, limits, ready, recon, events>>

-----------------------------------------------------------------------------
(* The reconcile loop: reconcileCluster. *)

\* ClusterListReady and NamespaceListActiveForCluster.
ListNamespaces ==
    /\ recon.pc = "idle"
    /\ ready # "no"
    /\ recon' = [ReconIdle EXCEPT !.pc = "listed", !.active = ActiveIds]
    /\ UNCHANGED <<ns, limits, ready, queue, failed, object, sync, events>>

\* Mutant: only what is missing is looked for.
Mut_PlanCreates ==
    /\ recon.pc = "listed"
    /\ recon' = [ReconIdle EXCEPT !.pc = "enqueuing", !.create = recon.active \ {object.id}]
    /\ UNCHANGED <<ns, limits, ready, queue, failed, object, sync, events>>

\* The labelled objects of the shoot, and BuildPlan.
BuildPlan ==
    /\ recon.pc = "listed"
    /\ recon' = [ReconIdle EXCEPT !.pc = "enqueuing",
                    !.create = recon.active \ {object.id},
                    !.orphan = object.id \in Namespaces \ recon.active]
    /\ UNCHANGED <<ns, limits, ready, queue, failed, object, sync, events>>

Enqueued == IF recon.orphan THEN [ReconIdle EXCEPT !.pc = "rechecking"] ELSE ReconIdle

Enqueue ==
    /\ recon.pc = "enqueuing"
    /\ EnqueueReconcile(recon.create)
    /\ recon' = Enqueued
    /\ UNCHANGED <<ns, limits, ready, failed, object, sync, events>>

\* An orphan is looked up again ...
Recheck ==
    /\ recon.pc = "rechecking"
    /\ recon' = IF object.id \in Namespaces
                THEN [ReconIdle EXCEPT !.pc = "looking", !.id = object.id] ELSE ReconIdle
    /\ UNCHANGED <<ns, limits, ready, queue, failed, object, sync, events>>

\* ... its id is looked up in the database ...
LookUp ==
    /\ recon.pc = "looking"
    /\ recon' = IF ns[recon.id] = "active" THEN ReconIdle ELSE [ReconIdle EXCEPT !.pc = "deleting"]
    /\ UNCHANGED <<ns, limits, ready, queue, failed, object, sync, events>>

\* ... and it is deleted, by name.
DeleteOrphan ==
    /\ recon.pc = "deleting"
    /\ object' = Deleted
    /\ recon' = ReconIdle
    /\ UNCHANGED <<ns, limits, ready, queue, failed, sync, events>>

-----------------------------------------------------------------------------
(* The shoot, time and events. *)

Terminated ==
    /\ object.phase = "terminating"
    /\ object' = NoObject
    /\ UNCHANGED <<ns, limits, ready, queue, failed, sync, recon, events>>

BackoffElapses ==
    /\ \E i \in DOMAIN queue :
        /\ queue[i].row.retry_after = "future"
        /\ queue' = [queue EXCEPT ![i].row.retry_after = "past"]
    /\ UNCHANGED <<ns, limits, ready, failed, object, sync, recon, events>>

\* An operator of the shoot deletes the namespace, or takes the name for another.
Outside ==
    /\ Event
    /\ \/ object.phase = "live" /\ object' = Deleted
       \/ object.phase = "gone" /\ object' = [NoObject EXCEPT !.phase = "live", !.id = Foreign]
    /\ UNCHANGED <<ns, limits, ready, queue, failed, sync, recon>>

AnnounceFails ==
    /\ ready = "stored"
    /\ Event
    /\ ready' = "announced"
    /\ UNCHANGED <<ns, limits, queue, failed, object, sync, recon>>

SyncFails ==
    /\ sync.pc \notin {"idle", "completing"}
    /\ Event
    /\ RowError
    /\ UNCHANGED <<ns, limits, ready, object, recon>>

\* A failed insert does not keep the pass from its orphans.
ReconcileFails ==
    /\ recon.pc # "idle"
    /\ Event
    /\ recon' = IF recon.pc = "enqueuing" THEN Enqueued ELSE ReconIdle
    /\ UNCHANGED <<ns, limits, ready, queue, failed, object, sync>>

\* The process dies and is started again, or the row could not be marked.
Crash ==
    /\ Event
    /\ sync' = SyncIdle
    /\ recon' \in {recon, ReconIdle}
    /\ UNCHANGED <<ns, limits, ready, queue, failed, object>>

-----------------------------------------------------------------------------
API == UpdateLimits \/ \E n \in Namespaces : CreateNamespace(n) \/ DeleteNamespace(n)

SyncStep ==
    \/ Claim \/ Complete \/ ListActive \/ FanOut \/ Load \/ Get \/ Create \/ GetAgain \/ Patch
    \/ ReconcileLimitRange \/ GetDeleted \/ Delete

ReconcileStep ==
    ListNamespaces \/ BuildPlan \/ Enqueue \/ Recheck \/ LookUp \/ DeleteOrphan

Fault == Outside \/ AnnounceFails \/ SyncFails \/ ReconcileFails \/ Crash

Next ==
    API \/ StoreReady \/ Announce \/ SyncStep \/ ReconcileStep \/ Terminated \/ BackoffElapses \/ Fault

Spec == Init /\ [][Next]_vars

\* The loops are goroutines driven by timers, time passes, and the shoot's namespace
\* controller works.
Fairness ==
    /\ WF_vars(SyncStep) /\ WF_vars(ReconcileStep) /\ WF_vars(BackoffElapses)
    /\ WF_vars(Terminated)

FairSpec == Spec /\ Fairness

-----------------------------------------------------------------------------
(* Properties *)

Settled == queue = <<>> /\ failed = {}

\* Once every row is completed no deleted namespace is alive on the shoot: an ensure
\* that read the row before its deletion is followed by the deletion's own row
\* (syncNamespace).
CompletedIsRemoved ==
    Settled => \A n \in Namespaces : ns[n] = "deleted" /\ object.id = n => object.phase # "live"

\* Once every row is completed the namespace has the LimitRange of the present
\* defaults, however their changes fell into a sync, and also when it was created
\* anew in between (ensure, reconcileLimitRange).
CompletedIsLimited ==
    Settled /\ object.id \in ActiveIds /\ object.phase = "live" => object.limit = limits

\* An active namespace is in the end on a shoot that is ready, unless the name is
\* taken by somebody else's: though rows are deferred while the shoot is not ready,
\* held up by the predecessor's removal, given up, lost or their effect undone, the
\* reconcile pass enqueues another (reconcileCluster, enqueueClusterNamespaces).
ActiveMaterialises ==
    <>[](ActiveIds # {} /\ ready # "no" /\ object.id # Foreign)
        => <>[](object.phase = "live" /\ object.id \in ActiveIds)

\* In the end no object of a deleted namespace is left and none comes back, even
\* if the row of the deletion was given up (the orphans of reconcileCluster).
OrphanIsRemoved == <>[](object.id \in Namespaces => ns[object.id] # "deleted")

\* "Deleting it would destroy a live namespace, so re-read the live label and confirm
\* the id it carries is genuinely gone or soft-deleted" (reconcileCluster): the orphan
\* cleanup does not delete the object of an active namespace.
LiveIsKept ==
    [][recon.pc = "deleting" /\ recon'.pc = "idle" /\ object.id \in ActiveIds => object' = object]_vars
=============================================================================
