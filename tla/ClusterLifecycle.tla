-------------------------- MODULE ClusterLifecycle --------------------------
(***************************************************************************)
(* The life of one cluster: the API writes it to PostgreSQL, the outbox    *)
(* loop drives its Gardener shoot, the status loop reports the shoot back, *)
(* and the reconcile loop repairs drift and removes orphans                *)
(* (cluster-worker/pkg/handler/cluster and client/gardener).  Every        *)
(* replica runs the three loops concurrently (app.go, Run).                *)
(*                                                                         *)
(* Each call to PostgreSQL or Gardener is a step of its own, so that the   *)
(* others run between what a loop read and what it does about it.  The     *)
(* claiming transaction and the marking of a row, which ClusterOutbox      *)
(* models in full, are one step here.  Of the rows that reached a final    *)
(* status only the set is kept, which is all the queries ask about.        *)
(***************************************************************************)
EXTENDS OutboxTable, Sequences

CONSTANTS
    Replicas,                  \* cluster-worker processes
    MaxRows,                   \* bound on outbox rows waiting at the same time
    MaxChanges,                \* bound on changes of the cluster and its node pools
    MaxRetries,                \* Config.MaxRetries, of the outbox and of the handler
    MaxPreconditionDeferrals,  \* Config.MaxPreconditionDeferrals
    MaxFaults,                 \* bound on failed calls, crashes and outside deletions
    None                       \* no replica

ASSUME LifecycleAssumption ==
    /\ {MaxRows, MaxChanges, MaxRetries, MaxPreconditionDeferrals, MaxFaults} \subseteq Nat
    /\ None \notin Replicas

Ids == 1 .. MaxRows

\* What a row is about decides its handlers: cluster and node_pool rows go to the
\* cluster handler, ready rows to usersync and namespace-sync.
Kinds == {"cluster", "node_pool", "ready"}

ShootStatuses == {"null", "pending", "progressing", "ready", "error", "deleting", "deleted"}

VARIABLES
    cluster,  \* the tenant.clusters row with its node pools
    rows,     \* the cluster's rows of tenant.cluster_outbox that wait
    kind,     \* what each of them is about
    queue,    \* the same rows in the order of their ids
    past,     \* the rows that are completed or failed
    owner,    \* the replica that has claimed each row
    project,  \* the Gardener project: none, creating, ready (has a namespace)
    shoot,    \* the Gardener shoot
    sync,     \* the outbox loop of each replica
    poll,     \* the status loop of each replica
    recon,    \* the reconcile loop of each replica
    faults,   \* failed calls and crashes so far
    drifts,   \* shoots deleted from outside so far
    lost      \* history: who deleted the shoot of an active cluster

vars == <<cluster, rows, kind, queue, past, owner, project, shoot, sync, poll, recon, faults, drifts, lost>>

ShootSpec == [version : Nat, pools : Nat]

ClusterRow == [state : {"none", "active", "deleted"}, version : Nat, pools : Nat,
               outbox_status : OutboxStatus \cup {"null"}, shoot_status : ShootStatuses]

\* op is the state of Gardener's last operation, about is "spec" when it is about
\* the present spec.
Shoot == [phase : {"gone", "live", "deleting"}, spec : ShootSpec, about : {"spec", "older"},
          op : {"none", "processing", "succeeded", "error"}]

Copies == {"none", "fresh", "stale"}

SyncLoop == [pc : {"idle", "checking", "looking", "loading", "finding", "writing",
                   "finding_deleted", "annotating", "deleting", "completing"},
             row : Nat, spec : ShootSpec, copy : Copies]

PollLoop == [pc : {"idle", "active", "deleted", "active_seen", "deleted_seen", "announcing"},
             old : ShootStatuses, seen : ShootStatuses \cup {"not_found"}]

ReconLoop == [pc : {"idle", "listed", "drifted", "orphaned", "annotating", "deleting"},
              active : {"yes", "no"}, completed : {"yes", "no"}, copy : Copies]

TypeOK ==
    /\ cluster \in ClusterRow
    /\ rows \in [Ids -> Row]
    /\ kind \in [Ids -> Kinds]
    /\ queue \in Seq(Ids)
    /\ past \subseteq [kind : Kinds, row : Row]
    /\ owner \in [Ids -> Replicas \cup {None}]
    /\ project \in {"none", "creating", "ready"}
    /\ shoot \in Shoot
    /\ sync \in [Replicas -> SyncLoop]
    /\ poll \in [Replicas -> PollLoop]
    /\ recon \in [Replicas -> ReconLoop]
    /\ faults \in 0 .. MaxFaults
    /\ drifts \in 0 .. MaxFaults
    /\ lost \in {"no", "cleanup", "outbox", "outside"}

NoSpec == [version |-> 0, pools |-> 0]

NoShoot == [phase |-> "gone", spec |-> NoSpec, about |-> "spec", op |-> "none"]

SyncIdle == [pc |-> "idle", row |-> 0, spec |-> NoSpec, copy |-> "none"]

PollIdle == [pc |-> "idle", old |-> "null", seen |-> "null"]

ReconIdle == [pc |-> "idle", active |-> "no", completed |-> "no", copy |-> "none"]

Init ==
    /\ cluster = [state |-> "none", version |-> 0, pools |-> 0,
                  outbox_status |-> "null", shoot_status |-> "null"]
    /\ rows = [r \in Ids |-> NoRow]
    /\ kind = [r \in Ids |-> "cluster"]
    /\ queue = <<>>
    /\ past = {}
    /\ owner = [r \in Ids |-> None]
    /\ project = "none"
    /\ shoot = NoShoot
    /\ sync = [w \in Replicas |-> SyncIdle]
    /\ poll = [w \in Replicas |-> PollIdle]
    /\ recon = [w \in Replicas |-> ReconIdle]
    /\ faults = 0
    /\ drifts = 0
    /\ lost = "no"

-----------------------------------------------------------------------------
(* The outbox table and its triggers. *)

Wanted == [version |-> cluster.version, pools |-> cluster.pools]

outbox == <<rows, kind, queue, past, owner>>

\* A row about k is added, and with it the trigger updates the clusters row to c.
InsertRow(k, c) ==
    \E r \in Ids :
        /\ rows[r].status = "absent"
        /\ \A q \in Ids : q < r => rows[q].status # "absent"
        /\ rows' = [rows EXCEPT ![r] = NewRow]
        /\ kind' = [kind EXCEPT ![r] = k]
        /\ queue' = Append(queue, r)
        /\ cluster' = [c EXCEPT !.outbox_status = NewRow.status]
        /\ UNCHANGED <<past, owner>>

\* Row r becomes row, its claim ends, and the trigger copies the row's status.
WriteRow(r, row) ==
    /\ owner' = [owner EXCEPT ![r] = None]
    /\ cluster' = [cluster EXCEPT !.outbox_status = row.status]
    /\ IF row.status \in Active
       THEN /\ rows' = [rows EXCEPT ![r] = row]
            /\ UNCHANGED <<kind, queue, past>>
       ELSE /\ rows' = [rows EXCEPT ![r] = NoRow]
            /\ kind' = [kind EXCEPT ![r] = "cluster"]
            /\ queue' = SelectSeq(queue, LAMBDA q : q # r)
            /\ past' = past \cup {[kind |-> kind[r], row |-> row]}

Table == past \cup {[kind |-> kind[r], row |-> rows[r]] : r \in Ids}

\* ClusterHasEverBeenSynced: a completed row that has the cluster_id.
EverSynced ==
    \E e \in Table : e.kind # "node_pool" /\ e.row.status = "completed"

\* Mutant: a completed row blocks as well.
Mut_BlockedByAnyRow ==
    \E e \in Table : e.kind # "node_pool" /\ e.row.status # "absent"

\* The NOT EXISTS of OutboxInsertReconcile, over the rows with the cluster_id.
ReconcileBlocked ==
    \E e \in Table : e.kind # "node_pool" /\ BlocksReconcile(e.row, MaxRetries)

-----------------------------------------------------------------------------
(* The organization API, one transaction each. *)

CreateCluster ==
    /\ cluster.state = "none"
    /\ InsertRow("cluster", [cluster EXCEPT !.state = "active"])
    /\ UNCHANGED <<project, shoot, sync, poll, recon, faults, drifts, lost>>

UpdateCluster ==
    /\ cluster.state = "active"
    /\ cluster.version + cluster.pools < MaxChanges
    /\ InsertRow("cluster", [cluster EXCEPT !.version = @ + 1])
    /\ UNCHANGED <<project, shoot, sync, poll, recon, faults, drifts, lost>>

\* A pool is created, resized or deleted; the statements do not look at the cluster.
ChangeNodePool ==
    /\ cluster.state # "none"
    /\ cluster.version + cluster.pools < MaxChanges
    /\ InsertRow("node_pool", [cluster EXCEPT !.pools = @ + 1])
    /\ UNCHANGED <<project, shoot, sync, poll, recon, faults, drifts, lost>>

DeleteCluster ==
    /\ cluster.state = "active"
    /\ InsertRow("cluster", [cluster EXCEPT !.state = "deleted"])
    /\ UNCHANGED <<project, shoot, sync, poll, recon, faults, drifts, lost>>

-----------------------------------------------------------------------------
(* Copies of the shoot.  Gardener refuses an update made from a copy that is *)
(* older than the shoot (resourceVersion), so a write makes the others stale. *)

Staled(loops) ==
    [w \in Replicas |->
        IF loops[w].copy = "fresh" THEN [loops[w] EXCEPT !.copy = "stale"] ELSE loops[w]]

\* getShootByClusterID
CopyOfShoot == IF shoot.phase = "gone" THEN "none" ELSE "fresh"

\* Where a delete of the shoot by who leaves it, and the record of a wrong one.
MarkDeleted(who) ==
    /\ shoot' = IF shoot.phase = "live" THEN [shoot EXCEPT !.phase = "deleting"] ELSE shoot
    /\ lost' = IF shoot.phase = "live" /\ cluster.state = "active" THEN who ELSE lost

-----------------------------------------------------------------------------
(* The outbox loop: one row through the cluster handler's Sync. *)

Available(r) == Claimable(rows[r]) /\ owner[r] = None

Claim(w) ==
    /\ sync[w].pc = "idle"
    /\ \E i \in 1 .. Len(queue) :
        /\ Available(queue[i])
        /\ \A j \in 1 .. i - 1 : ~Available(queue[j])
        /\ owner' = [owner EXCEPT ![queue[i]] = w]
        /\ sync' = [sync EXCEPT ![w] = [SyncIdle EXCEPT !.pc = "checking", !.row = queue[i]]]
    /\ UNCHANGED <<cluster, rows, kind, queue, past, project, shoot, poll, recon, faults, drifts, lost>>

MyRow(w) == rows[sync[w].row]

\* handleRowError; nothing reads the deferrals of a failed row, they are forgotten.
RowError(w) ==
    WriteRow(sync[w].row, IF MyRow(w).retries + 1 >= MaxRetries
                          THEN [OutboxMarkFailed(MyRow(w)) EXCEPT !.deferrals = 0]
                          ELSE OutboxMarkRetry(MyRow(w)))

\* handlePreconditionError
Defer(w) ==
    IF MyRow(w).deferrals + 1 > MaxPreconditionDeferrals
    THEN RowError(w)
    ELSE WriteRow(sync[w].row, OutboxDeferWithoutRetry(MyRow(w)))

\* The loop goes on to next and leaves the row as it is.
Proceed(w, next) ==
    /\ sync' = [sync EXCEPT ![w] = next]
    /\ UNCHANGED <<cluster, outbox>>

\* Sync has returned without an error.
Synced(w) == [SyncIdle EXCEPT !.pc = "completing", !.row = sync[w].row]

\* complete; the counters of a completed row are not read again, and forgotten.
CompleteRow(w) ==
    /\ sync[w].pc = "completing"
    /\ WriteRow(sync[w].row, OutboxMarkProcessed(NewRow))
    /\ sync' = [sync EXCEPT ![w] = SyncIdle]
    /\ UNCHANGED <<project, shoot, poll, recon, faults, drifts, lost>>

\* The users and namespaces of a cluster that became ready, handled elsewhere.
SyncReady(w) ==
    /\ sync[w].pc = "checking"
    /\ kind[sync[w].row] = "ready"
    /\ Proceed(w, Synced(w))
    /\ UNCHANGED <<project, shoot, poll, recon, faults, drifts, lost>>

\* checkPreconditions for a node pool: its cluster has been synced once.
CheckNodePool(w) ==
    /\ sync[w].pc = "checking"
    /\ kind[sync[w].row] = "node_pool"
    /\ IF EverSynced
       THEN Proceed(w, [sync[w] EXCEPT !.pc = "looking"])
       ELSE Defer(w) /\ sync' = [sync EXCEPT ![w] = SyncIdle]
    /\ UNCHANGED <<project, shoot, poll, recon, faults, drifts, lost>>

\* EnsureProject: created when it is missing, and without a namespace at first.
EnsureProject == project' = IF project = "none" THEN "creating" ELSE project

\* checkPreconditions for a cluster: unless it is deleted, its project is ready.
CheckCluster(w) ==
    /\ sync[w].pc = "checking"
    /\ kind[sync[w].row] = "cluster"
    /\ IF cluster.state = "deleted"
       THEN UNCHANGED project
       ELSE EnsureProject
    /\ IF cluster.state = "deleted" \/ project = "ready"
       THEN Proceed(w, [sync[w] EXCEPT !.pc = "looking"])
       ELSE Defer(w) /\ sync' = [sync EXCEPT ![w] = SyncIdle]
    /\ UNCHANGED <<shoot, poll, recon, faults, drifts, lost>>

\* Mutant: a deleted cluster is synced like an active one.
Mut_LookUpIgnoresDeleted(w) ==
    /\ sync[w].pc = "looking"
    /\ Proceed(w, [sync[w] EXCEPT !.pc = "loading", !.spec.version = cluster.version])
    /\ UNCHANGED <<project, shoot, poll, recon, faults, drifts, lost>>

\* ClusterGetForSync decides between the sync path and the delete path.
LookUp(w) ==
    /\ sync[w].pc = "looking"
    /\ Proceed(w, IF cluster.state = "deleted"
                  THEN [sync[w] EXCEPT !.pc = "finding_deleted"]
                  ELSE [sync[w] EXCEPT !.pc = "loading", !.spec.version = cluster.version])
    /\ UNCHANGED <<project, shoot, poll, recon, faults, drifts, lost>>

\* The project's namespace, the node pools and the limits.
Load(w) ==
    /\ sync[w].pc = "loading"
    /\ EnsureProject
    /\ IF project = "ready"
       THEN Proceed(w, [sync[w] EXCEPT !.pc = "finding", !.spec.pools = cluster.pools])
       ELSE RowError(w) /\ sync' = [sync EXCEPT ![w] = SyncIdle]
    /\ UNCHANGED <<shoot, poll, recon, faults, drifts, lost>>

\* ApplyShoot and DeleteShootByClusterID first look the shoot up.
Find(w) ==
    /\ \/ /\ sync[w].pc = "finding"
          /\ Proceed(w, [sync[w] EXCEPT !.pc = "writing", !.copy = CopyOfShoot])
       \/ /\ sync[w].pc = "finding_deleted"
          /\ shoot.phase # "gone"
          /\ Proceed(w, [sync[w] EXCEPT !.pc = "annotating", !.copy = "fresh"])
       \/ /\ sync[w].pc = "finding_deleted"
          /\ shoot.phase = "gone"
          /\ Proceed(w, Synced(w))
    /\ UNCHANGED <<project, shoot, poll, recon, faults, drifts, lost>>

\* ApplyShoot without a shoot: Create, which fails if one has appeared.
CreateShoot(w) ==
    /\ sync[w].pc = "writing"
    /\ sync[w].copy = "none"
    /\ IF shoot.phase = "gone"
       THEN /\ shoot' = [NoShoot EXCEPT !.phase = "live", !.spec = sync[w].spec]
            /\ Proceed(w, Synced(w))
       ELSE /\ UNCHANGED shoot
            /\ RowError(w)
            /\ sync' = [sync EXCEPT ![w] = SyncIdle]
    /\ UNCHANGED <<project, poll, recon, faults, drifts, lost>>

\* Mutant: a conflict is taken for success.
Mut_UpdateIgnoresConflict(w) ==
    /\ sync[w].pc = "writing"
    /\ sync[w].copy # "none"
    /\ shoot' = IF sync[w].copy = "fresh" THEN [shoot EXCEPT !.spec = sync[w].spec] ELSE shoot
    /\ Proceed(w, Synced(w))
    /\ UNCHANGED <<project, poll, recon, faults, drifts, lost>>

\* ApplyShoot with a shoot: Update, which fails if the copy is out of date.
UpdateShoot(w) ==
    /\ sync[w].pc = "writing"
    /\ sync[w].copy # "none"
    /\ IF sync[w].copy = "fresh"
       THEN /\ shoot' = [shoot EXCEPT !.spec = sync[w].spec,
                  !.about = IF shoot.spec = sync[w].spec THEN @ ELSE "older"]
            /\ sync' = [Staled(sync) EXCEPT ![w] = Synced(w)]
            /\ recon' = Staled(recon)
            /\ UNCHANGED <<cluster, outbox>>
       ELSE /\ UNCHANGED <<shoot, recon>>
            /\ sync' = [sync EXCEPT ![w] = SyncIdle]
            /\ RowError(w)
    /\ UNCHANGED <<project, poll, faults, drifts, lost>>

\* deleteShoot: the confirming annotation is an update like any other.
Annotate(w) ==
    /\ sync[w].pc = "annotating"
    /\ IF sync[w].copy = "fresh"
       THEN /\ sync' = [Staled(sync) EXCEPT ![w] = [sync[w] EXCEPT !.pc = "deleting", !.copy = "none"]]
            /\ recon' = Staled(recon)
            /\ UNCHANGED <<cluster, outbox>>
       ELSE /\ sync' = [sync EXCEPT ![w] = SyncIdle]
            /\ UNCHANGED recon
            /\ RowError(w)
    /\ UNCHANGED <<project, shoot, poll, faults, drifts, lost>>

\* deleteShoot: the delete goes by name, and succeeds if the shoot is gone.
Delete(w) ==
    /\ sync[w].pc = "deleting"
    /\ MarkDeleted("outbox")
    /\ sync' = [Staled(sync) EXCEPT ![w] = Synced(w)]
    /\ recon' = Staled(recon)
    /\ UNCHANGED <<cluster, outbox, project, poll, faults, drifts>>

-----------------------------------------------------------------------------
(* The status loop: CheckStatus.  When a poll happens is left open, which    *)
(* covers the rate limit of the two list queries.                            *)

\* Mutant: a cluster that was never polled is not polled.
Mut_SyncedByStatus == cluster.shoot_status # "null"

SyncedOnce == cluster.shoot_status # "null" \/ cluster.outbox_status = "completed"

\* ClusterListNeedingStatusCheck
ListActive(w) ==
    /\ poll[w].pc = "idle"
    /\ cluster.state = "active"
    /\ SyncedOnce
    /\ cluster.shoot_status \in {"null", "pending", "progressing", "error"}
    /\ poll' = [poll EXCEPT ![w] = [PollIdle EXCEPT !.pc = "active", !.old = cluster.shoot_status]]
    /\ UNCHANGED <<cluster, outbox, project, shoot, sync, recon, faults, drifts, lost>>

\* ClusterListDeletedNeedingVerification
ListDeleted(w) ==
    /\ poll[w].pc = "idle"
    /\ cluster.state = "deleted"
    /\ SyncedOnce
    /\ cluster.shoot_status # "deleted"
    /\ poll' = [poll EXCEPT ![w] = [PollIdle EXCEPT !.pc = "deleted"]]
    /\ UNCHANGED <<cluster, outbox, project, shoot, sync, recon, faults, drifts, lost>>

GetShootStatus ==
    CASE shoot.phase = "gone" -> "not_found"
      [] shoot.phase = "deleting" -> "deleting"
      [] shoot.phase = "live" /\ shoot.op \in {"none", "processing"} -> "progressing"
      [] shoot.phase = "live" /\ shoot.op = "succeeded" -> "ready"
      [] shoot.phase = "live" /\ shoot.op = "error" -> "error"

\* The project's namespace, without which the cluster is skipped, and the status.
Observe(w) ==
    /\ poll[w].pc \in {"active", "deleted"}
    /\ EnsureProject
    /\ poll' = [poll EXCEPT ![w] =
         IF project # "ready" THEN PollIdle
         ELSE [@ EXCEPT !.pc = IF poll[w].pc = "active" THEN "active_seen" ELSE "deleted_seen",
                        !.seen = GetShootStatus]]
    /\ UNCHANGED <<cluster, outbox, shoot, sync, recon, faults, drifts, lost>>

\* Mutant: only a change from progressing to ready is announced.
Mut_AnnounceFromProgressing(w) ==
    /\ poll[w].pc = "active_seen"
    /\ cluster' = [cluster EXCEPT !.shoot_status =
         IF poll[w].seen = "not_found" THEN "pending" ELSE poll[w].seen]
    /\ poll' = [poll EXCEPT ![w] =
         IF poll[w].seen = "ready" /\ poll[w].old = "progressing"
         THEN [@ EXCEPT !.pc = "announcing"] ELSE PollIdle]
    /\ UNCHANGED <<outbox, project, shoot, sync, recon, faults, drifts, lost>>

\* pollActiveClusters stores what it saw; a change to ready is announced next.
StoreActive(w) ==
    /\ poll[w].pc = "active_seen"
    /\ cluster' = [cluster EXCEPT !.shoot_status =
         IF poll[w].seen = "not_found" THEN "pending" ELSE poll[w].seen]
    /\ poll' = [poll EXCEPT ![w] =
         IF poll[w].seen = "ready" /\ poll[w].old # "ready"
         THEN [@ EXCEPT !.pc = "announcing"] ELSE PollIdle]
    /\ UNCHANGED <<outbox, project, shoot, sync, recon, faults, drifts, lost>>

\* OutboxInsertReady, unless a ready row is still to be handled.
Announce(w) ==
    /\ poll[w].pc = "announcing"
    /\ IF \E r \in Ids : kind[r] = "ready" /\ rows[r].status \in Active
       THEN UNCHANGED <<cluster, outbox>>
       ELSE InsertRow("ready", cluster)
    /\ poll' = [poll EXCEPT ![w] = PollIdle]
    /\ UNCHANGED <<project, shoot, sync, recon, faults, drifts, lost>>

\* pollDeletedClusters confirms the deletion when the shoot is gone.
StoreDeleted(w) ==
    /\ poll[w].pc = "deleted_seen"
    /\ cluster' = [cluster EXCEPT !.shoot_status =
         IF poll[w].seen = "not_found" THEN "deleted" ELSE "deleting"]
    /\ poll' = [poll EXCEPT ![w] = PollIdle]
    /\ UNCHANGED <<outbox, project, shoot, sync, recon, faults, drifts, lost>>

-----------------------------------------------------------------------------
(* The reconcile loop: Reconcile of the cluster handler. *)

YesNo(b) == IF b THEN "yes" ELSE "no"

ListClusters(w) ==
    /\ recon[w].pc = "idle"
    /\ recon' = [recon EXCEPT ![w] =
         [pc |-> "listed", active |-> YesNo(cluster.state = "active"),
          completed |-> YesNo(cluster.outbox_status = "completed"), copy |-> "none"]]
    /\ UNCHANGED <<cluster, outbox, project, shoot, sync, poll, faults, drifts, lost>>

\* Mutant: no orphan is ever found.
Mut_DriftOnly(w) ==
    /\ recon[w].pc = "listed"
    /\ recon' = [recon EXCEPT ![w] =
         IF recon[w].active = "yes" /\ recon[w].completed = "yes" /\ shoot.phase = "gone"
         THEN [ReconIdle EXCEPT !.pc = "drifted"] ELSE ReconIdle]
    /\ UNCHANGED <<cluster, outbox, project, shoot, sync, poll, faults, drifts, lost>>

\* ListShoots, and the comparison with the clusters listed before.
ListShoots(w) ==
    /\ recon[w].pc = "listed"
    /\ recon' = [recon EXCEPT ![w] =
         CASE recon[w].active = "yes" /\ recon[w].completed = "yes" /\ shoot.phase = "gone" ->
                 [ReconIdle EXCEPT !.pc = "drifted"]
           [] recon[w].active = "no" /\ shoot.phase # "gone" ->
                 [ReconIdle EXCEPT !.pc = "orphaned"]
           [] OTHER -> ReconIdle]
    /\ UNCHANGED <<cluster, outbox, project, shoot, sync, poll, faults, drifts, lost>>

\* OutboxInsertReconcile
RepairDrift(w) ==
    /\ recon[w].pc = "drifted"
    /\ IF ReconcileBlocked
       THEN UNCHANGED <<cluster, outbox>>
       ELSE InsertRow("cluster", cluster)
    /\ recon' = [recon EXCEPT ![w] = ReconIdle]
    /\ UNCHANGED <<project, shoot, sync, poll, faults, drifts, lost>>

\* Orphan cleanup: DeleteShootByClusterID looks the shoot up ...
FindOrphan(w) ==
    /\ recon[w].pc = "orphaned"
    /\ recon' = [recon EXCEPT ![w] =
         IF shoot.phase = "gone" THEN ReconIdle
         ELSE [@ EXCEPT !.pc = "annotating", !.copy = "fresh"]]
    /\ UNCHANGED <<cluster, outbox, project, shoot, sync, poll, faults, drifts, lost>>

\* ... annotates it, which fails on a conflict ...
AnnotateOrphan(w) ==
    /\ recon[w].pc = "annotating"
    /\ IF recon[w].copy = "fresh"
       THEN /\ recon' = [Staled(recon) EXCEPT ![w] =
                  [recon[w] EXCEPT !.pc = "deleting", !.copy = "none"]]
            /\ sync' = Staled(sync)
       ELSE /\ recon' = [recon EXCEPT ![w] = ReconIdle]
            /\ UNCHANGED sync
    /\ UNCHANGED <<cluster, outbox, project, shoot, poll, faults, drifts, lost>>

\* ... and deletes it.
DeleteOrphan(w) ==
    /\ recon[w].pc = "deleting"
    /\ MarkDeleted("cleanup")
    /\ recon' = [Staled(recon) EXCEPT ![w] = ReconIdle]
    /\ sync' = Staled(sync)
    /\ UNCHANGED <<cluster, outbox, project, poll, faults, drifts>>

-----------------------------------------------------------------------------
(* Gardener, time and faults.  A change of the shoot's status makes copies   *)
(* of it stale too.                                                          *)

GardenerStep(new) ==
    /\ shoot' = new
    /\ sync' = Staled(sync)
    /\ recon' = Staled(recon)
    /\ UNCHANGED <<cluster, outbox, project, poll, lost>>

NamespaceReady ==
    /\ project = "creating"
    /\ project' = "ready"
    /\ UNCHANGED <<cluster, outbox, shoot, sync, poll, recon, faults, drifts, lost>>

\* Gardener takes up a new spec ...
StartOperation ==
    /\ shoot.phase = "live"
    /\ shoot.op = "none" \/ (shoot.op # "processing" /\ shoot.about = "older")
    /\ GardenerStep([shoot EXCEPT !.op = "processing", !.about = "spec"])
    /\ UNCHANGED <<faults, drifts>>

\* ... and may retry an operation that failed.
RetryOperation ==
    /\ shoot.phase = "live"
    /\ shoot.op = "error"
    /\ GardenerStep([shoot EXCEPT !.op = "processing", !.about = "spec"])
    /\ UNCHANGED <<faults, drifts>>

OperationSucceeds ==
    /\ shoot.phase = "live"
    /\ shoot.op = "processing"
    /\ GardenerStep([shoot EXCEPT !.op = "succeeded"])
    /\ UNCHANGED <<faults, drifts>>

ShootRemoved ==
    /\ shoot.phase = "deleting"
    /\ GardenerStep(NoShoot)
    /\ UNCHANGED <<faults, drifts>>

BackoffElapses(r) ==
    /\ rows[r].retry_after = "future"
    /\ rows' = [rows EXCEPT ![r].retry_after = "past"]
    /\ UNCHANGED <<cluster, kind, queue, past, owner, project, shoot, sync, poll, recon, faults, drifts, lost>>

Faulty ==
    /\ faults + drifts < MaxFaults
    /\ faults' = faults + 1

OperationFails ==
    /\ shoot.phase = "live"
    /\ shoot.op = "processing"
    /\ Faulty
    /\ GardenerStep([shoot EXCEPT !.op = "error"])
    /\ UNCHANGED drifts

\* Somebody deletes the shoot in Gardener.
Drift ==
    /\ shoot.phase = "live"
    /\ cluster.state = "active"
    /\ faults + drifts < MaxFaults
    /\ drifts' = drifts + 1
    /\ shoot' = [shoot EXCEPT !.phase = "deleting"]
    /\ lost' = "outside"
    /\ sync' = Staled(sync)
    /\ recon' = Staled(recon)
    /\ UNCHANGED <<cluster, outbox, project, poll, faults>>

\* A call of the outbox loop fails: the row is retried or given up.
SyncFails(w) ==
    /\ sync[w].pc \notin {"idle", "completing"}
    /\ Faulty
    /\ RowError(w)
    /\ sync' = [sync EXCEPT ![w] = SyncIdle]
    /\ UNCHANGED <<project, shoot, poll, recon, drifts, lost>>

\* The row is not marked as processed, though what it asked for was done.
CommitFails(w) ==
    /\ sync[w].pc = "completing"
    /\ Faulty
    /\ owner' = [owner EXCEPT ![sync[w].row] = None]
    /\ sync' = [sync EXCEPT ![w] = SyncIdle]
    /\ UNCHANGED <<cluster, rows, kind, queue, past, project, shoot, poll, recon, drifts, lost>>

\* A call of the status loop fails: the cluster is skipped.
PollFails(w) ==
    /\ poll[w].pc # "idle"
    /\ Faulty
    /\ poll' = [poll EXCEPT ![w] = PollIdle]
    /\ UNCHANGED <<cluster, outbox, project, shoot, sync, recon, drifts, lost>>

\* A call of the reconcile loop fails: the pass ends.
ReconcileFails(w) ==
    /\ recon[w].pc # "idle"
    /\ Faulty
    /\ recon' = [recon EXCEPT ![w] = ReconIdle]
    /\ UNCHANGED <<cluster, outbox, project, shoot, sync, poll, drifts, lost>>

\* The process dies and is started again; its transaction is rolled back.
Crash(w) ==
    /\ Faulty
    /\ sync' = [sync EXCEPT ![w] = SyncIdle]
    /\ poll' = [poll EXCEPT ![w] = PollIdle]
    /\ recon' = [recon EXCEPT ![w] = ReconIdle]
    /\ owner' = [r \in Ids |-> IF owner[r] = w THEN None ELSE owner[r]]
    /\ UNCHANGED <<cluster, rows, kind, queue, past, project, shoot, drifts, lost>>

-----------------------------------------------------------------------------
API == CreateCluster \/ UpdateCluster \/ ChangeNodePool \/ DeleteCluster

SyncStep(w) ==
    \/ Claim(w) \/ SyncReady(w) \/ CheckNodePool(w) \/ CheckCluster(w) \/ LookUp(w)
    \/ Load(w) \/ Find(w) \/ CreateShoot(w) \/ UpdateShoot(w) \/ Annotate(w) \/ Delete(w)
    \/ CompleteRow(w)

PollStep(w) ==
    \/ ListActive(w) \/ ListDeleted(w) \/ Observe(w)
    \/ StoreActive(w) \/ Announce(w) \/ StoreDeleted(w)

ReconcileStep(w) ==
    \/ ListClusters(w) \/ ListShoots(w) \/ RepairDrift(w)
    \/ FindOrphan(w) \/ AnnotateOrphan(w) \/ DeleteOrphan(w)

ShootStep == StartOperation \/ OperationSucceeds \/ ShootRemoved

Fault(w) == SyncFails(w) \/ CommitFails(w) \/ PollFails(w) \/ ReconcileFails(w) \/ Crash(w)

Next ==
    \/ API
    \/ \E w \in Replicas : SyncStep(w) \/ PollStep(w) \/ ReconcileStep(w) \/ Fault(w)
    \/ NamespaceReady \/ ShootStep \/ RetryOperation \/ OperationFails \/ Drift
    \/ \E r \in Ids : BackoffElapses(r)

Spec == Init /\ [][Next]_vars

\* The loops are goroutines driven by timers, time passes, and Gardener works.
Fairness ==
    /\ \A w \in Replicas :
          WF_vars(SyncStep(w)) /\ WF_vars(PollStep(w)) /\ WF_vars(ReconcileStep(w))
    /\ WF_vars(NamespaceReady) /\ WF_vars(ShootStep)
    /\ \A r \in Ids : WF_vars(BackoffElapses(r))

FairSpec == Spec /\ Fairness

-----------------------------------------------------------------------------
(* Properties *)

\* A row was given up: the worker does not come back to it.
GivenUp == \E e \in past : e.row.status = "failed"

\* Every row of the cluster has been completed.
Settled == queue = <<>> /\ ~GivenUp

\* No update is lost: once every row is completed, the shoot of an active cluster
\* has the version and node pools the API stored, however changes, retries and
\* crashes fell between what syncCluster reads and what it applies.
CompletedIsApplied ==
    Settled /\ cluster.state = "active" /\ shoot.phase # "gone" => shoot.spec = Wanted

\* No shoot comes back: once every row is completed, a deleted cluster has no
\* live shoot (the delete path of syncCluster).
CompletedIsDeleted ==
    Settled /\ cluster.state = "deleted" => shoot.phase # "live"

\* "Orphan cleanup: shoots in Gardener without a DB cluster" (Reconcile): neither
\* the cleanup nor the outbox deletes the shoot of an active cluster.
OnlyOrphansDeleted == lost \notin {"cleanup", "outbox"}

\* "Deletion verification confirms Shoots are actually gone" (pollDeletedClusters).
DeletedIsGone == cluster.shoot_status = "deleted" => shoot.phase = "gone"

\* A deletion is carried through: the shoot of a deleted cluster goes for good,
\* even if its outbox row was given up (the orphan cleanup of Reconcile).
DeletionCompletes == <>[](cluster.state = "deleted") => <>[](shoot.phase = "gone")

\* ... and is confirmed, unless a row was given up (pollDeletedClusters).
DeletionIsConfirmed ==
    <>[](cluster.state = "deleted" /\ ~GivenUp) => []<>(cluster.shoot_status = "deleted")

\* "Polls until shoot_status = 'deleted' (confirmed removed)", in
\* ClusterListDeletedNeedingVerification.
DeletionIsVerified == cluster.state = "deleted" ~> cluster.shoot_status = "deleted"

\* An active cluster ends up with a shoot of its last spec, unless a row is given
\* up: what the outbox loop does not create, drift detection repairs.
ActiveConverges ==
    <>[](cluster.state = "active" /\ ~GivenUp)
        => <>[](shoot.phase = "live" /\ shoot.spec = Wanted)

\* The success of a new shoot is reported, unless the shoot was lost or a row given
\* up: CheckStatus comes back to the cluster whatever fails in between.
ReadyIsReported ==
    <>[](cluster.state = "active" /\ shoot.op = "succeeded" /\ lost = "no" /\ ~GivenUp)
        => <>[](cluster.shoot_status = "ready")

\* A cluster that is reported ready gets its users and namespaces, whatever status
\* it went through before (pollActiveClusters, OutboxInsertReady).  A failed call or
\* a crash can lose the announcement, which is made once.
ReadyIsHandled ==
    cluster.shoot_status = "ready"
        ~> faults > 0 \/ GivenUp \/ \E e \in past : e.kind = "ready" /\ e.row.status = "completed"

\* "Ready --> Progressing: Update in progress" and "Progressing --> Error": a shoot
\* whose operation has failed for good is reported as such (pollActiveClusters).
ErrorIsReported ==
    <>[](cluster.state = "active" /\ shoot.phase = "live" /\ shoot.op = "error" /\ ~GivenUp)
        => <>(cluster.shoot_status = "error")

\* "Cluster has been synced: has shoot_status or a completed outbox row", in
\* ClusterListNeedingStatusCheck: such a cluster is polled.
SyncedIsPolled ==
    <>[](cluster.state = "active" /\ EverSynced) => <>(cluster.shoot_status # "null")

\* "Users can see shoot_status to know if their cluster is actually ready".
ReadyIsSeen ==
    <>[](cluster.state = "active" /\ shoot.phase = "live" /\ shoot.op = "succeeded" /\ ~GivenUp)
        => <>[](cluster.shoot_status = "ready")
=============================================================================
