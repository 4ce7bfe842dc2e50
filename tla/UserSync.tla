------------------------------ MODULE UserSync ------------------------------
(***************************************************************************)
(* One user's access to the shoots of an organization:                     *)
(* cluster-worker/pkg/handler/usersync.  On each ready cluster the user    *)
(* has a ServiceAccount when they are a project member or an organization  *)
(* admin, and a ClusterRoleBinding to cluster-admin when an admin.  The    *)
(* outbox loop brings that about after each change of a membership, the    *)
(* reconcile loop after a look at what there is; the two run at the same   *)
(* time in one process.                                                    *)
(*                                                                         *)
(* Each call to PostgreSQL or to a shoot is a step.  An Ensure is a create *)
(* or a read and an update, which fails if the object has changed in       *)
(* between, so that one step stands for the calls that succeed.            *)
(***************************************************************************)
EXTENDS OutboxTable, Sequences

CONSTANTS
    Clusters,    \* the clusters of the organization
    Home,        \* the cluster of the project
    None,        \* no cluster
    MaxChanges,  \* bound on changes of memberships
    MaxRetries,  \* Config.MaxRetries
    MaxEvents    \* bound on failed calls, crashes, and changes from outside

ASSUME UserSyncAssumption ==
    /\ {MaxChanges, MaxRetries, MaxEvents} \subseteq Nat
    /\ Home \in Clusters
    /\ None \notin Clusters

VARIABLES
    org,      \* whether the user is an admin of the organization, by an accepted membership
    project,  \* the user's membership in the project, or that it is deleted
    ready,    \* shoot_status of each cluster: not ready, ready, ready and announced
    queue,    \* the rows of tenant.cluster_outbox that wait, in the order of their ids
    shoot,    \* the user's objects on each cluster
    sync,     \* the outbox loop
    recon,    \* the reconcile loop
    changes,  \* changes of memberships so far
    events,   \* failed calls, crashes and changes from outside so far
    lapsed    \* history: whether something has happened that the outbox does not make good,
              \* and whether the reconcile pass has been disturbed, or there is none

vars == <<org, project, ready, queue, shoot, sync, recon, changes, events, lapsed>>

Levels == {"none", "member", "admin"}

Object == {"absent", "ok", "bad"}

\* The namespace for the accounts, the objects with the user's name, and whether there
\* are others with the user's label.
Shoot == [ns : BOOLEAN, sa : Object, crb : Object, otherSA : BOOLEAN, otherCRB : BOOLEAN]

Empty == [ns |-> FALSE, sa |-> "absent", crb |-> "absent", otherSA |-> FALSE, otherCRB |-> FALSE]

Entity == {"org_user", "project_member"} \cup Clusters

Step == {"EnsureSA", "EnsureCRB", "DeleteSA", "DeleteCRB", "DeleteOtherSA", "DeleteOtherCRB"}

SyncLoop == [pc : {"idle", "listing", "next", "namespace", "applying"}, at : Nat,
             todo : SUBSET Clusters, cluster : Clusters \cup {None}, steps : Seq(Step), failed : BOOLEAN]

ReconLoop == [pc : {"idle", "next", "users", "accounts", "bindings", "applying"},
              todo : SUBSET Clusters, cluster : Clusters \cup {None}, level : Levels,
              sa : Object, otherSA : BOOLEAN, steps : Seq(Step)]

TypeOK ==
    /\ org \in {"plain", "admin"}
    /\ project \in {"none", "member", "deleted"}
    /\ ready \in [Clusters -> {"no", "stored", "announced"}]
    /\ queue \in Seq([id : Entity, row : Row])
    /\ shoot \in [Clusters -> Shoot]
    /\ sync \in SyncLoop
    /\ recon \in ReconLoop
    /\ changes \in 0 .. MaxChanges
    /\ events \in 0 .. MaxEvents
    /\ lapsed \subseteq {"outbox", "pass"}

SyncIdle == [pc |-> "idle", at |-> 0, todo |-> {}, cluster |-> None, steps |-> <<>>, failed |-> FALSE]

ReconIdle == [pc |-> "idle", todo |-> {}, cluster |-> None, level |-> "none", sa |-> "absent",
              otherSA |-> FALSE, steps |-> <<>>]

\* What memberships there are has been dealt with: no cluster was ready.
Init ==
    /\ org \in {"plain", "admin"}
    /\ project \in {"none", "member"}
    /\ ready = [c \in Clusters |-> "no"]
    /\ queue = <<>>
    /\ shoot = [c \in Clusters |-> Empty]
    /\ sync = SyncIdle
    /\ recon = ReconIdle
    /\ changes = 0
    /\ events = 0
    /\ lapsed = {"pass"}

\* ResolveUserAccess, and what UserListForCluster says of the user, as one who is not
\* listed has no access.
ResolveUserAccess(c) ==
    CASE org = "admin" -> "admin"
      [] org # "admin" /\ project = "member" /\ c = Home -> "member"
      [] OTHER -> "none"

ReadyClusters == {c \in Clusters : ready[c] # "no"}

-----------------------------------------------------------------------------
(* The organization API, the triggers, and the status loop. *)

Change ==
    /\ changes < MaxChanges
    /\ changes' = changes + 1

Added(id) == Append(queue, [id |-> id, row |-> NewRow])

\* cluster_outbox_organization_user_trigger: any change of the membership adds a row,
\* such as an invitation.
ChangeOrgUser ==
    /\ Change
    /\ org' \in {"plain", "admin"}
    /\ queue' = Added("org_user")
    /\ lapsed' = lapsed \cup {"pass"}
    /\ UNCHANGED <<project, ready, shoot, sync, recon, events>>

\* cluster_outbox_project_member_trigger
ChangeProjectMember ==
    /\ Change
    /\ project # "deleted"
    /\ project' \in {"none", "member"} \ {project}
    /\ queue' = Added("project_member")
    /\ lapsed' = lapsed \cup {"pass"}
    /\ UNCHANGED <<org, ready, shoot, sync, recon, events>>

\* The soft deletion of a project adds no row for its members.
DeleteProject ==
    /\ project # "deleted"
    /\ project' = "deleted"
    /\ lapsed' = {"outbox", "pass"}
    /\ UNCHANGED <<org, ready, queue, shoot, sync, recon, changes, events>>

\* pollActiveClusters (ClusterLifecycle) stores that the shoot is ready ...
StoreReady(c) ==
    /\ ready[c] = "no"
    /\ ready' = [ready EXCEPT ![c] = "stored"]
    /\ UNCHANGED <<org, project, queue, shoot, sync, recon, changes, events, lapsed>>

\* ... and announces it.
Announce(c) ==
    /\ ready[c] = "stored"
    /\ ready' = [ready EXCEPT ![c] = "announced"]
    /\ queue' = Added(c)
    /\ UNCHANGED <<org, project, shoot, sync, recon, changes, events, lapsed>>

-----------------------------------------------------------------------------
(* The user's objects on a shoot: ShootAccess. *)

\* An account needs its namespace.
Possible(s, step) == step = "EnsureSA" => s.ns

After(s, step) ==
    CASE step = "EnsureSA" -> [s EXCEPT !.sa = "ok"]
      [] step = "EnsureCRB" -> [s EXCEPT !.crb = "ok"]
      [] step = "DeleteSA" -> [s EXCEPT !.sa = "absent"]
      [] step = "DeleteCRB" -> [s EXCEPT !.crb = "absent"]
      [] step = "DeleteOtherSA" -> [s EXCEPT !.otherSA = FALSE]
      [] step = "DeleteOtherCRB" -> [s EXCEPT !.otherCRB = FALSE]

\* What a call that fails has done: nothing, or all, or the first half of a recreation
\* (ensureResource).
AfterFailure(s, step) ==
    {s} \cup (IF Possible(s, step) THEN {After(s, step)} ELSE {})
        \cup (IF step = "EnsureCRB" /\ s.crb = "bad" THEN {[s EXCEPT !.crb = "absent"]} ELSE {})

-----------------------------------------------------------------------------
(* The outbox loop: one row through Sync. *)

MyRow == queue[sync.at].row

Me == queue[sync.at].id

Claim ==
    /\ sync.pc = "idle"
    /\ \E i \in DOMAIN queue :
        /\ Claimable(queue[i].row)
        /\ \A j \in 1 .. i - 1 : ~Claimable(queue[j].row)
        /\ sync' = [SyncIdle EXCEPT !.pc = "listing", !.at = i]
    /\ UNCHANGED <<org, project, ready, queue, shoot, recon, changes, events, lapsed>>

\* The clusters the row is about: all ready ones (syncOrgUser), that of the project if
\* ready (syncProjectMember), or the one that has become ready (syncClusterReady).
Targets ==
    CASE Me = "org_user" -> ReadyClusters
      [] Me = "project_member" -> {Home} \cap ReadyClusters
      [] OTHER -> {Me}

ListClusters ==
    /\ sync.pc = "listing"
    /\ sync' = [sync EXCEPT !.pc = "next", !.todo = Targets]
    /\ UNCHANGED <<org, project, ready, queue, shoot, recon, changes, events, lapsed>>

\* Mutant: a member keeps what an admin has.
Mut_MemberKeepsBinding(level) ==
    CASE level = "admin" -> <<"EnsureSA", "EnsureCRB">>
      [] level = "member" -> <<"EnsureSA">>
      [] level = "none" -> <<"DeleteSA", "DeleteCRB">>

applyUserAccess(level) ==
    CASE level = "admin" -> <<"EnsureSA", "EnsureCRB">>
      [] level = "member" -> <<"EnsureSA", "DeleteCRB">>
      [] level = "none" -> <<"DeleteSA", "DeleteCRB">>

\* The access is read from the database.  Without any, syncUserToCluster skips the
\* namespace, and syncClusterReady does nothing but ensure it.
Resolve ==
    /\ sync.pc = "next"
    /\ \E c \in sync.todo :
        LET level == ResolveUserAccess(c)
        IN  sync' = [sync EXCEPT !.todo = @ \ {c}, !.cluster = c,
                        !.pc = IF level = "none" /\ Me \notin Clusters THEN "applying" ELSE "namespace",
                        !.steps = IF level = "none" /\ Me \in Clusters
                                  THEN <<>> ELSE applyUserAccess(level)]
    /\ UNCHANGED <<org, project, ready, queue, shoot, recon, changes, events, lapsed>>

\* The cluster is dealt with; an error does not keep the others from their turn.
NextCluster(failed) ==
    [sync EXCEPT !.pc = "next", !.cluster = None, !.steps = <<>>, !.failed = @ \/ failed]

\* The loop goes on with the steps, if any.
GoOn(steps) ==
    IF steps = <<>> THEN NextCluster(FALSE) ELSE [sync EXCEPT !.pc = "applying", !.steps = steps]

EnsureNamespace ==
    /\ sync.pc = "namespace"
    /\ shoot' = [shoot EXCEPT ![sync.cluster].ns = TRUE]
    /\ sync' = GoOn(sync.steps)
    /\ UNCHANGED <<org, project, ready, queue, recon, changes, events, lapsed>>

Apply ==
    /\ sync.pc = "applying"
    /\ LET s == shoot[sync.cluster]
           step == Head(sync.steps)
       IN  IF Possible(s, step)
           THEN /\ shoot' = [shoot EXCEPT ![sync.cluster] = After(s, step)]
                /\ sync' = GoOn(Tail(sync.steps))
           ELSE /\ sync' = NextCluster(TRUE)
                /\ UNCHANGED shoot
    /\ lapsed' = lapsed \cup {"pass"}
    /\ UNCHANGED <<org, project, ready, queue, recon, changes, events>>

\* The handler returns: the row is completed, retried or given up.
Return ==
    /\ sync.pc = "next"
    /\ sync.todo = {}
    /\ sync' = SyncIdle
    /\ IF sync.failed /\ MyRow.retries + 1 < MaxRetries
       THEN /\ queue' = [queue EXCEPT ![sync.at].row = OutboxMarkRetry(@)]
            /\ UNCHANGED lapsed
       ELSE /\ queue' = SubSeq(queue, 1, sync.at - 1) \o SubSeq(queue, sync.at + 1, Len(queue))
            /\ lapsed' = IF sync.failed THEN lapsed \cup {"outbox"} ELSE lapsed
    /\ UNCHANGED <<org, project, ready, shoot, recon, changes, events>>

-----------------------------------------------------------------------------
(* The reconcile loop. *)

ListReady ==
    /\ recon.pc = "idle"
    /\ ReadyClusters # {}
    /\ recon' = [ReconIdle EXCEPT !.pc = "next", !.todo = ReadyClusters]
    /\ UNCHANGED <<org, project, ready, queue, shoot, sync, changes, events, lapsed>>

PassOver == IF recon.todo = {} THEN ReconIdle ELSE [ReconIdle EXCEPT !.pc = "next", !.todo = recon.todo]

\* reconcileCluster begins with the namespace.
ReconcileCluster ==
    /\ recon.pc = "next"
    /\ \E c \in recon.todo :
        /\ shoot' = [shoot EXCEPT ![c].ns = TRUE]
        /\ recon' = [recon EXCEPT !.pc = "users", !.todo = @ \ {c}, !.cluster = c]
    /\ lapsed' = lapsed \ {"pass"}
    /\ UNCHANGED <<org, project, ready, queue, sync, changes, events>>

UserListForCluster ==
    /\ recon.pc = "users"
    /\ recon' = [recon EXCEPT !.pc = "accounts", !.level = ResolveUserAccess(recon.cluster)]
    /\ UNCHANGED <<org, project, ready, queue, shoot, sync, changes, events, lapsed>>

ListServiceAccounts ==
    /\ recon.pc = "accounts"
    /\ recon' = [recon EXCEPT !.pc = "bindings", !.sa = shoot[recon.cluster].sa,
                    !.otherSA = shoot[recon.cluster].otherSA]
    /\ UNCHANGED <<org, project, ready, queue, shoot, sync, changes, events, lapsed>>

If(condition, step) == IF condition THEN <<step>> ELSE <<>>

\* Mutant: only what is missing is ensured, and only what has the user's name deleted.
Mut_PlanByName(level, sa, otherSA, crb, otherCRB) ==
    CASE level = "admin" -> If(sa = "absent", "EnsureSA") \o If(crb = "absent", "EnsureCRB")
      [] level = "member" -> If(sa = "absent", "EnsureSA") \o If(crb # "absent", "DeleteCRB")
      [] level = "none" -> If(sa # "absent", "DeleteSA") \o If(crb # "absent", "DeleteCRB")

\* Mutant: members keep the binding they have.
Mut_PlanKeepsBindings(level, sa, otherSA, crb, otherCRB) ==
    CASE level = "admin" -> If(sa # "ok", "EnsureSA") \o If(crb # "ok", "EnsureCRB")
      [] level = "member" -> If(sa # "ok", "EnsureSA") \o If(otherSA, "DeleteOtherSA")
      [] level = "none" -> If(sa # "absent", "DeleteSA") \o If(crb # "absent", "DeleteCRB")

\* The steps for the user: those for one who is not desired are those for orphans.
buildReconcilePlan(level, sa, otherSA, crb, otherCRB) ==
    CASE level = "admin" ->
            If(sa # "ok", "EnsureSA") \o If(crb # "ok", "EnsureCRB")
                \o If(otherSA, "DeleteOtherSA") \o If(otherCRB, "DeleteOtherCRB")
      [] level = "member" ->
            If(sa # "ok", "EnsureSA") \o If(otherSA, "DeleteOtherSA")
                \o If(crb # "absent", "DeleteCRB") \o If(otherCRB, "DeleteOtherCRB")
      [] level = "none" ->
            If(sa # "absent", "DeleteSA") \o If(otherSA, "DeleteOtherSA")
                \o If(crb # "absent", "DeleteCRB") \o If(otherCRB, "DeleteOtherCRB")

\* ListClusterRoleBindings, and the plan.
ListBindings ==
    /\ recon.pc = "bindings"
    /\ LET s == shoot[recon.cluster]
       IN  recon' = [recon EXCEPT !.pc = "applying", !.sa = "absent", !.otherSA = FALSE,
                        !.level = "none",
                        !.steps = buildReconcilePlan(recon.level, recon.sa, recon.otherSA,
                                                     s.crb, s.otherCRB)]
    /\ UNCHANGED <<org, project, ready, queue, shoot, sync, changes, events, lapsed>>

\* applyReconcilePlan: an error does not keep the other steps from being taken.
ReconcileApply ==
    /\ recon.pc = "applying"
    /\ recon.steps # <<>>
    /\ LET s == shoot[recon.cluster]
           step == Head(recon.steps)
       IN  shoot' = [shoot EXCEPT ![recon.cluster] = IF Possible(s, step) THEN After(s, step) ELSE s]
    /\ recon' = [recon EXCEPT !.steps = Tail(@)]
    /\ lapsed' = lapsed \cup {"outbox"}
    /\ UNCHANGED <<org, project, ready, queue, sync, changes, events>>

Reconciled ==
    /\ recon.pc = "applying"
    /\ recon.steps = <<>>
    /\ recon' = PassOver
    /\ lapsed' = lapsed \cup {"pass"}
    /\ UNCHANGED <<org, project, ready, queue, shoot, sync, changes, events>>

-----------------------------------------------------------------------------
(* Time and events. *)

Event ==
    /\ events < MaxEvents
    /\ events' = events + 1

BackoffElapses ==
    /\ \E i \in DOMAIN queue :
        /\ queue[i].row.retry_after = "future"
        /\ queue' = [queue EXCEPT ![i].row.retry_after = "past"]
    /\ UNCHANGED <<org, project, ready, shoot, sync, recon, changes, events, lapsed>>

\* Somebody removes, changes or doubles the user's objects on the shoot; the label
\* stays on them.
Outside ==
    /\ Event
    /\ \E c \in ReadyClusters :
        \/ shoot' = [shoot EXCEPT ![c] = Empty]
        \/ shoot[c].ns /\ shoot' = [shoot EXCEPT ![c].sa = "bad", ![c].otherSA = TRUE]
        \/ shoot' = [shoot EXCEPT ![c].crb = "bad", ![c].otherCRB = TRUE]
    /\ lapsed' = {"outbox", "pass"}
    /\ UNCHANGED <<org, project, ready, queue, sync, recon, changes>>

AnnounceFails ==
    /\ Event
    /\ \E c \in Clusters : ready[c] = "stored" /\ ready' = [ready EXCEPT ![c] = "announced"]
    /\ lapsed' = lapsed \cup {"outbox"}
    /\ UNCHANGED <<org, project, queue, shoot, sync, recon, changes>>

\* A call fails: that of a cluster, or the first ones, which are about no cluster yet.
SyncFails ==
    /\ Event
    /\ \/ sync.pc \in {"listing", "namespace"} /\ UNCHANGED shoot
       \/ /\ sync.pc = "applying"
          /\ \E s \in AfterFailure(shoot[sync.cluster], Head(sync.steps)) :
                shoot' = [shoot EXCEPT ![sync.cluster] = s]
    /\ sync' = NextCluster(TRUE)
    /\ lapsed' = lapsed \cup {"pass"}
    /\ UNCHANGED <<org, project, ready, queue, recon, changes>>

ReconcileFails ==
    /\ Event
    /\ \/ /\ recon.pc \in {"users", "accounts", "bindings"}
          /\ recon' = PassOver
          /\ lapsed' = lapsed \cup {"pass"}
          /\ UNCHANGED shoot
       \/ /\ recon.pc = "applying" /\ recon.steps # <<>>
          /\ \E s \in AfterFailure(shoot[recon.cluster], Head(recon.steps)) :
                shoot' = [shoot EXCEPT ![recon.cluster] = s]
          /\ recon' = [recon EXCEPT !.steps = Tail(@)]
          /\ lapsed' = {"outbox", "pass"}
    /\ UNCHANGED <<org, project, ready, queue, sync, changes>>

\* The process dies and is started again, or the row could not be marked.
Crash ==
    /\ Event
    /\ sync' = SyncIdle
    /\ recon' \in {recon, ReconIdle}
    /\ lapsed' = lapsed \cup {"pass"}
    /\ UNCHANGED <<org, project, ready, queue, shoot, changes>>

-----------------------------------------------------------------------------
SyncStep == Claim \/ ListClusters \/ Resolve \/ EnsureNamespace \/ Apply \/ Return

ReconcileStep ==
    \/ ListReady \/ ReconcileCluster \/ UserListForCluster \/ ListServiceAccounts \/ ListBindings
    \/ ReconcileApply \/ Reconciled

Next ==
    \/ ChangeOrgUser \/ ChangeProjectMember \/ DeleteProject
    \/ \E c \in Clusters : StoreReady(c) \/ Announce(c)
    \/ SyncStep \/ ReconcileStep \/ BackoffElapses
    \/ Outside \/ AnnounceFails \/ SyncFails \/ ReconcileFails \/ Crash

Spec == Init /\ [][Next]_vars

\* The loops are goroutines driven by timers, and time passes.
Fairness == WF_vars(SyncStep) /\ WF_vars(ReconcileStep) /\ WF_vars(BackoffElapses)

FairSpec == Spec /\ Fairness

-----------------------------------------------------------------------------
(* Properties *)

Has(s, level) ==
    /\ s.sa = (IF level = "none" THEN "absent" ELSE "ok")
    /\ s.crb = (IF level = "admin" THEN "ok" ELSE "absent")

\* Once every row is completed the user has on each announced cluster the access of
\* their present memberships, by the rows alone: whichever cluster failed at first,
\* whatever changed between the read of the access and its application, and however
\* the changes fell around the cluster's becoming ready (Sync).  A project's deletion,
\* a row given up, an announcement lost and changes by others are for the reconcile
\* pass.
CompletedIsApplied ==
    queue = <<>> /\ "outbox" \notin lapsed
        => \A c \in Clusters : ready[c] = "announced" => Has(shoot[c], ResolveUserAccess(c))

\* A reconcile pass leaves a cluster on which nobody else was at work, and whose users
\* did not change meanwhile, with exactly the objects the database asks for: nothing
\* is missing, outdated, left over or doubled ("create missing, delete orphaned, fix
\* CRB mismatches").
PassRepairs ==
    recon.pc = "applying" /\ recon.steps = <<>> /\ "pass" \notin lapsed
        => LET s == shoot[recon.cluster]
           IN  Has(s, ResolveUserAccess(recon.cluster)) /\ ~s.otherSA /\ ~s.otherCRB

\* A user's access that stays as it is comes about on every ready cluster and stays:
\* a plan made from an outdated list may undo what the outbox loop has just done, but
\* the two loops do not go on undoing each other's work, and a lapse of the outbox is
\* made good (Reconcile).
AccessConverges ==
    \A c \in Clusters : \A level \in Levels :
        <>[](ready[c] # "no" /\ ResolveUserAccess(c) = level)
            => <>[](Has(shoot[c], level) /\ ~shoot[c].otherSA /\ ~shoot[c].otherCRB)
=============================================================================
