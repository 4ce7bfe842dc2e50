# Fundament: TLA+ models of the control plane

Fundament is a multi-tenant Kubernetes platform. PostgreSQL is the source of truth. An API
writes to it, row triggers add outbox rows, and workers carry what changed to Gardener (the
clusters, called shoots), to the shoots themselves (namespaces, users) and to OpenFGA
(permissions). Nearly everything that can go wrong lies between these steps: a loop reads
something, makes a few remote calls, and acts on what it read, while other loops, other
replicas and the API go on. That is what the modules here are about.

## The system and what is modelled

| Part | Code | Module | State |
| --- | --- | --- | --- |
| Outbox of cluster-worker | `cluster-worker/pkg/outbox`, `pkg/db/outbox.sql` | `OutboxTable`, `OutboxPromise`, `ClusterOutbox`, `ClusterOutboxProofs` | modelled, safety proved, one replica implements the abstract outbox |
| Life of a cluster | `cluster-worker/pkg/handler/cluster`, `pkg/client/gardener`, `pkg/db/cluster.sql` | `ClusterLifecycle` | modelled |
| Cluster and node pool API | `organization-api/pkg/organization/cluster_*.go`, `node_pool_*.go` | `ClusterLifecycle` | their writes and triggers |
| Namespaces on a shoot | `cluster-worker/pkg/handler/namespace`, `pkg/client/shoot` | `NamespaceSync` | modelled but for the merge of limits |
| Users on a shoot | `cluster-worker/pkg/handler/usersync`, `pkg/client/shoot` | `UserSync` | modelled |
| Permissions | `authz-worker/pkg/worker` | `AuthzOutbox` | modelled |
| Members, invitations, API keys | `organization-api/pkg/organization`, `authn-api/pkg/authn/exchange_token.go` | `AuthzOutbox` | their writes and triggers |
| Circuit breaker | `common/circuitbreaker` | `CircuitBreaker`, composed in `AuthzOutbox` | modelled |
| Project members | `organization-api/pkg/organization/project_member_*.go`, triggers in `db/fundament.sql` | `ProjectMembers`, `ProjectMembersProofs` | modelled, proved for one session |
| Idempotent creates | `common/idempotency`, `terraform-provider/internal/provider/idempotent_create.go` | `Idempotency` | modelled |
| Service account tokens | `kube-api-proxy/pkg/token` | `TokenCache` | modelled |
| Admin kubeconfigs | `common/gardener/access.go` | `KubeconfigCache` | modelled |
| Plugin controller | `plugin-controller/pkg/controller`, `organization-api/pkg/organization/plugin_definition_put.go` | `PluginController` | modelled |
| Plugin runtime | `plugin-sdk/pluginruntime`, `plugins/cert-manager` | `PluginController` | the process the controller deploys |
| openfsc operator | `openfsc-operator/internal/controller`, `internal/helm` | `FSCInstallation` | modelled |
| Rest of organization-api and authn-api, dcim-api, dcim-authn-api, kube-api-proxy, plugin-proxy | | | not modelled (see the end) |
| Terraform resources, functl, funops | | | one call per command; the create loop is in `Idempotency` |
| Frontends, charts, generated code, marketplace-api, tools | | | not modelled: no control of their own |

`PROJECT.json` has the full list of parts, the lines each definition stands for, and the
hazards of the code with the properties that cover them.

## Modules

Each call to PostgreSQL, Gardener, a shoot or OpenFGA is a step of its own, so everything else
can happen between what a loop reads and what it does about it. Data is reduced to what the
properties tell apart: a specification is a version and a number of node pools, a shoot is its
phase and the outcome of its last operation, time is "elapsed or not" or a small age. The
`Mut_` operators are plausible bugs; no specification uses them.

**OutboxTable** has the columns of `tenant.cluster_outbox` that decide what happens to a row
and one operator per statement of `outbox.sql`. Five modules are built on it.

**OutboxPromise** is an outbox without workers, attempts or faults: what is accepted is handled by
everyone it is for and completed, or given up; nothing is done for it afterwards, and one of the
two happens. `Promise` in `ClusterOutbox` maps the statuses `pending` and `retrying` to waiting
and the history `done` to what has been handled, and `KeepsPromise` is the abstract specification,
its fairness included.

**ClusterOutbox** is `outbox/worker.go` for any number of replicas: `Listen`, `Wake` and
`NothingToClaim` are the loop, `Claim` is `OutboxGetAndLock`, `RunHandler` runs the next of the
registered handlers, `CompleteRow` commits. After an error `Rollback` releases the lock, and
only then one of `FailNonRetryable`, `FailRow`, `RetryRow`, `DeferRow` writes the outcome from
the copy taken at the claim. Faults: a crash, the loss of the listening or of the claiming
connection, a failed update. `runs` and `done` are history variables.

**ClusterLifecycle** is one cluster through the three loops that `app.go` starts: the outbox
loop (`LookUp` to `CompleteRow`), the status loop and the reconcile loop with drift detection
and orphan cleanup, against a Gardener project and shoot with optimistic concurrency. The
claiming transaction is one step, since `ClusterOutbox` has its details. Only the rows that wait
are kept in order; of the others a set is enough for the queries.

**NamespaceSync** is one name on one shoot, used by a namespace and its successor. `Load` to
`Complete` are `Sync`, with the gate on readiness, the lost create race, the terminating sibling
and the LimitRange. `ListActive` and `FanOut` handle the ready row, and `ListNamespaces` to
`DeleteOrphan` are `reconcileCluster`. `Outside` is an operator of the shoot who deletes the
namespace or takes the name.

**UserSync** is one user on the clusters of an organization. `Claim` to `Return` are the outbox
loop: `Sync` lists the clusters an event is about (`Targets`), and for each one resolves the
access, ensures the namespace and applies what `applyUserAccess` says, call by call. `ListReady`
to `Reconciled` are the reconcile pass, which reads the users, the accounts and the bindings in
three calls before it applies the plan of `buildReconcilePlan`. The two run in one process beside
each other. `Outside` is an operator of the shoot who deletes, changes or adds objects; objects
that carry the user's label under another name are `otherSA` and `otherCRB`. An operator who
takes the label off is left out, as the handler knows its objects by the label only.

**AuthzOutbox** is authz-worker's loop with its handlers for one entity of each `kind`: a project
member, an organization user, an API key, or a resource (projects, clusters, node pools,
namespaces and plugins share one shape: a parent tuple). `dispatchItem` gives the tuples a handler
deletes and the tuples it writes from its copy of the entity, in two calls (`Delete`, `Write`). The
API's handlers store the entity and a trigger adds the row; a row's place in the order of
`created` is arbitrary, since that is the start of a transaction and not its commit. It is
composed with **CircuitBreaker**, whose check reads the lag of the same outbox and which refuses
requests.

**PluginController** is one installation name over its successive objects. `Reconcile` begins a
pass on the informer's copy (`seen`); `Materialise` and `Finalise` are the order of the calls of
`reconcileChildren` and `handleDeletion`, each of which is an action. Updates of a copy that is not
the current version conflict (`fresh`). Children that are gone may still be shown by the
informers (`ghosts`), so that `CreateOrUpdate` updates what is no longer there. The catalogue
(`published`) can be published again with another hash, and the definition cache outlives that.
The plugin process starts, installs its Helm release when it has its scope, reconciles, and
uninstalls and stops when asked; the kubelet starts it again as long as its Deployment is there.
The ServiceAccount and its RoleBinding are one child, and a rolling update is one pod that is
replaced. The name check, conditions and messages are left out.

**FSCInstallation** is the FSCInstallations of one namespace, of which the oldest owns it
(`olderSibling`), and what is installed there: the database and the group CA (core resources), the
umbrella release, and a release and certificates for each gateway. `Reconcile` begins a pass on the
informer's copy with the first call of `FirstCall`; from then on each call to the API server, to
Helm or to the Controller is an action, up to `UpdateStatus` or `RemoveFinalizer`, which conflict
when the copy is not the current version (`current`). A release has the specification and the
chart version it was installed with, which is what `DeployedChartVersion` and the observed
generation are compared with. `InstallTears` is a Helm install that fails after it was recorded,
`Restart` may bring newer charts, `CertificateRenewed` makes the cached client of the Controller
stale, `PrereqsRemoved` takes the CRDs away with their resources. The Secrets an external directory
refers to are part of `prereqs`. Inways and outways are gateways alike. Releases of others that
have the same name, which the comparison of chart names spares, are left out.

**ProjectMembers** has concurrent sessions at READ COMMITTED: a statement locks the row it
changes, and the trigger that protects the last admin counts what others have committed.

**Idempotency** is the interceptor, its store, the cleanup of expired keys and clients that send
one key again until they see a terminal status.

**TokenCache** and **KubeconfigCache** are caches with an asynchronous refresh and a shared
fetch. Entries have ages, and `Tick` is the clock. In `TokenCache` the shared fetch runs under the
context of the request that started it: `Cancel` is that request going away, and everyone who
waits gets its error. `MCCredentials` has both, as the processes they run in share nothing.

**MCClusterWorker** has behaviours of `ClusterOutbox` with two replicas and behaviours of
`ClusterLifecycle` with one (`scope`): two specifications of one worker, of which the second looks
into the handlers. **MCClusterLifecycle** lets a cluster be changed, or be deleted and calls fail;
`MCClusterWorker` has changes that meet a deletion. **MCFSCInstallation** has two installations
while nothing fails, or one with failures, since the two questions do not meet.

The other `MC` modules only add model values and symmetry sets.

## Runs

Run one with `tlc -config <cfg> <module>`. Deadlock is checked except in
`user_sync`, `plugins` and `fsc_installations`, where the system may come to rest: nothing waits,
and the bounds on changes are used up.

| Run | Module, cfg | What it shows |
| --- | --- | --- |
| `outbox_single` | `MCClusterOutbox`, `ClusterOutboxSingle` | One replica: attempts are bounded, and it implements `OutboxPromise`: a final status is final, every row settles, completed means handled. |
| `cluster_worker` | `MCClusterWorker`, `ClusterWorker` | Two replicas: locks exclude, completed means handled, failed means tried often enough, counters overshoot by less than one step per replica. One replica and one cluster: updates, node pool changes and a deletion racing the sync of earlier changes: when all rows are completed the shoot is as the database says. |
| `lifecycle_liveness` | `MCClusterLifecycle`, `LifecycleLiveness` | One change, or a deletion and one failed call, crash or outside deletion: the shoot converges, readiness is reported and handled, deletions complete and are confirmed. |
| `namespaces` | `MCNamespaceSync`, `Namespaces` | A namespace and its successor: completed rows mean removed and limited, missing namespaces appear, orphans go. |
| `authz` | `MCAuthzOutbox`, `Authz` | Each kind of entity: never two roles, settled means synced, every row settles, the breaker closes again. |
| `user_sync` | `MCUserSync`, `UserSync` | Completed rows are applied, an undisturbed reconcile pass repairs everything, and the two loops do not go on undoing each other. |
| `plugins` | `MCPluginController`, `Plugins` | Only definitions the installation has pinned get a scope or run, nothing outlives the installation, only a plugin that keeps refusing blocks a deletion, an installation that stays comes about. |
| `credentials` | `MCCredentials`, `Credentials` | Waiting requests are answered, no expired kubeconfig is served, an expired token is replaced, one refresher at a time, refreshes end (`EveryoneIsAnswered`). |
| `idempotency` | `MCIdempotency`, `Idempotency` | One resource per key as long as nothing fails, own response, response kept, reservations and polling end (`KeySettles`). |
| `fsc_installations` | `MCFSCInstallation`, `FSCInstallation` | What is reported Active is what is installed, releases and database do not outlive the last installation, the owner of the namespace comes about and a deleted installation goes. |
| `lifecycle_orphan` | `ClusterLifecycle`, `LifecycleOrphan` | Violated: orphan cleanup can delete the shoot of an active cluster. |
| `project_members_two` | `ProjectMembers`, `ProjectMembersTwo` | Violated: two sessions can remove the last two admins. |

**Bounds.** Two rows waiting are enough for one change to race another, and a third only repeats
the pattern (`MaxRows`; `outbox_single` has three rows, one of them without a handler).
`MaxRetries = 2` gives a first, a repeated and a last attempt; the liveness runs use 1, where the
first failure is the last, so that giving up is reached at once. `MaxPreconditionDeferrals = 1`
gives a deferral and one past the cap. One or two faults (`MaxFaults`, `MaxEvents`) can fall on
any step. In `namespaces` a change of the limits and a fault share the bound, so a run has one or
the other. In the lifecycle half of `cluster_worker` there are no faults. Two clients, two callers or two requests
are the least that can share a key, a fetch or a refresh. Lifetimes of three or four ticks leave
room for fresh, due for a refresh, and expired. In `authz` three rows are a creation, a change and
one more, with one fault on any call, or there are two rows and two faults, so that a row is given
up (`MaxLoad`). In `user_sync` the user has two changes of membership
besides the deletion of the project, and one failed call, crash or interference from outside;
one cluster is enough for the two loops to meet, and `UserSyncFanOut` (14 million states) checks
the two invariants with two clusters and one change. In `plugins` two manifests tell a
republished definition from a pinned one, three changes are enough to create, delete and create
again, or to create, repin and republish, and one fault is a failed call, a restart of the
controller or of the plugin, or a child deleted out of band. In `fsc_installations` three changes
create, change and delete an installation, or create two and delete one; three specifications add
a gateway, remove it and change the way it is set up; two chart versions are before and after an
upgrade, and one event is a failed call or install, a restart, a release uninstalled by hand, a
renewed certificate or the loss of the prerequisites.

**Fairness.** Weak fairness, with one exception. The loops are goroutines that a timer or the poll timeout wakes
(`WorkerStep`, `SyncStep`, `PollStep`, `ReconcileStep`), backoff ends because time passes
(`BackoffElapses`, `Tick`, `Expire`), and the outside systems finish what they started
(`ShootStep`, `NamespaceReady`, `Terminated`, answers of the API server). In `PluginController`
the workqueue runs a queued pass, informers catch up, a terminating namespace goes, and the
kubelet starts a container that is down; a plugin that is up runs `Start` and its ticker. In
`FSCInstallation` a pass for one name and a pass for another exclude each other, so each name has
strong fairness (`SF_vars(Reconcile(n))`): the workqueue hands names out in turn and every pass
that leaves the installation there is followed by another (an error, `RequeueAfter` or an event). No fairness is assumed
of the API's users, of faults, or of the shoot becoming ready in `NamespaceSync`. In
`KubeconfigCache` a fetch may also time out. `TokenCache` has no such limit, and the answer of
the API server is assumed.

## Proofs

`ClusterOutboxProofs` proves, for any set of rows, finite set of replicas, assignment of handlers
and limits (`ConstantsAssumption`):

| Theorem | Statement |
| --- | --- |
| `TypeCorrect` | `Spec => []TypeOK` |
| `LockSafety` | `Spec => []LockedWhileProcessing` |
| `MutualExclusion` | `Spec => []ExclusiveProcessing` |
| `CompletionSafety` | `Spec => []CompletedMeansHandled` |
| `FailureSafety` | `Spec => []FailedOnlyAfterMaxAttempts` |

None of the last three is inductive. `IInv` adds what they need. Exclusion needs that, without
faults, a worker holds the lock of the row it processes (`HoldsInv`). Completion needs that the
handlers behind an error-free attempt have succeeded (`DoneInv`), and that the loop is over when
the row is marked (`LoopInv`). Failure is decided from a stale copy: it needs that the copy is
never ahead of the row (`SnapshotInv`, `PresentInv`), and that every retry, every deferral and
every attempt under way was paid for by one run of each handler (`RunsInv`, a bound on a
cardinality). Each conjunct has a lemma with one step per action.

`ProjectMembersProofs` proves `LastAdminSafety`: with one session at a time (`OneSession`) a
project keeps an admin, `Spec => []HasAdmin`, for any set of users. `HasAdmin` is not inductive,
because a statement first counts and then takes effect at its commit: `IInv` adds that the one
session that is open has found another committed admin, or leaves the admins alone, and that
this remains so while it is open. With two sessions exactly that fails, and
`project_members_two` shows how. So the triggers' tests are right, and what is missing is a lock.

Only model-checked: liveness, which is out of the prover's reach, so `KeepsPromise` as a whole;
`CountersBounded` and `AttemptsBounded`; and every property of the other modules.

## Known divergences

Where the code does not do what a comment or a document says, a configuration reproduces it. Two
are runs (above); the others are kept beside them and give a counterexample within minutes.

| Configuration, property | The code | What is said |
| --- | --- | --- |
| `ClusterOutboxPermanent`, `FailedIsPermanent` | `outbox/worker.go:298` unlocks the row before the outcome is written; with two replicas a late `OutboxMarkRetry` reopens a failed row. With one, as the charts have it, `KeepsPromise` holds. | `outbox.sql:50`: "Marks a row as permanently failed" |
| `ClusterOutboxExhausted`, `ExhaustedIsRecognised` | `outbox/worker.go:334` fails a row at `retries = MaxRetries-1`, so it never meets `retries >= max_retries`, and reconciliation adds another. | `outbox.sql:82-83`: "an exhausted failed row (retries >= max_retries)" |
| `LifecycleConfirmed`, `DeletedIsGone` | `cluster/sync.go:94` read the cluster as active; its create comes after the status loop saw no shoot and stored `deleted`. | cluster-worker `README.md:64`: "confirms Shoots are actually gone" |
| `LifecycleReplicas`, `CompletedIsApplied` | Two replicas can apply two rows of one cluster out of order. | cluster-worker `README.md:48`: "without conflicts" |
| `LifecycleUnverified`, `DeletionIsVerified` | A deleted cluster without `shoot_status` whose rows were given up is never polled (`cluster.sql:161`). | `cluster.sql:144`: "Polls until shoot_status = 'deleted'" |
| `LifecycleError`, `ErrorIsReported` | A `ready` cluster is never polled again (`cluster.sql:127`), so a failed update stays unseen. | cluster-worker `README.md:159`: "Ready --> Progressing: Update in progress" |
| `LifecycleUnpolled`, `SyncedIsPolled` | `outbox_status` is that of the last row (`cluster.sql:124`). | `cluster.sql:122`: "has shoot_status or a completed outbox row" |
| `LifecycleSeen`, `ReadyIsSeen` | A status of `deleting` on an active cluster is never polled again. | cluster-worker `README.md:62`: "to know if their cluster is actually ready" |
| `NamespaceRecreated`, `LiveIsKept` | The recheck and the deletion by name (`namespace/mod.go:335`) are two calls; the name can pass to an active namespace in between. The next pass creates it again, without its contents. | `namespace/mod.go:307-309`: "confirm the id it carries is genuinely gone" |
| `AuthzRejoin`, `SettledIsSynced` | The rows of a removed and of a re-added membership share tuples (`project_member.go:34`); a retried removal takes the new role away. | `project_member.go:16`: "syncs a project member's role to OpenFGA" |
| `PluginDeletion`, `DeletionCompletes` | `reconciler.go:258` retries while the plugin answers the uninstall with an error, which it does for ever once its scope has been deleted, or when Helm removed the release and still failed: "helm uninstall" of no release is an error. | docs `developer/plugins/index.md:280`: "Remove finalizer → CR garbage collected" |
| `PluginProduct`, `ProductRemoved` | A plugin that is not up yet is passed over (`reconciler.go:251`), and one that has uninstalled and stopped (`run.go:72`) is restarted before its Deployment goes and installs again. | `reconciler.go:207`: "Request plugin uninstall before tearing down resources" |
| `PluginRepublished`, `PinnedConverges` | `PutPluginDefinition` with `replace` puts another hash under the version (`plugin_definition_put.go:129`), and the older pins never resolve again. | `plugin-controller/pkg/api/v1/types.go:48`: "resolves to exactly one DefinitionHash forever" |
| `FSCCertificates`, `CertificatesTornDown` | Certificates are applied before the release and deleted after it, and found by it (`gateways.go:193`, `fscinstallation_controller.go:290`); a restart or failed call in between leaves them. | openfsc-operator `README.md:48-50`: "uninstalls its release and certificates", "tears down everything the operator provisioned" |
| `FSCGroupCA`, `CATornDown` | `deleteCoreResources` deletes what the present mode asks for (`coreresources.go:27`); after a change from Self to External the group CA stays. | openfsc-operator `README.md:49-50`, as above |
| `FSCTies`, `TornDown` | Of two installations created within one second the one with the smaller name wins, though the other may have provisioned; deleted after that, it leaves it all. | `fscinstallation_controller.go:93-94`: "a conflict loser never provisioned anything" |
| `FSCTornInstall`, `AlwaysConverges` | An install that failed after Helm recorded its version counts as deployed (`gateways.go:149`, `fscinstallation_controller.go:254`) once the generation is observed, and is not tried again. | `gateways.go:140-141`: "(re)installed when missing, when the spec changed, or when the vendored chart version moved" |
| `TokenExpired` (of `MCCredentials`), `ServedIsValid` | Reads extend the entry's TTL (`token/cache.go:67`), not the token's. | `token/cache.go:61-62`: "returns a valid SA token" |
| `IdempotencyLost`, `AlwaysOncePerKey` | When the store fails the create goes on uncached, and the client sends the key again. | `interceptor.go:25-27`: "provides idempotency for Create operations" |

## Not modelled

- Authorization and validation of requests, row level security, metrics, logging and generated
  code (most of the repository by lines: protocol buffers, database access, deep copies).
- The exponential backoff is only "elapsed or not", so the width of `1 << retries` is not covered.
- In `ClusterLifecycle` there is one cluster, so nothing about batch sizes or names shared by
  clusters; in `UserSync` one user.
- That a plugin pod never sees an account without its scope (`reconciler.go:341-342`) is not
  claimed: the order of the calls gives it for a first installation, but a scope deleted out of
  band, or read stale, breaks it. Helm's retry on "forbidden", written for a first install that races
  the grant, also covers that.
- An installation whose definition is not pinned (`PLUGIN_CONTROLLER_ALLOW_UNPINNED_HASH`).
- kube-api-proxy and plugin-proxy forward requests and keep no state but the two caches.
- authn-api: a login looks the user up and, in one transaction, claims an invited user or makes a
  user and an organization; two first logins of one person at once are not modelled. The other
  handlers, and dcim-authn-api, keep nothing but signed cookies and tokens.
- dcim-api: an inventory, nearly always one statement per handler; a layout is saved in one
  transaction.
- The openfsc and istio plugins: a few Helm and manifest calls in the runtime that
  `PluginController` has.
- In `FSCInstallation` a core resource deleted by hand is not restored until the specification or
  the charts change, which the code does not claim; such deletions are left out but for the loss
  of the CRDs.
- organization-api's cache of metrics, and the merge of limits.

## Plan

1. Operators checked against a reference: the merged limits, the backoff with its width,
   `trackFails`.
2. organization-api's metrics cache; concurrent first logins in authn-api.
3. Two memberships of one user within `AuthzOutbox`'s passing run, once the divergence of
   `AuthzRejoin` is settled.
4. Proofs: the safety part of `OutboxPromise` for one replica, from `IInv`; `CountersBounded`;
   `ServedIsValid` and `OneRefresher` of `KubeconfigCache`; `OwnResponse` of `Idempotency`;
   `NoOrphans` of `PluginController`; `CompletedIsRemoved` of `NamespaceSync`.
