--------------------------- MODULE PluginController ---------------------------
(***************************************************************************)
(* The plugin controller (plugin-controller/pkg/controller) for one        *)
(* PluginInstallation name over its successive objects, the plugin process *)
(* it deploys (plugin-sdk/pluginruntime, with the Helm based installer all *)
(* plugins share) and the catalogue its definitions come from.             *)
(*                                                                         *)
(* One step is one call to the API server, to the catalogue or to the      *)
(* plugin.  Reads of the controller go through informers, so both the      *)
(* installation (seen) and its children (ghosts) may be read stale.  An    *)
(* update of a copy that is not of the current resource version conflicts. *)
(* A definition is identified with its hash.  The Kubernetes parts (the    *)
(* namespace controller, the kubelet, the informers) are external.         *)
(***************************************************************************)
EXTENDS Naturals, FiniteSets, SequencesExt

CONSTANTS
    Manifests,          \* the definitions ever published under the version
    None,
    Unpinned,           \* an empty or placeholder definitionHash
    AllowUnpinnedHash,  \* PLUGIN_CONTROLLER_ALLOW_UNPINNED_HASH
    HelmTears,          \* "helm uninstall" may fail after removing the release
    MaxChanges,         \* bound: changes made by users and publishers
    MaxFaults           \* bound: failed calls, crashes, out-of-band deletions

VARIABLES
    published,  \* the active definition of the version, or None
    cr,         \* the PluginInstallation in the API server
    phase,      \* its status.phase
    consented,  \* the hashes its spec has pinned since it was created
    seen,       \* the informer's copy of cr
    work,       \* the reconciler: its call, its copy of cr, its definition
    fresh,      \* which of the copies "seen", "work" are the current version
    queued,     \* the name is in the workqueue, or waits for a requeue
    cache,      \* the definitionCache
    ns,         \* the plugin namespace: "gone", "live" or "terminating"
    inside,     \* the ServiceAccount with its RoleBinding, the Service
    deploy,     \* the definition whose image the Deployment runs, or None
    role,       \* the definition of the plugin-scope ClusterRole, or None
    crb,        \* the plugin-scope ClusterRoleBinding exists
    ghosts,     \* children gone that the informers still show
    pod,        \* the plugin process and the status it reports
    installed,  \* the Helm release of the product, in its own namespace
    changes, faults

object == <<cr, phase, consented>>
children == <<ns, inside, deploy, role, crb>>
reconciler == <<work, queued, cache>>
plugin == <<pod, installed>>
bounds == <<changes, faults>>
vars == <<published, object, seen, fresh, reconciler, children, ghosts, plugin, bounds>>

Absent == [life |-> "absent", fin |-> FALSE, pin |-> None]
Idle == [pc |-> "idle", copy |-> Absent, def |-> None, phase |-> "none"]
Down == [state |-> "down", report |-> "installing"]
NoPod == [state |-> "none", report |-> "installing"]

Mut_ForgetScope == <<"terminating", "uninstall", "delete role", "delete ns", "unfinalise">>

(***************************************************************************)
(* The order of the calls of reconcileChildren and handleDeletion.         *)
(***************************************************************************)
Materialise == <<"fetch", "ns", "account", "role", "crb", "deploy", "service", "poll", "status">>
Finalise == <<"terminating", "uninstall", "delete crb", "delete role", "delete ns", "unfinalise">>

Then(pc) ==
    LET calls == IF pc \in ToSet(Materialise) THEN Materialise ELSE Finalise
    IN  calls[(CHOOSE i \in DOMAIN calls : calls[i] = pc) + 1]

Init ==
    /\ published \in Manifests \cup {None}
    /\ cr = Absent /\ phase = "none" /\ consented = {}
    /\ seen = Absent /\ fresh = {"seen"}
    /\ work = Idle /\ queued = FALSE /\ cache = {}
    /\ ns = "gone" /\ inside = {} /\ deploy = None /\ role = None /\ crb = FALSE
    /\ ghosts = {}
    /\ pod = NoPod /\ installed = FALSE
    /\ changes = 0 /\ faults = 0

(***************************************************************************)
(* Users of the cluster, and publishers of the catalogue.                  *)
(***************************************************************************)
Change == changes < MaxChanges /\ changes' = changes + 1

CreateInstallation(pin) ==
    /\ Change
    /\ cr.life = "absent"
    /\ cr' = [life |-> "live", fin |-> FALSE, pin |-> pin]
    /\ phase' = "none" /\ consented' = {pin} /\ fresh' = {}
    /\ UNCHANGED <<published, seen, reconciler, children, ghosts, plugin, faults>>

UpdateInstallation(pin) ==
    /\ Change
    /\ cr.life = "live" /\ cr.pin # pin
    /\ cr' = [cr EXCEPT !.pin = pin]
    /\ consented' = consented \cup {pin} /\ fresh' = {}
    /\ UNCHANGED <<published, phase, seen, reconciler, children, ghosts, plugin, faults>>

(* Without a finalizer the object goes at once. *)
DeleteInstallation ==
    /\ Change
    /\ cr.life = "live"
    /\ cr' = IF cr.fin THEN [cr EXCEPT !.life = "deleting"] ELSE Absent
    /\ fresh' = {}
    /\ UNCHANGED <<published, phase, consented, seen, reconciler, children, ghosts, plugin, faults>>

(***************************************************************************)
(* A different definition under a version that has one needs replace;      *)
(* racing publications lose on the unique index and change nothing.        *)
(***************************************************************************)
PutPluginDefinition(manifest, replace) ==
    /\ Change
    /\ manifest # published
    /\ published = None \/ replace
    /\ published' = manifest
    /\ UNCHANGED <<object, seen, fresh, reconciler, children, ghosts, plugin, faults>>

(***************************************************************************)
(* Kubernetes: informers deliver, a terminating namespace goes with what   *)
(* is in it, the kubelet starts the container of the Deployment again.     *)
(***************************************************************************)
DeliverInstallation ==
    /\ "seen" \notin fresh
    /\ seen' = cr /\ fresh' = fresh \cup {"seen"}
    /\ queued' = TRUE
    /\ UNCHANGED <<published, object, work, cache, children, ghosts, plugin, bounds>>

DeliverChild ==
    /\ \E child \in ghosts : ghosts' = ghosts \ {child}
    /\ UNCHANGED <<published, object, seen, fresh, reconciler, children, plugin, bounds>>

NamespaceGone ==
    /\ ns = "terminating"
    /\ ns' = "gone" /\ inside' = {} /\ deploy' = None /\ pod' = NoPod
    /\ ghosts' = ghosts \cup {"ns"} \cup inside
                        \cup (IF deploy = None THEN {} ELSE {"deploy"})
    /\ UNCHANGED <<published, object, seen, fresh, reconciler, role, crb, installed, bounds>>

StartContainer ==
    /\ deploy # None
    /\ \/ pod.state = "down"
       \/ pod.state = "none" /\ ns = "live" /\ "account" \in inside
    /\ pod' = [state |-> "starting", report |-> "installing"]
    /\ UNCHANGED <<published, object, seen, fresh, reconciler, children, ghosts, installed, bounds>>

(***************************************************************************)
(* The plugin.  Start installs the release unless "helm status" shows it,  *)
(* checks its CRDs and blocks; a failure ends the process.  Everything it  *)
(* does in the cluster needs the scope.                                    *)
(***************************************************************************)
Up == pod.state \in {"starting", "running"}
Scoped == role # None /\ crb

Start ==
    /\ pod.state = "starting"
    /\ IF Scoped
       THEN installed' = TRUE /\ pod' = [state |-> "running", report |-> "running"]
       ELSE pod' = Down /\ UNCHANGED installed
    /\ UNCHANGED <<published, object, seen, fresh, reconciler, children, ghosts, bounds>>

(* The ticker of runReconcileLoop: a no-op until Start made the client. *)
ReconcilePlugin ==
    /\ pod.state = "running"
    /\ pod' = [pod EXCEPT !.report = IF installed /\ Scoped THEN "running" ELSE "degraded"]
    /\ UNCHANGED <<published, object, seen, fresh, reconciler, children, ghosts, installed, bounds>>

(***************************************************************************)
(* The reconciler.  Its reads of the installation come from the informer.  *)
(* An error ends the pass and puts the name back in the queue.             *)
(***************************************************************************)
At(pc) == work.pc = pc
Proceed == work' = [work EXCEPT !.pc = Then(@)] /\ UNCHANGED queued
Return(requeue) == work' = Idle /\ queued' = (queued \/ requeue)
Fail == Return(TRUE)

ReconcileAbsent ==
    /\ seen.life # "live" /\ ~seen.fin
    /\ queued' = FALSE
    /\ UNCHANGED <<object, fresh, work>>

AddFinalizer ==
    /\ seen.life = "live" /\ ~seen.fin
    /\ IF "seen" \in fresh
       THEN cr' = [cr EXCEPT !.fin = TRUE] /\ fresh' = {} /\ queued' = FALSE
       ELSE queued' = TRUE /\ UNCHANGED <<cr, fresh>>
    /\ UNCHANGED <<phase, consented, work>>

Begin(pc) ==
    /\ seen.fin /\ seen.life = (IF pc = "fetch" THEN "live" ELSE "deleting")
    /\ work' = [Idle EXCEPT !.pc = pc, !.copy = seen]
    /\ fresh' = IF "seen" \in fresh THEN {"seen", "work"} ELSE {}
    /\ queued' = FALSE
    /\ UNCHANGED object

Reconcile ==
    /\ At("idle") /\ queued
    /\ ReconcileAbsent \/ AddFinalizer \/ Begin("fetch") \/ Begin("terminating")
    /\ UNCHANGED <<published, seen, cache, children, ghosts, plugin, bounds>>

Mut_NoComparison(pin) ==
    IF pin = Unpinned /\ ~AllowUnpinnedHash THEN None
    ELSE IF pin \in cache THEN pin ELSE published

(* What a pass fetches, or None: a pinned hash is served from the cache or *)
(* compared with what the catalogue has.                                   *)
Definition(pin) ==
    CASE pin = Unpinned -> IF AllowUnpinnedHash THEN published ELSE None
      [] pin \in cache -> pin
      [] OTHER -> IF published = pin THEN pin ELSE None

fetchDefinition ==
    /\ At("fetch")
    /\ LET def == Definition(work.copy.pin)
       IN  IF def = None
           THEN Fail /\ UNCHANGED cache
           ELSE /\ work' = [work EXCEPT !.pc = Then(@), !.def = def]
                /\ cache' = cache \cup ({work.copy.pin} \ {Unpinned})
                /\ UNCHANGED queued
    /\ UNCHANGED <<published, object, seen, fresh, children, ghosts, plugin, bounds>>

(***************************************************************************)
(* controllerutil.CreateOrUpdate of a child the informer still shows: it   *)
(* looks as wanted and is left alone, or its update finds nothing.         *)
(***************************************************************************)
Stale(child) == child \in ghosts /\ UNCHANGED children /\ (Proceed \/ Fail)

(* mutateDeployment and mutateService never equal what the server stored.  *)
Vanished(child) == child \in ghosts /\ UNCHANGED children /\ Fail

CreateOrUpdateNamespace ==
    /\ At("ns")
    /\ \/ Stale("ns")
       \/ /\ "ns" \notin ghosts
          /\ ns' = IF ns = "gone" THEN "live" ELSE ns
          /\ Proceed
          /\ UNCHANGED <<inside, deploy, role, crb>>
    /\ UNCHANGED <<published, object, seen, fresh, cache, ghosts, plugin, bounds>>

(* Nothing new is admitted to a namespace that is terminating or gone. *)
CreateInside(child) ==
    /\ child \notin ghosts
    /\ IF child \in inside \/ ns = "live"
       THEN inside' = inside \cup {child} /\ Proceed
       ELSE Fail /\ UNCHANGED inside
    /\ UNCHANGED <<ns, deploy, role, crb>>

CreateOrUpdateAccount ==
    /\ At("account")
    /\ Stale("account") \/ CreateInside("account")
    /\ UNCHANGED <<published, object, seen, fresh, cache, ghosts, plugin, bounds>>

CreateOrUpdateService ==
    /\ At("service")
    /\ Vanished("service") \/ CreateInside("service")
    /\ UNCHANGED <<published, object, seen, fresh, cache, ghosts, plugin, bounds>>

reconcilePluginScope ==
    /\ \/ At("role") /\ Stale("role")
       \/ At("crb") /\ Stale("crb")
       \/ /\ At("role") /\ "role" \notin ghosts
          /\ role' = work.def /\ Proceed
          /\ UNCHANGED <<ns, inside, deploy, crb>>
       \/ /\ At("crb") /\ "crb" \notin ghosts
          /\ crb' = TRUE /\ Proceed
          /\ UNCHANGED <<ns, inside, deploy, role>>
    /\ UNCHANGED <<published, object, seen, fresh, cache, ghosts, plugin, bounds>>

(* Another image replaces the pod. *)
CreateOrUpdateDeployment ==
    /\ At("deploy")
    /\ \/ Vanished("deploy") /\ UNCHANGED pod
       \/ /\ "deploy" \notin ghosts
          /\ IF deploy # None \/ ns = "live"
             THEN /\ deploy' = work.def /\ Proceed
                  /\ pod' = IF deploy \in {None, work.def} THEN pod ELSE NoPod
             ELSE Fail /\ UNCHANGED <<deploy, pod>>
          /\ UNCHANGED <<ns, inside, role, crb>>
    /\ UNCHANGED <<published, object, seen, fresh, cache, ghosts, installed, bounds>>

(* The Service routes to the pod from the moment its server is up. *)
Reachable == "service" \in inside /\ Up

mapPhase(report) ==
    CASE report = "installing" -> "deploying"
      [] report = "uninstalling" -> "terminating"
      [] OTHER -> report

poll ==
    /\ At("poll")
    /\ work' = [work EXCEPT !.pc = Then(@),
                            !.phase = IF Reachable THEN mapPhase(pod.report) ELSE "deploying"]
    /\ UNCHANGED <<published, object, seen, fresh, queued, cache, children, ghosts, plugin, bounds>>


(* Status().Update; a conflict is an error, and both ways the name returns. *)
UpdateStatus ==
    /\ At("status")
    /\ LET wrote == "work" \in fresh /\ phase # work.phase
       IN  /\ phase' = IF wrote THEN work.phase ELSE phase
           /\ fresh' = fresh \ ({"work"} \cup IF wrote THEN {"seen"} ELSE {})
    /\ Return(TRUE)
    /\ UNCHANGED <<published, cr, consented, seen, cache, children, ghosts, plugin, bounds>>

(***************************************************************************)
(* handleDeletion.  The error of the status update is dropped; an          *)
(* unreachable plugin is passed over; any other answer than success is     *)
(* retried with the whole deletion.                                        *)
(***************************************************************************)
ReportTerminating ==
    /\ At("terminating")
    /\ LET wrote == "work" \in fresh /\ phase # "terminating"
       IN  /\ phase' = IF wrote THEN "terminating" ELSE phase
           /\ fresh' = fresh \ (IF wrote THEN {"seen"} ELSE {})
    /\ Proceed
    /\ UNCHANGED <<published, cr, consented, seen, cache, children, ghosts, plugin, bounds>>

Mut_InsistOnPlugin ==
    /\ At("uninstall") /\ ~Reachable
    /\ Fail
    /\ UNCHANGED <<published, object, seen, fresh, cache, children, ghosts, plugin, bounds>>

PassOver ==
    /\ At("uninstall") /\ ~Reachable
    /\ Proceed
    /\ UNCHANGED <<published, object, seen, fresh, cache, children, ghosts, plugin, bounds>>

(* uninstallFn: a release that is not there, or that the plugin may not    *)
(* touch, is an error; after success the process ends.                     *)
RequestUninstall ==
    /\ At("uninstall") /\ Reachable
    /\ IF installed /\ Scoped
       THEN installed' = FALSE /\ pod' = Down /\ Proceed
       ELSE pod' = [pod EXCEPT !.report = "uninstalling"] /\ Fail /\ UNCHANGED installed
    /\ UNCHANGED <<published, object, seen, fresh, cache, children, ghosts, bounds>>

DeleteScopeBinding ==
    /\ At("delete crb")
    /\ crb' = FALSE /\ ghosts' = ghosts \cup (IF crb THEN {"crb"} ELSE {})
    /\ Proceed
    /\ UNCHANGED <<published, object, seen, fresh, cache, ns, inside, deploy, role, plugin, bounds>>

DeleteScopeRole ==
    /\ At("delete role")
    /\ role' = None /\ ghosts' = ghosts \cup (IF role # None THEN {"role"} ELSE {})
    /\ Proceed
    /\ UNCHANGED <<published, object, seen, fresh, cache, ns, inside, deploy, crb, plugin, bounds>>

DeleteNamespace ==
    /\ At("delete ns")
    /\ ns' = IF ns = "live" THEN "terminating" ELSE ns
    /\ Proceed
    /\ UNCHANGED <<published, object, seen, fresh, cache, inside, deploy, role, crb, ghosts, plugin, bounds>>

RemoveFinalizer ==
    /\ At("unfinalise")
    /\ IF "work" \in fresh
       THEN /\ cr' = Absent /\ phase' = "none" /\ consented' = {} /\ fresh' = {}
            /\ Return(FALSE)
       ELSE Fail /\ UNCHANGED <<object, fresh>>
    /\ UNCHANGED <<published, seen, cache, children, ghosts, plugin, bounds>>

handleDeletion ==
    \/ ReportTerminating \/ PassOver \/ RequestUninstall
    \/ DeleteScopeBinding \/ DeleteScopeRole \/ DeleteNamespace \/ RemoveFinalizer

reconcileChildren ==
    \/ fetchDefinition \/ CreateOrUpdateNamespace \/ CreateOrUpdateAccount
    \/ reconcilePluginScope \/ CreateOrUpdateDeployment \/ CreateOrUpdateService

Controller == Reconcile \/ reconcileChildren \/ poll \/ UpdateStatus \/ handleDeletion

(***************************************************************************)
(* What goes wrong: a call fails, the controller restarts with an empty    *)
(* cache and a new list, the plugin dies or its install fails, a child is  *)
(* deleted behind the controller's back, Helm is cut off in an uninstall.  *)
(***************************************************************************)
Fault == faults < MaxFaults /\ faults' = faults + 1

CallFails ==
    /\ Fault
    /\ ~At("idle") /\ Fail
    /\ UNCHANGED <<published, object, seen, fresh, cache, children, ghosts, plugin, changes>>

Restart ==
    /\ Fault
    /\ work' = Idle /\ queued' = TRUE /\ cache' = {}
    /\ seen' = cr /\ fresh' = {"seen"} /\ ghosts' = {}
    /\ UNCHANGED <<published, object, children, plugin, changes>>

PluginDies ==
    /\ Fault
    /\ Up /\ pod' = Down
    /\ UNCHANGED <<published, object, seen, fresh, reconciler, children, ghosts, installed, changes>>

Drift ==
    /\ Fault
    /\ \/ /\ role # None /\ role' = None /\ ghosts' = ghosts \cup {"role"}
          /\ UNCHANGED <<ns, inside, deploy, crb, pod>>
       \/ /\ crb /\ crb' = FALSE /\ ghosts' = ghosts \cup {"crb"}
          /\ UNCHANGED <<ns, inside, deploy, role, pod>>
       \/ /\ deploy # None /\ deploy' = None /\ ghosts' = ghosts \cup {"deploy"}
          /\ pod' = NoPod
          /\ UNCHANGED <<ns, inside, role, crb>>
    /\ UNCHANGED <<published, object, seen, fresh, reconciler, installed, changes>>

UninstallTorn ==
    /\ HelmTears /\ Fault
    /\ At("uninstall") /\ Reachable /\ installed /\ Scoped
    /\ installed' = FALSE /\ pod' = [pod EXCEPT !.report = "uninstalling"] /\ Fail
    /\ UNCHANGED <<published, object, seen, fresh, cache, children, ghosts, changes>>

Pins == Manifests \cup {Unpinned}

User ==
    \/ \E pin \in Pins : CreateInstallation(pin) \/ UpdateInstallation(pin)
    \/ DeleteInstallation
    \/ \E manifest \in Manifests, replace \in BOOLEAN : PutPluginDefinition(manifest, replace)

Kubernetes == DeliverInstallation \/ DeliverChild \/ NamespaceGone \/ StartContainer

Plugin == Start \/ ReconcilePlugin

Next ==
    \/ User \/ Kubernetes \/ Plugin \/ Controller
    \/ CallFails \/ Restart \/ PluginDies \/ Drift \/ UninstallTorn

(***************************************************************************)
(* The workqueue, the informers, Kubernetes and the plugin go on.          *)
(***************************************************************************)
Fairness ==
    /\ WF_vars(Controller)
    /\ WF_vars(DeliverInstallation) /\ WF_vars(DeliverChild)
    /\ WF_vars(NamespaceGone) /\ WF_vars(StartContainer)
    /\ WF_vars(Start) /\ WF_vars(ReconcilePlugin)

Spec == Init /\ [][Next]_vars /\ Fairness

(***************************************************************************)
(* Properties                                                              *)
(***************************************************************************)

(* Whatever is republished, cached, retried or read stale, the plugin's    *)
(* scope and the image it runs come from a definition whose hash the       *)
(* present installation pinned, and from none when it pinned none          *)
(* (fetchDefinition, the definitionCache, the finalizer).                  *)
Consented ==
    /\ role # None => role \in consented
    /\ deploy # None /\ ns = "live" => deploy \in consented

(* When the installation is gone its scope is gone and its namespace is    *)
(* going, at whatever point passes failed, conflicted or were cut off      *)
(* (handleDeletion behind the finalizer).                                  *)
NoOrphans ==
    cr.life = "absent" => role = None /\ ~crb /\ ns # "live"

(* The only thing that can hold a deletion up for good is a plugin still   *)
(* deployed that lost its scope, or that keeps running after its release   *)
(* went: it answers every request with an error.  A plugin never installed, *)
(* unreachable, or restarted after its own uninstall does not              *)
(* (requestPluginUninstall and the retry of handleDeletion).               *)
Blocking == deploy # None /\ (Scoped => pod.state = "running" /\ ~installed)

OnlyPluginBlocksDeletion == <>[](cr.life = "deleting") => <>[]Blocking

(* "CR deleted -> Finalizer triggers: ... Remove finalizer -> CR garbage   *)
(* collected" (docs/developer/plugins/index.md): a deleted installation    *)
(* goes.                                                                   *)
DeletionCompletes == []<>(cr.life # "deleting")

(* An installation that stays, pinned to the definition the catalogue has, *)
(* ends with all its children made from it, the product installed and the  *)
(* status saying so, also when an earlier one of its name is still being   *)
(* torn down, a child is deleted or the informers lag (the level-triggered *)
(* pass of Reconcile).                                                     *)
Wanted == cr.life = "live" /\ cr.pin \in Manifests /\ cr.pin = published

Complete ==
    /\ ns = "live" /\ inside = {"account", "service"}
    /\ role = cr.pin /\ crb /\ deploy = cr.pin
    /\ pod.state = "running" /\ installed /\ phase = "running"


(* The reason handleDeletion asks the plugin before it tears down: nothing *)
(* of the product remains once the installation and its namespace are gone. *)
ProductRemoved == []<>~(cr.life = "absent" /\ ns = "gone" /\ installed)

(* "(PluginName, PluginVersion) resolves to exactly one DefinitionHash     *)
(* forever, so the pin is itself the consent record" (DefinitionRef): an   *)
(* installation pinned to what the catalogue had at the time comes about.  *)
PinnedConverges ==
    \A m \in Manifests :
        <>[](cr.life = "live" /\ cr.pin = m) /\ <>(cr.pin = m /\ published = m) => <>[]Complete

=============================================================================
