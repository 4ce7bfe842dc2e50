--------------------------- MODULE FSCInstallation ---------------------------
(***************************************************************************)
(* The openfsc-operator: the FSCInstallations of one namespace, of which   *)
(* the oldest owns it, and what the operator installs there for the owner. *)
(* That is a database and certificates (core resources), the Helm release  *)
(* of the OpenFSC core, and for each declared gateway a Helm release with  *)
(* its certificates.                                                       *)
(*                                                                         *)
(* One step is one call.  The operator reads installations from an         *)
(* informer, so its view (seen) is that of an earlier moment, and updates  *)
(* of a copy that is not the current version conflict.  Leader election    *)
(* and one worker make the passes follow each other.  Helm, cert-manager   *)
(* and the workloads are external.                                         *)
(***************************************************************************)
EXTENDS Naturals

CONSTANTS
    Names,      \* names of installations, as numbers: ties in age go by name
    Gateways,   \* names of inways and outways
    Core,       \* the umbrella release
    Specs,      \* specifications: which gateways, and the directory mode
    None,
    Ties,       \* two installations may be created within one second
    MaxVersion, \* bound: versions of the vendored charts
    MaxChanges, \* bound: changes made by users
    MaxEvents   \* bound: failed calls, restarts, and changes behind the operator's back

VARIABLES
    obj,       \* the installations in the API server
    seen,      \* the informer's copies of them
    current,   \* the names seen as they are, and Copy if the pass has its installation as it is
    work,      \* the pass under way
    releases,  \* the Helm releases
    certs,     \* the gateways that have their certificates
    database,  \* the CloudNativePG cluster
    groupCA,   \* the group CA and the Manager's certificate
    up,        \* releases whose workloads are available and registered
    staleClient, \* the cached client of the Controller has a certificate of before a renewal
    prereqs,   \* cert-manager and CloudNativePG, and the Secrets a spec refers to
    version,   \* charts.Version of the running operator
    changes, events

operator == <<work, staleClient>>
installed == <<releases, certs, database, groupCA, up>>
vars == <<obj, seen, current, operator, installed, prereqs, version, changes, events>>

\* Stands for the copy of the pass in current.
Copy == 0

NoStatus == [core |-> 0, observed |-> 0, phase |-> "none"]

Gone == [life |-> "absent", fin |-> FALSE, gen |-> 0, created |-> 0, spec |-> None, status |-> NoStatus]

Idle == [pc |-> "idle", name |-> 0, copy |-> Gone, todo |-> {}, gateway |-> None, ready |-> FALSE]

Init ==
    /\ obj = [n \in Names |-> Gone]
    /\ seen = obj
    /\ current = Names
    /\ work = Idle
    /\ releases = [r \in Gateways \cup {Core} |-> None]
    /\ certs = {}
    /\ database = FALSE
    /\ groupCA = FALSE
    /\ up = {}
    /\ staleClient = FALSE
    /\ prereqs \in {"missing", "present"}
    /\ version = 1
    /\ changes = 0
    /\ events = 0

-----------------------------------------------------------------------------
(* The API server and its users. *)

\* A write to an installation outdates the copies of it.
Write(n, o) ==
    /\ obj' = [obj EXCEPT ![n] = o]
    /\ current' = current \ ({n} \cup (IF work.name = n THEN {Copy} ELSE {}))

Change ==
    /\ changes < MaxChanges
    /\ changes' = changes + 1
    /\ UNCHANGED <<seen, operator, installed, prereqs, version, events>>

Newest == CHOOSE t \in {0} \cup {obj[n].created : n \in Names} :
              \A n \in Names : obj[n].created <= t

Create(n, s) ==
    /\ Change
    /\ obj[n].life = "absent"
    /\ \E t \in {Newest + 1} \cup (IF Ties /\ Newest > 0 THEN {Newest} ELSE {}) :
           Write(n, [Gone EXCEPT !.life = "live", !.gen = 1, !.created = t, !.spec = s])

UpdateSpec(n, s) ==
    /\ Change
    /\ obj[n].life = "live" /\ obj[n].spec # s
    /\ Write(n, [obj[n] EXCEPT !.gen = @ + 1, !.spec = s])

Delete(n) ==
    /\ Change
    /\ obj[n].life = "live"
    /\ Write(n, IF obj[n].fin THEN [obj[n] EXCEPT !.life = "deleting"] ELSE Gone)

Deliver ==
    /\ Names \ current # {}
    /\ seen' = obj
    /\ current' = current \cup Names
    /\ UNCHANGED <<obj, operator, installed, prereqs, version, changes, events>>

-----------------------------------------------------------------------------
(* The course of a pass. *)

At(pc) == work.pc = pc

Name == work.name

Wanted == work.copy.spec

Go(pc) == work' = [work EXCEPT !.pc = pc]

\* The result: the error or the phase is put in the status, which is updated if it differs.
Result(status) ==
    work' = [Idle EXCEPT !.pc = "status", !.name = Name, !.copy = [work.copy EXCEPT !.status = status]]

Report(phase) == Result([work.copy.status EXCEPT !.phase = phase])

\* Unless the installation has gone a pass is followed by another one: after an error,
\* after some time, or for an event.
Return == work' = Idle

olderSibling(n) ==
    \E m \in Names \ {n} :
        /\ seen[m].life # "absent"
        /\ \/ seen[m].created < seen[n].created
           \/ seen[m].created = seen[n].created /\ m < n

\* Mutant: no finalizer is put on before provisioning.
Mut_WithoutFinalizer(n) ==
    CASE seen[n].life = "deleting" -> IF olderSibling(n) THEN "unfinalise" ELSE "teardown"
      [] OTHER -> IF olderSibling(n) THEN "status" ELSE "core"

\* Only the owner provisions, and only behind a finalizer; only the owner tears down.
FirstCall(n) ==
    CASE seen[n].life = "deleting" /\ olderSibling(n) -> "unfinalise"
      [] seen[n].life = "deleting" /\ ~olderSibling(n) -> "teardown"
      [] seen[n].life = "live" /\ olderSibling(n) -> "status"
      [] seen[n].life = "live" /\ ~olderSibling(n) /\ ~seen[n].fin -> "finalise"
      [] OTHER -> "core"

Reconcile(n) ==
    /\ At("idle") /\ seen[n].life # "absent"
    /\ work' = [Idle EXCEPT
           !.pc = FirstCall(n), !.name = n,
           !.copy = IF FirstCall(n) = "status" THEN [seen[n] EXCEPT !.status.phase = "Error"] ELSE seen[n]]
    /\ current' = current \cup (IF n \in current THEN {Copy} ELSE {})
    /\ UNCHANGED <<obj, seen, staleClient, installed, prereqs, version, changes, events>>

AddFinalizer ==
    /\ At("finalise")
    /\ \/ /\ Copy \in current
          /\ obj' = [obj EXCEPT ![Name].fin = TRUE]
          /\ current' = current \ {Name, Copy}
          /\ Return
       \/ Copy \notin current /\ Report("Error") /\ UNCHANGED <<obj, current>>
    /\ UNCHANGED <<seen, staleClient, installed, prereqs, version, changes, events>>

UpdateStatus ==
    /\ At("status")
    /\ Return
    /\ \/ /\ Copy \in current /\ work.copy.status # obj[Name].status
          /\ obj' = [obj EXCEPT ![Name].status = work.copy.status]
          /\ current' = current \ {Name, Copy}
       \/ /\ Copy \notin current \/ work.copy.status = obj[Name].status
          /\ current' = current \ {Copy} /\ UNCHANGED obj
    /\ UNCHANGED <<seen, staleClient, installed, prereqs, version, changes, events>>

-----------------------------------------------------------------------------
(* reconcile: the core. *)

DeployedChartVersion(r) == IF releases[r] = None THEN 0 ELSE releases[r].version

\* Mutant: the version of the deployed chart is not looked at.
Mut_CoreOnceDeployed == work.copy.status.core = work.copy.gen

CoreDeployed == work.copy.status.core = work.copy.gen /\ DeployedChartVersion(Core) = version

\* Of the CRDs and, with an external directory, of the Secrets (missingSecrets).
missingPrereqs == prereqs # "present"

ensureCore ==
    /\ At("core")
    /\ \/ missingPrereqs /\ Report("Pending")
       \/ /\ ~missingPrereqs
          /\ Go(IF CoreDeployed THEN "observe" ELSE "core resources")
    /\ UNCHANGED <<obj, seen, current, staleClient, installed, prereqs, version, changes, events>>

\* Without the CRDs there is no such resource.
applyCoreResources ==
    /\ At("core resources")
    /\ \/ /\ prereqs = "present"
          /\ database' = TRUE
          /\ groupCA' = (groupCA \/ Wanted.mode = "Self")
          /\ Go("core release")
       \/ prereqs # "present" /\ Report("Error") /\ UNCHANGED <<database, groupCA>>
    /\ UNCHANGED <<obj, seen, current, staleClient, releases, certs, up, prereqs, version, changes, events>>

\* The workloads of an upgraded release are rolled.
UpgradeInstall(r) ==
    /\ releases' = [releases EXCEPT ![r] = [spec |-> Wanted, version |-> version, torn |-> FALSE]]
    /\ up' = up \ {r}

InstallCore ==
    /\ At("core release")
    /\ UpgradeInstall(Core)
    /\ staleClient' = FALSE
    /\ work' = [work EXCEPT !.pc = "observe", !.copy.status.core = work.copy.gen]
    /\ UNCHANGED <<obj, seen, current, certs, database, groupCA, prereqs, version, changes, events>>

deploymentsReady == Core \in up

\* With managerCertReady, to which a missing CRD is an error if the API client has noticed.
\* With a client certificate of before a renewal the Controller refuses, and the client is
\* rebuilt next time.
observeRegistrations ==
    /\ At("observe")
    /\ \/ /\ ~(deploymentsReady /\ staleClient)
          /\ work' = [work EXCEPT !.pc = "gateways", !.todo = Wanted.gateways,
                                  !.ready = Wanted.gateways \cup {Core} \subseteq up]
          /\ UNCHANGED staleClient
       \/ /\ deploymentsReady /\ staleClient
          /\ staleClient' = FALSE
          /\ Report("Error")
       \/ Wanted.mode = "Self" /\ prereqs = "removed" /\ Report("Error") /\ UNCHANGED staleClient
    /\ UNCHANGED <<obj, seen, current, installed, prereqs, version, changes, events>>

-----------------------------------------------------------------------------
(* reconcile: the gateways. *)

\* Mutant: a new generation is not taken for outdated.
Mut_OutdatedByVersion(g) == DeployedChartVersion(g) # version

Outdated(g) ==
    DeployedChartVersion(g) # version \/ work.copy.gen # work.copy.status.observed

ensureGatewayCerts(g) == certs' = certs \cup {g}

\* A gateway is active when its certificates are issued and it was registered.
provisionGateway ==
    /\ At("gateways")
    /\ \E g \in work.todo :
        \/ /\ prereqs = "present"
           /\ ensureGatewayCerts(g)
           /\ work' = [work EXCEPT
                  !.pc = IF Outdated(g) THEN "gateway release" ELSE "gateways",
                  !.gateway = IF Outdated(g) THEN g ELSE None,
                  !.todo = @ \ {g},
                  !.ready = @ /\ g \in certs]
        \/ prereqs # "present" /\ Report("Error") /\ UNCHANGED certs
    /\ UNCHANGED <<obj, seen, current, staleClient, releases, database, groupCA, up, prereqs, version, changes, events>>

InstallGateway ==
    /\ At("gateway release")
    /\ UpgradeInstall(work.gateway)
    /\ work' = [work EXCEPT !.pc = "gateways", !.gateway = None]
    /\ UNCHANGED <<obj, seen, current, staleClient, certs, database, groupCA, prereqs, version, changes, events>>

Uninstall(r) ==
    /\ releases' = [releases EXCEPT ![r] = None]
    /\ up' = up \ {r}

Orphans == {g \in Gateways \ Wanted.gateways : releases[g] # None}

sweepOrphanGateways ==
    /\ At("gateways") /\ work.todo = {}
    /\ \E g \in Orphans :
        /\ Uninstall(g)
        /\ work' = [work EXCEPT !.pc = "sweep certificates", !.gateway = g]
    /\ UNCHANGED <<obj, seen, current, staleClient, certs, database, groupCA, prereqs, version, changes, events>>

\* Missing certificates are no error; a missing CRD is, if the API client has noticed.
deleteGatewayCerts ==
    /\ At("sweep certificates") \/ At("teardown certificates")
    /\ \/ /\ certs' = certs \ {work.gateway}
          /\ work' = [work EXCEPT !.pc = IF At("sweep certificates") THEN "gateways" ELSE "teardown",
                                  !.gateway = None]
       \/ prereqs = "removed" /\ Report("Error") /\ UNCHANGED certs
    /\ UNCHANGED <<obj, seen, current, staleClient, releases, database, groupCA, up, prereqs, version, changes, events>>

\* The generation counts as observed only when all of it is applied.
Applied ==
    /\ At("gateways") /\ work.todo = {} /\ Orphans = {}
    /\ Result([work.copy.status EXCEPT !.observed = work.copy.gen,
                                       !.phase = IF work.ready THEN "Active" ELSE "Pending"])
    /\ UNCHANGED <<obj, seen, current, staleClient, installed, prereqs, version, changes, events>>

-----------------------------------------------------------------------------
(* teardown *)

teardown ==
    /\ At("teardown")
    /\ \/ \E g \in Gateways :
              /\ releases[g] # None
              /\ Uninstall(g)
              /\ work' = [work EXCEPT !.pc = "teardown certificates", !.gateway = g]
       \/ /\ \A g \in Gateways : releases[g] = None
          /\ Uninstall(Core)
          /\ work' = [work EXCEPT !.pc = "delete core resources"]
    /\ UNCHANGED <<obj, seen, current, staleClient, certs, database, groupCA, prereqs, version, changes, events>>

\* What the specification asks for now, which need not be all that was applied.
deleteCoreResources ==
    /\ At("delete core resources")
    /\ database' = FALSE
    /\ groupCA' = (groupCA /\ Wanted.mode # "Self")
    /\ staleClient' = FALSE
    /\ Go("unfinalise")
    /\ UNCHANGED <<obj, seen, current, releases, certs, up, prereqs, version, changes, events>>

RemoveFinalizer ==
    /\ At("unfinalise")
    /\ \/ /\ Copy \in current
          /\ obj' = [obj EXCEPT ![Name] = Gone]
          /\ current' = current \ {Name, Copy}
       \/ Copy \notin current /\ UNCHANGED <<obj, current>>
    /\ Return
    /\ UNCHANGED <<seen, staleClient, installed, prereqs, version, changes, events>>

-----------------------------------------------------------------------------
(* Failures, and what happens beside the operator. *)

Event ==
    /\ events < MaxEvents
    /\ events' = events + 1
    /\ UNCHANGED <<obj, changes>>

CallFails ==
    /\ Event
    /\ ~At("idle")
    /\ \/ /\ work.pc \in {"status", "unfinalise"}
          /\ Return /\ current' = current \ {Copy}
       \/ /\ work.pc \notin {"status", "unfinalise"}
          /\ Report("Error") /\ UNCHANGED current
    /\ staleClient' = (staleClient /\ ~At("observe"))
    /\ UNCHANGED <<seen, installed, prereqs, version>>

\* A failed install may leave a release of the new version behind.
InstallTears ==
    /\ Event
    /\ \E r \in Gateways \cup {Core} :
        /\ (r = Core /\ At("core release")) \/ (r = work.gateway /\ At("gateway release"))
        /\ releases' = [releases EXCEPT ![r] = [spec |-> Wanted, version |-> version, torn |-> TRUE]]
        /\ up' = up \ {r}
    /\ Report("Error")
    /\ UNCHANGED <<seen, current, staleClient, certs, database, groupCA, prereqs, version>>

\* The operator restarts or another replica takes over, perhaps with newer charts.
Restart ==
    /\ Event
    /\ work' = Idle /\ staleClient' = FALSE
    /\ seen' = obj /\ current' = Names
    /\ version' \in version..MaxVersion
    /\ UNCHANGED <<installed, prereqs>>

UninstalledByHand(r) ==
    /\ Event
    /\ releases[r] # None
    /\ Uninstall(r)
    /\ UNCHANGED <<seen, current, operator, certs, database, groupCA, prereqs, version>>

CertificateRenewed ==
    /\ Event
    /\ releases[Core] # None /\ ~staleClient /\ staleClient' = TRUE
    /\ UNCHANGED <<seen, current, work, installed, prereqs, version>>

\* With the CRDs go the resources.
PrereqsRemoved ==
    /\ Event
    /\ prereqs = "present" /\ prereqs' = "removed"
    /\ certs' = {} /\ database' = FALSE /\ groupCA' = FALSE
    /\ UNCHANGED <<seen, current, operator, releases, up, version>>

PrereqsInstalled ==
    /\ prereqs = "missing" /\ prereqs' = "present"
    /\ UNCHANGED <<obj, seen, current, operator, installed, version, changes, events>>

\* The workloads of a release become available, and those of a gateway register once
\* cert-manager has issued its certificates.
ComeUp(r) ==
    /\ r \notin up /\ releases[r] # None
    /\ ~releases[r].torn
    /\ r = Core => database /\ (releases[r].spec.mode = "Self" => groupCA)
    /\ r # Core => Core \in up /\ r \in certs
    /\ up' = up \cup {r}
    /\ UNCHANGED <<obj, seen, current, operator, releases, certs, database, groupCA, prereqs, version, changes, events>>

-----------------------------------------------------------------------------
Step ==
    \/ AddFinalizer \/ UpdateStatus
    \/ ensureCore \/ applyCoreResources \/ InstallCore \/ observeRegistrations
    \/ provisionGateway \/ InstallGateway \/ sweepOrphanGateways \/ deleteGatewayCerts \/ Applied
    \/ teardown \/ deleteCoreResources \/ RemoveFinalizer

Next ==
    \/ \E n \in Names, s \in Specs : Create(n, s) \/ UpdateSpec(n, s)
    \/ \E n \in Names : Delete(n) \/ Reconcile(n)
    \/ Deliver \/ Step
    \/ CallFails \/ InstallTears \/ Restart \/ CertificateRenewed
    \/ PrereqsRemoved \/ PrereqsInstalled
    \/ \E r \in Gateways \cup {Core} : UninstalledByHand(r) \/ ComeUp(r)

(***************************************************************************)
(* The workqueue hands out its names in turn, so a waiting name gets its   *)
(* pass although others come before it (strong fairness); informer, calls, *)
(* cert-manager and workloads get on.  Users need not do anything.         *)
(***************************************************************************)
Fairness ==
    /\ \A n \in Names : SF_vars(Reconcile(n))
    /\ WF_vars(Step) /\ WF_vars(Deliver)
    /\ \A r \in Gateways \cup {Core} : WF_vars(ComeUp(r))

Spec == Init /\ [][Next]_vars /\ Fairness

-----------------------------------------------------------------------------
NoneLeft == \A n \in Names : obj[n].life = "absent"

\* "deleting the resource tears down everything the operator provisioned" (README.md),
\* for the workloads and the database: when the last installation is gone so are they,
\* whatever failed, restarted or changed on the way (teardown, RemoveFinalizer).
TornDown == NoneLeft => ~database /\ \A r \in Gateways \cup {Core} : releases[r] = None

\* "... everything the operator provisioned": the certificates of gateways too.  They are
\* looked for by the release, which goes first.
CertificatesTornDown == NoneLeft => certs = {}

\* "... everything the operator provisioned": the group CA too.  It is looked for by the
\* mode of the specification, which may have changed.
CATornDown == NoneLeft => ~groupCA

\* An installation that reports Active for its generation is what is installed: no
\* release is of another specification, and none of a gateway it does not declare
\* (ObservedGeneration and the CoreDeployed condition of reconcile).
ActiveIsApplied ==
    \A n \in Names :
        obj[n].life = "live" /\ obj[n].status.phase = "Active" /\ obj[n].status.observed = obj[n].gen
        => \A r \in Gateways \cup {Core} : releases[r] # None =>
               releases[r].spec = obj[n].spec /\ r \in obj[n].spec.gateways \cup {Core}

Owner(n) ==
    /\ obj[n].life = "live"
    /\ \A m \in Names : obj[m].life = "absent" \/ obj[n].created < obj[m].created
                        \/ (obj[n].created = obj[m].created /\ n <= m)

Complete(n) ==
    /\ obj[n].life = "live"
    /\ up = obj[n].spec.gateways \cup {Core}
    /\ \A r \in Gateways \cup {Core} :
           releases[r] = IF r \in up THEN [spec |-> obj[n].spec, version |-> version, torn |-> FALSE] ELSE None
    /\ obj[n].status.phase = "Active" /\ obj[n].status.observed = obj[n].gen

Torn == \E r \in Gateways \cup {Core} : releases[r] # None /\ releases[r].torn

\* The oldest installation of the namespace comes about as specified, with the charts of
\* the running operator, and reports Active, once its prerequisites are there and unless
\* an install that failed half-way is left at that; one that is deleted goes, also when
\* the prerequisites have gone before (reconcile, teardown).
Converges ==
    \A n \in Names :
        /\ <>[](Owner(n) /\ prereqs = "present" /\ ~Torn) => <>[]Complete(n)
        /\ []<>(obj[n].life # "deleting")

\* "The release is (re)installed when missing, when the spec changed, or when the vendored
\* chart version moved" (provisionGateway): the same, whatever failed on the way.
AlwaysConverges ==
    \A n \in Names : <>[](Owner(n) /\ prereqs = "present") => <>[]Complete(n)
=============================================================================
