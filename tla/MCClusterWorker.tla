-------------------------- MODULE MCClusterWorker --------------------------
(***************************************************************************)
(* The cluster worker for TLC where only safety is asked: a behaviour is   *)
(* one of ClusterOutbox with several replicas, or one of ClusterLifecycle  *)
(* with one, of which only the lifecycle looks into the handlers.          *)
(***************************************************************************)
EXTENDS ClusterOutbox, TLC

CONSTANTS Replicas, MaxRows, MaxChanges

VARIABLES scope, cluster, waiting, kind, queue, past, owner, project, shoot, sync, poll, recon,
          failures, drifts, lost

L == INSTANCE ClusterLifecycle
        WITH MaxPreconditionDeferrals <- 0, MaxFaults <- 0, rows <- waiting, faults <- failures

life == <<cluster, waiting, kind, queue, past, owner, project, shoot, sync, poll, recon, failures,
          drifts, lost>>

\* A cluster-ready row and a row no handler is registered for.
FanOutAndUnrouted == (1 :> 2) @@ (2 :> 0)

MCInit == scope \in {"outbox", "lifecycle"} /\ Init /\ L!Init

MCNext ==
    /\ UNCHANGED scope
    /\ \/ scope = "outbox" /\ Next /\ UNCHANGED life
       \/ scope = "lifecycle" /\ L!Next /\ UNCHANGED vars

MCSpec == MCInit /\ [][MCNext]_<<scope, vars, life>>

\* No update is lost: once every row is completed, the shoot of an active cluster has
\* the version and node pools the API stored, however changes and retries fell between
\* what syncCluster reads and what it applies.
CompletedIsApplied == L!CompletedIsApplied

\* No shoot comes back: once every row is completed, a deleted cluster has no live shoot
\* (the delete path of syncCluster).
CompletedIsDeleted == L!CompletedIsDeleted
=============================================================================
