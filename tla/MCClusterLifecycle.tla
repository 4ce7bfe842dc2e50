------------------------- MODULE MCClusterLifecycle -------------------------
(***************************************************************************)
(* ClusterLifecycle for TLC where liveness is asked: the cluster is        *)
(* changed, or it may be deleted and something may fail.  Changes that     *)
(* meet a deletion are in MCClusterWorker.                                 *)
(***************************************************************************)
EXTENDS ClusterLifecycle

Changes(c) == c.version + c.pools

MCNext ==
    /\ Next
    /\ Changes(cluster') > 0 => cluster'.state = "active" /\ faults' + drifts' = 0

MCSpec == Init /\ [][MCNext]_vars /\ Fairness
=============================================================================
