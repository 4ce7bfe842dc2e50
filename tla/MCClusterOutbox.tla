-------------------------- MODULE MCClusterOutbox --------------------------
(* Small instances of ClusterOutbox for TLC. *)
EXTENDS ClusterOutbox, TLC

\* A cluster-ready row (usersync and namespace-sync), a row with the default
\* handler, and one no handler is registered for.
FanOutPlainAndUnrouted == (1 :> 2) @@ (2 :> 1) @@ (3 :> 0)

\* One row with the default handler.
Plain == (1 :> 1)
=============================================================================
