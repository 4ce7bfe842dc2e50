--------------------------- MODULE MCCredentials ---------------------------
(***************************************************************************)
(* The two caches of credentials for shoots, TokenCache of the             *)
(* kube-api-proxy and KubeconfigCache of the plugin-proxy, for TLC.  They  *)
(* run in different processes and share nothing, so a behaviour is one of  *)
(* the one or of the other.                                                *)
(***************************************************************************)
EXTENDS TokenCache, TLC

CONSTANTS r1, r2, FetchTimeout

VARIABLES proxy, kEntry, kFlight, kPc, got, refreshing, refreshers, kFaults

K == INSTANCE KubeconfigCache
        WITH Callers <- Requests, entry <- kEntry, flight <- kFlight, pc <- kPc, faults <- kFaults

MCInit == proxy \in {"kube-api-proxy", "plugin-proxy"} /\ Init /\ K!Init

MCNext ==
    /\ UNCHANGED proxy
    /\ \/ proxy = "kube-api-proxy" /\ Next /\ UNCHANGED <<kEntry, kFlight, kPc, got, refreshing, refreshers, kFaults>>
       \/ proxy = "plugin-proxy" /\ K!Next /\ UNCHANGED vars

MCSpec == MCInit /\ [][MCNext]_<<vars, proxy, K!vars>> /\ Fairness /\ K!Fairness

\* A request that finds no credentials is answered or fails: it does not wait on a
\* fetch that has ended without it, nor, in the plugin-proxy, for a Gardener that never
\* answers, as fetchTimeout bounds the shared fetch (fetchAndCache of both caches).  A
\* refresh of the plugin-proxy that has started ends, and another one can start then
\* (refresh).
EveryoneIsAnswered == WaitingEnds /\ K!WaitingEnds /\ K!RefreshEnds

\* "AccessFor returns a valid ShootAccess": no caller gets an expired kubeconfig,
\* neither from the cache nor from a fetch, however late a refresh is.
AccessIsValid == K!ServedIsValid

\* "At most one refresh goroutine per cluster", however many requests find the entry
\* due while Gardener does not answer (AccessFor).
OneRefresher == K!OneRefresher
=============================================================================
