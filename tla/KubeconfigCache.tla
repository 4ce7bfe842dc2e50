--------------------------- MODULE KubeconfigCache ---------------------------
(***************************************************************************)
(* common/gardener AdminKubeconfigCache: what it takes to reach a shoot,   *)
(* cached per cluster.  Clusters do not interact, so there is one.  Times  *)
(* are relative: an entry has an age.  ttlcache finds an entry until its   *)
(* TTL has passed since it was set (reads do not touch it here), for ever  *)
(* if the TTL is not positive; singleflight lets calls for a cluster that  *)
(* is being fetched share the fetch.                                       *)
(***************************************************************************)
EXTENDS Naturals

CONSTANTS
    Callers,      \* requests that need access, each of which may come again
    Lifetime,     \* the longest an admin kubeconfig is good for
    FetchTimeout, \* fetchTimeout
    MaxFaults     \* bound on failed fetches

VARIABLES
    entry,      \* the cached access
    flight,     \* the fetch that singleflight runs
    pc,         \* where each caller is
    got,        \* what each caller got last
    refreshing, \* the cluster is in the refreshing map
    refreshers, \* the number of refresh goroutines, by where they are
    faults      \* failed fetches so far

vars == <<entry, flight, pc, got, refreshing, refreshers, faults>>

NoEntry == [cached |-> FALSE, ttl |-> 0, age |-> 0]

NoFlight == [state |-> "none", age |-> 0, left |-> 0]

TypeOK ==
    /\ entry \in [cached : BOOLEAN, ttl : 0 .. Lifetime, age : 0 .. (Lifetime + 1)]
    /\ flight \in [state : {"none", "called", "issued"}, age : 0 .. FetchTimeout, left : 0 .. Lifetime]
    /\ pc \in [Callers -> {"idle", "missed", "waiting"}]
    /\ got \in [Callers -> {"nothing", "valid", "expired", "error"}]
    /\ refreshing \in BOOLEAN
    /\ refreshers \in [{"starting", "waiting", "done"} -> Nat]
    /\ faults \in 0 .. MaxFaults

Init ==
    /\ entry = NoEntry
    /\ flight = NoFlight
    /\ pc = [c \in Callers |-> "idle"]
    /\ got = [c \in Callers |-> "nothing"]
    /\ refreshing = FALSE
    /\ refreshers = [p \in {"starting", "waiting", "done"} |-> 0]
    /\ faults = 0

-----------------------------------------------------------------------------
Live == entry.cached /\ (entry.ttl = 0 \/ entry.age <= entry.ttl)

Access == IF entry.age <= entry.ttl THEN "valid" ELSE "expired"

\* refreshAt, accessRefreshRatio of the TTL, has passed.
RefreshDue == 10 * entry.age > 7 * entry.ttl

\* Mutant: every request starts a refresh while one is due.
Mut_RefreshUnguarded ==
    /\ refreshing' = (refreshing \/ RefreshDue)
    /\ refreshers' = [refreshers EXCEPT !.starting = IF RefreshDue THEN @ + 1 ELSE @]

\* "At most one refresh goroutine per cluster": refreshing.LoadOrStore.
MaybeRefresh ==
    IF RefreshDue /\ ~refreshing
    THEN /\ refreshing' = TRUE
         /\ refreshers' = [refreshers EXCEPT !.starting = @ + 1]
    ELSE UNCHANGED <<refreshing, refreshers>>

\* AccessFor finds an entry: it is returned, and refreshed on the side.
Hit(c) ==
    /\ pc[c] = "idle"
    /\ Live
    /\ got' = [got EXCEPT ![c] = Access]
    /\ MaybeRefresh
    /\ UNCHANGED <<entry, flight, pc, faults>>

\* AccessFor finds none.
Miss(c) ==
    /\ pc[c] = "idle"
    /\ ~Live
    /\ pc' = [pc EXCEPT ![c] = "missed"]
    /\ UNCHANGED <<entry, flight, got, refreshing, refreshers, faults>>

\* group.DoChan: join the fetch under way, or start one.
DoChan == flight' = IF flight.state = "none" THEN [NoFlight EXCEPT !.state = "called"] ELSE flight

\* fetchAndCache, for a caller.
FetchAndCache(c) ==
    /\ pc[c] = "missed"
    /\ pc' = [pc EXCEPT ![c] = "waiting"]
    /\ DoChan
    /\ UNCHANGED <<entry, got, refreshing, refreshers, faults>>

\* refresh, in the background.
Refresh ==
    /\ refreshers["starting"] > 0
    /\ refreshers' = [refreshers EXCEPT !.starting = @ - 1, !.waiting = @ + 1]
    /\ DoChan
    /\ UNCHANGED <<entry, pc, got, refreshing, faults>>

\* The goroutine ends with its deferred refreshing.Delete.
RefreshReturns ==
    /\ refreshers["done"] > 0
    /\ refreshers' = [refreshers EXCEPT !.done = @ - 1]
    /\ refreshing' = FALSE
    /\ UNCHANGED <<entry, flight, pc, got, faults>>

\* Gardener grants a kubeconfig; by our clock it may be over at once.
AdminKubeconfigForShoot ==
    /\ flight.state = "called"
    /\ \E left \in 0 .. Lifetime : flight' = [flight EXCEPT !.state = "issued", !.left = left]
    /\ UNCHANGED <<entry, pc, got, refreshing, refreshers, faults>>

\* The fetch has ended: callers get the answer, refresh goroutines return.
Ended(answer) ==
    /\ flight' = NoFlight
    /\ pc' = [c \in Callers |-> IF pc[c] = "waiting" THEN "idle" ELSE pc[c]]
    /\ got' = [c \in Callers |-> IF pc[c] = "waiting" THEN answer ELSE got[c]]
    /\ refreshers' = [refreshers EXCEPT !.done = @ + refreshers["waiting"], !.waiting = 0]

\* Mutant: a kubeconfig that is over already is cached.
Mut_FetchCachesDead ==
    /\ flight.state = "issued"
    /\ entry' = [cached |-> TRUE, ttl |-> flight.left, age |-> 0]
    /\ Ended("valid")
    /\ UNCHANGED <<refreshing, faults>>

\* fetch, when Gardener has answered: "never cache a dead credential".
Fetch ==
    /\ flight.state = "issued"
    /\ IF flight.left = 0
       THEN Ended("error") /\ UNCHANGED entry
       ELSE Ended("valid") /\ entry' = [cached |-> TRUE, ttl |-> flight.left, age |-> 0]
    /\ UNCHANGED <<refreshing, faults>>

FetchFails ==
    /\ flight.state # "none"
    /\ faults < MaxFaults
    /\ faults' = faults + 1
    /\ Ended("error")
    /\ UNCHANGED <<entry, refreshing>>

\* Mutant: a fetch is not bounded.
Mut_FetchUnbounded == FALSE /\ UNCHANGED vars

\* fetchCtx is done.
FetchTimesOut ==
    /\ flight.state # "none"
    /\ flight.age = FetchTimeout
    /\ Ended("error")
    /\ UNCHANGED <<entry, refreshing, faults>>

\* The caller's own context is done; the fetch goes on.
Abandon(c) ==
    /\ pc[c] = "waiting"
    /\ pc' = [pc EXCEPT ![c] = "idle"]
    /\ got' = [got EXCEPT ![c] = "error"]
    /\ UNCHANGED <<entry, flight, refreshing, refreshers, faults>>

Decremented(n) == IF n = 0 THEN 0 ELSE n - 1

\* Time passes, up to the timeout of the fetch.
Tick ==
    /\ flight.age < FetchTimeout
    /\ entry' = IF entry.cached /\ entry.age <= Lifetime THEN [entry EXCEPT !.age = @ + 1] ELSE entry
    /\ flight' = IF flight.state = "none" THEN flight
                 ELSE [flight EXCEPT !.age = @ + 1, !.left = Decremented(@)]
    /\ UNCHANGED <<pc, got, refreshing, refreshers, faults>>

-----------------------------------------------------------------------------
Next ==
    \/ \E c \in Callers : Hit(c) \/ Miss(c) \/ FetchAndCache(c) \/ Abandon(c)
    \/ Refresh \/ RefreshReturns
    \/ AdminKubeconfigForShoot \/ Fetch \/ FetchFails \/ FetchTimesOut
    \/ Tick

Spec == Init /\ [][Next]_vars

\* Goroutines run, and time passes while there is something to wait for; nothing says
\* that Gardener answers.
Fairness ==
    /\ \A c \in Callers : WF_vars(FetchAndCache(c))
    /\ WF_vars(Refresh) /\ WF_vars(RefreshReturns)
    /\ WF_vars(Fetch) /\ WF_vars(FetchTimesOut)
    /\ WF_vars(flight.state # "none" /\ Tick)

FairSpec == Spec /\ Fairness

-----------------------------------------------------------------------------
(* Properties *)

\* "AccessFor returns a valid ShootAccess": no caller gets an expired kubeconfig,
\* neither from the cache nor from a fetch, however late a refresh is.
ServedIsValid == \A c \in Callers : got[c] # "expired"

\* "At most one refresh goroutine per cluster", however many requests find the
\* entry due while Gardener does not answer.
OneRefresher == refreshers["starting"] + refreshers["waiting"] + refreshers["done"] <= 1

\* A caller does not wait for ever, even if Gardener never answers: the shared
\* fetch is bounded by fetchTimeout.
WaitingEnds == \A c \in Callers : pc[c] # "idle" ~> pc[c] = "idle"

\* A refresh that has started ends, and another one can start then.
RefreshEnds == refreshing ~> ~refreshing
=============================================================================
