----------------------------- MODULE TokenCache -----------------------------
(***************************************************************************)
(* kube-api-proxy/pkg/token: the tokens of service accounts, cached per    *)
(* user and cluster.  Keys do not interact, so there is one.  Times are    *)
(* relative: an entry has an age.  ttlcache finds an entry until its TTL   *)
(* has passed since it was set or last read, for ever if the TTL is not    *)
(* positive; singleflight lets calls for a key that is being fetched share *)
(* the fetch.                                                              *)
(***************************************************************************)
EXTENDS Naturals

CONSTANTS
    Requests,   \* proxied requests, each of which may come again
    MinLifetime, Lifetime, \* what a token is good for, at least and at most
    MaxFetch,   \* the longest a fetch takes
    MaxSpawned, \* bound on refresh goroutines that have not asked yet
    MaxFaults   \* bound on failed fetches

ASSUME TokenCacheAssumption == {MinLifetime, Lifetime, MaxFetch, MaxSpawned, MaxFaults} \subseteq Nat

VARIABLES
    entry,    \* the cached token
    flight,   \* the fetch that singleflight runs
    pc,       \* where each request is
    spawned,  \* the number of refresh goroutines that have not reached group.Do
    served,   \* how each request found the token that is cached now
    faults    \* failed fetches so far

vars == <<entry, flight, pc, spawned, served, faults>>

NoEntry == [cached |-> FALSE, ttl |-> 0, age |-> 0, unread |-> 0]

NoFlight == [state |-> "none", age |-> 0, left |-> 0, starter |-> "refresh"]

\* Ages beyond this make no difference.
Aged == Lifetime + 1

TypeOK ==
    /\ entry \in [cached : BOOLEAN, ttl : 0 .. Lifetime, age : 0 .. Aged, unread : 0 .. Aged]
    /\ flight \in [state : {"none", "called", "issued"}, age : 0 .. MaxFetch, left : 0 .. Lifetime,
                  starter : Requests \cup {"refresh"}]
    /\ pc \in [Requests -> {"idle", "missed", "waiting"}]
    /\ spawned \in 0 .. MaxSpawned
    /\ served \in [Requests -> {"nothing", "valid", "expired"}]
    /\ faults \in 0 .. MaxFaults

Init ==
    /\ entry = NoEntry
    /\ flight = NoFlight
    /\ pc = [r \in Requests |-> "idle"]
    /\ spawned = 0
    /\ served = [r \in Requests |-> "nothing"]
    /\ faults = 0

-----------------------------------------------------------------------------
Live == entry.cached /\ (entry.ttl = 0 \/ entry.unread <= entry.ttl)

Token == IF entry.age <= entry.ttl THEN "valid" ELSE "expired"

\* Mutant: an old token is returned without being refreshed.
Mut_NeverRefresh == FALSE

\* shouldRefresh: refreshRatio of the TTL has passed.
ShouldRefresh == 10 * entry.age > 8 * entry.ttl

\* GetToken finds a token: it is returned, and refreshed on the side.  The read
\* makes ttlcache count the TTL afresh.
Hit(r) ==
    /\ pc[r] = "idle"
    /\ Live
    /\ served' = [served EXCEPT ![r] = Token]
    /\ entry' = [entry EXCEPT !.unread = 0]
    /\ IF ShouldRefresh
       THEN spawned < MaxSpawned /\ spawned' = spawned + 1
       ELSE UNCHANGED spawned
    /\ UNCHANGED <<flight, pc, faults>>

\* GetToken finds none.
Miss(r) ==
    /\ pc[r] = "idle"
    /\ ~Live
    /\ pc' = [pc EXCEPT ![r] = "missed"]
    /\ UNCHANGED <<entry, flight, spawned, served, faults>>

\* group.Do: join the fetch under way, or start one, under the context of its starter.
Do(starter) ==
    flight' = IF flight.state = "none"
              THEN [NoFlight EXCEPT !.state = "called", !.starter = starter] ELSE flight

\* fetchAndCache
FetchAndCache(r) ==
    /\ pc[r] = "missed"
    /\ pc' = [pc EXCEPT ![r] = "waiting"]
    /\ Do(r)
    /\ UNCHANGED <<entry, spawned, served, faults>>

\* refresh, whose context is that of no request (context.WithoutCancel).
Refresh ==
    /\ spawned > 0
    /\ spawned' = spawned - 1
    /\ Do("refresh")
    /\ UNCHANGED <<entry, pc, served, faults>>

\* The API server grants a token; by our clock it may be over at once.
RequestSAToken ==
    /\ flight.state = "called"
    /\ \E left \in MinLifetime .. Lifetime : flight' = [flight EXCEPT !.state = "issued", !.left = left]
    /\ UNCHANGED <<entry, pc, spawned, served, faults>>

\* Mutant: the requests that joined the fetch are not woken up.
Mut_NoneReleased == UNCHANGED pc

\* Everyone who waits for the fetch goes on.
Released == pc' = [r \in Requests |-> IF pc[r] = "waiting" THEN "idle" ELSE pc[r]]

\* requestToken stores the token and returns it to everyone who waits for it.
RequestToken ==
    /\ flight.state = "issued"
    /\ entry' = [cached |-> TRUE, ttl |-> flight.left, age |-> 0, unread |-> 0]
    /\ flight' = NoFlight
    /\ Released
    /\ served' = [r \in Requests |-> IF pc[r] = "waiting" THEN "valid" ELSE "nothing"]
    /\ UNCHANGED <<spawned, faults>>

\* The fetch fails, for everyone who waits for it.
RequestFails ==
    /\ flight.state # "none"
    /\ faults < MaxFaults
    /\ faults' = faults + 1
    /\ flight' = NoFlight
    /\ Released
    /\ UNCHANGED <<entry, spawned, served>>

\* The client of the request that started the fetch goes away, and with its context
\* the fetch ends for everyone.  Other requests wait on when their clients have gone.
Cancel ==
    /\ flight.starter \in Requests
    /\ flight' = NoFlight
    /\ Released
    /\ UNCHANGED <<entry, spawned, served, faults>>

Decremented(n) == IF n = 0 THEN 0 ELSE n - 1

Older(n) == IF n = Aged THEN n ELSE n + 1

Tick ==
    /\ flight.age < MaxFetch
    /\ entry' = IF entry.cached THEN [entry EXCEPT !.age = Older(@), !.unread = Older(@)] ELSE entry
    /\ flight' = IF flight.state = "none" THEN flight
                 ELSE [flight EXCEPT !.age = @ + 1, !.left = Decremented(@)]
    /\ UNCHANGED <<pc, spawned, served, faults>>

-----------------------------------------------------------------------------
Next ==
    \/ \E r \in Requests : Hit(r) \/ Miss(r) \/ FetchAndCache(r)
    \/ Refresh \/ RequestSAToken \/ RequestToken \/ RequestFails \/ Cancel \/ Tick

Spec == Init /\ [][Next]_vars

\* Goroutines run, and the API server answers.
Fairness ==
    /\ \A r \in Requests : WF_vars(FetchAndCache(r))
    /\ WF_vars(Refresh)
    /\ WF_vars(RequestSAToken)
    /\ WF_vars(RequestToken)

FairSpec == Spec /\ Fairness

-----------------------------------------------------------------------------
(* Properties *)

\* "GetToken returns a valid SA token [...]. It uses a cached token if available
\* and not expired".
ServedIsValid == \A r \in Requests : served[r] # "expired"

\* A request that finds no token is answered or fails: it does not wait on a fetch
\* that has ended without it (fetchAndCache).
WaitingEnds == \A r \in Requests : pc[r] # "idle" ~> pc[r] = "idle"

\* Whoever keeps asking does not get the same expired token for ever: each time a
\* refresh is set off, and though one may fail, or die with the request whose fetch it
\* has joined, the cache comes to hold another token (GetToken, refresh).
StaleIsReplaced ==
    \A r \in Requests : []<><<Hit(r)>>_vars => []<>(served[r] # "expired")
=============================================================================
