--------------------------- MODULE CircuitBreaker ---------------------------
(***************************************************************************)
(* common/circuitbreaker: a flag that a poll sets to what its check says,  *)
(* and that the interceptor reads at the start of every request.           *)
(***************************************************************************)
VARIABLE open  \* Breaker.open

\* Mutant: a check that is fine does not close the breaker again.
Mut_PollOnlyTrips(shouldOpen) == open' = (open \/ shouldOpen)

\* poll, when the check gives an answer.
Poll(shouldOpen) == open' = shouldOpen

\* poll, when the check fails: the flag stays as it is.
PollCheckFails == UNCHANGED open

\* The interceptor lets a request through.
Admitted == ~open
=============================================================================
