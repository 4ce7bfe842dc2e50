--------------------------- MODULE ClusterOutbox ---------------------------
(***************************************************************************)
(* The outbox worker of cluster-worker/pkg/outbox/worker.go, run by any    *)
(* number of replicas over one tenant.cluster_outbox table.                *)
(*                                                                         *)
(* A worker claims a row inside a transaction that locks it, runs every    *)
(* handler registered for the row, and either marks the row completed and  *)
(* commits, or rolls back (which unlocks the row) and only then writes the *)
(* outcome through the connection pool, from the row as it was read when   *)
(* it was claimed.  What a handler does is left open here: it succeeds,    *)
(* fails, or reports that a precondition is not met.                       *)
(***************************************************************************)
EXTENDS OutboxTable, FiniteSets

CONSTANTS
    Rows,                      \* row identifiers, in the order of their uuidv7
    Workers,                   \* worker replicas
    MaxFan,                    \* most handlers registered for one row
    HandlerCount,              \* handlers registered for each row's entity and event
    MaxRetries,                \* Config.MaxRetries
    MaxPreconditionDeferrals,  \* Config.MaxPreconditionDeferrals
    MaxFaults,                 \* bound on crashes and failed database calls
    None                       \* no worker, no row

ASSUME ConstantsAssumption ==
    /\ Rows \subseteq Nat
    /\ IsFiniteSet(Workers)
    /\ MaxFan \in Nat
    /\ HandlerCount \in [Rows -> 0 .. MaxFan]
    /\ MaxRetries \in Nat
    /\ MaxPreconditionDeferrals \in Nat
    /\ MaxFaults \in Nat
    /\ None \notin Workers

Handlers(r) == 1 .. HandlerCount[r]

VARIABLES
    rows,     \* the table
    lock,     \* the worker whose open transaction holds the row's lock
    pc,       \* where each worker is in its loop
    claimed,  \* the row each worker is busy with, as read when it was claimed
    at,       \* the handler each worker runs next
    errs,     \* kinds of error the handlers returned in this attempt
    faults,   \* faults so far
    runs,     \* history: how often each handler was run for each row
    done      \* history: the handlers that have succeeded for each row

vars == <<rows, lock, pc, claimed, at, errs, faults, runs, done>>

PcStates == {"down", "draining", "waiting", "processing", "marking"}

Snapshot == [id : Rows, retries : Nat, deferrals : Nat]

Busy(w) == pc[w] \in {"processing", "marking"}

TimesRun(r, h) == runs[<<r, h>>]

TypeOK ==
    /\ rows \in [Rows -> Row]
    /\ lock \in [Rows -> Workers \cup {None}]
    /\ pc \in [Workers -> PcStates]
    /\ claimed \in [Workers -> Snapshot \cup {None}]
    /\ \A w \in Workers : Busy(w) => claimed[w] \in Snapshot
    /\ at \in [Workers -> Nat]
    /\ errs \in [Workers -> SUBSET {"hard", "precondition"}]
    /\ faults \in 0 .. MaxFaults
    /\ runs \in [Rows \X (1 .. MaxFan) -> Nat]
    /\ done \in [Rows -> SUBSET (1 .. MaxFan)]

Init ==
    /\ rows = [r \in Rows |-> NoRow]
    /\ lock = [r \in Rows |-> None]
    /\ pc = [w \in Workers |-> "down"]
    /\ claimed = [w \in Workers |-> None]
    /\ at = [w \in Workers |-> 1]
    /\ errs = [w \in Workers |-> {}]
    /\ faults = 0
    /\ runs = [rh \in Rows \X (1 .. MaxFan) |-> 0]
    /\ done = [r \in Rows |-> {}]

-----------------------------------------------------------------------------
(* The table's other writers, and time. *)

\* A trigger or a conditional insert adds a row.  Transactions commit in any
\* order, so rows need not appear in the order of their identifiers.
Insert(r) ==
    /\ rows[r].status = "absent"
    /\ rows' = [rows EXCEPT ![r] = NewRow]
    /\ UNCHANGED <<lock, pc, claimed, at, errs, faults, runs, done>>

\* now() reaches retry_after.
BackoffElapses(r) ==
    /\ rows[r].retry_after = "future"
    /\ rows' = [rows EXCEPT ![r].retry_after = "past"]
    /\ UNCHANGED <<lock, pc, claimed, at, errs, faults, runs, done>>

-----------------------------------------------------------------------------
(* The loop around a row: Run, runWithConnection, processAllRows. *)

\* A connection is acquired, LISTEN issued, and the first drain starts.
Listen(w) ==
    /\ pc[w] = "down"
    /\ pc' = [pc EXCEPT ![w] = "draining"]
    /\ UNCHANGED <<rows, lock, claimed, at, errs, faults, runs, done>>

\* Mutant: no SKIP LOCKED.
Mut_AvailableThoughLocked(r) == Claimable(rows[r])

Available(r) == Claimable(rows[r]) /\ lock[r] = None

\* OutboxGetAndLock returned no row: the drain ends.
NothingToClaim(w) ==
    /\ pc[w] = "draining"
    /\ \A r \in Rows : ~Available(r)
    /\ pc' = [pc EXCEPT ![w] = "waiting"]
    /\ UNCHANGED <<rows, lock, claimed, at, errs, faults, runs, done>>

\* A notification, or PollInterval without one.
Wake(w) ==
    /\ pc[w] = "waiting"
    /\ pc' = [pc EXCEPT ![w] = "draining"]
    /\ UNCHANGED <<rows, lock, claimed, at, errs, faults, runs, done>>

-----------------------------------------------------------------------------
(* One row: claim, process, complete. *)

\* The oldest available row that no other transaction has locked.
Claim(w) ==
    /\ pc[w] = "draining"
    /\ \E r \in Rows :
        /\ Available(r)
        /\ \A q \in Rows : q < r => ~Available(q)
        /\ lock' = [lock EXCEPT ![r] = w]
        /\ claimed' = [claimed EXCEPT ![w] =
             [id |-> r, retries |-> rows[r].retries, deferrals |-> rows[r].deferrals]]
    /\ pc' = [pc EXCEPT ![w] = "processing"]
    /\ at' = [at EXCEPT ![w] = 1]
    /\ errs' = [errs EXCEPT ![w] = {}]
    /\ UNCHANGED <<rows, faults, runs, done>>

\* One h.Sync of the loop in process, with the error it returns.  The loop goes
\* on to the next handler whatever the outcome.
RunHandler(w) ==
    /\ pc[w] = "processing"
    /\ at[w] \in Handlers(claimed[w].id)
    /\ \/ /\ done' = [done EXCEPT ![claimed[w].id] = @ \cup {at[w]}]
          /\ UNCHANGED errs
       \/ /\ \E err \in {"hard", "precondition"} :
               errs' = [errs EXCEPT ![w] = @ \cup {err}]
          /\ UNCHANGED done
    /\ runs' = [runs EXCEPT ![<<claimed[w].id, at[w]>>] = @ + 1]
    /\ at' = [at EXCEPT ![w] = @ + 1]
    /\ UNCHANGED <<rows, lock, pc, claimed, faults>>

Processed(w) ==
    /\ pc[w] = "processing"
    /\ at[w] > HandlerCount[claimed[w].id]

\* No handler is registered for the row's entity and event.
NonRetryable(w) == HandlerCount[claimed[w].id] = 0

\* A row's lock goes with the transaction that held it.
Unlock(w) == [r \in Rows |-> IF lock[r] = w THEN None ELSE lock[r]]

\* The row and its errors go out of scope.
Forget(w) ==
    /\ claimed' = [claimed EXCEPT ![w] = None]
    /\ at' = [at EXCEPT ![w] = 1]
    /\ errs' = [errs EXCEPT ![w] = {}]

\* Mutant: the joined error is dropped.
Mut_CompleteDespiteErrors(w) ==
    /\ Processed(w)
    /\ ~NonRetryable(w)
    /\ lock[claimed[w].id] = w
    /\ rows' = [rows EXCEPT ![claimed[w].id] = OutboxMarkProcessed(@)]
    /\ lock' = Unlock(w)
    /\ pc' = [pc EXCEPT ![w] = "draining"]
    /\ Forget(w)
    /\ UNCHANGED <<faults, runs, done>>

\* Every handler returned nil: mark and commit in the claiming transaction.
CompleteRow(w) ==
    /\ Processed(w)
    /\ ~NonRetryable(w)
    /\ errs[w] = {}
    /\ lock[claimed[w].id] = w
    /\ rows' = [rows EXCEPT ![claimed[w].id] = OutboxMarkProcessed(@)]
    /\ lock' = Unlock(w)
    /\ pc' = [pc EXCEPT ![w] = "draining"]
    /\ Forget(w)
    /\ UNCHANGED <<faults, runs, done>>

\* The transaction ended under the worker while the handlers ran: the commit
\* fails, and processAllRows gives up the drain.
CommitFails(w) ==
    /\ Processed(w)
    /\ ~NonRetryable(w)
    /\ errs[w] = {}
    /\ lock[claimed[w].id] # w
    /\ pc' = [pc EXCEPT ![w] = "waiting"]
    /\ Forget(w)
    /\ UNCHANGED <<rows, lock, faults, runs, done>>

\* Mutant: the transaction is left open.
Mut_NoRollback(w) ==
    /\ Processed(w)
    /\ NonRetryable(w) \/ errs[w] # {}
    /\ pc' = [pc EXCEPT ![w] = "marking"]
    /\ UNCHANGED <<rows, lock, claimed, at, errs, faults, runs, done>>

\* Some handler failed, or there was none: the transaction is rolled back, which
\* unlocks the row before its outcome is written.
Rollback(w) ==
    /\ Processed(w)
    /\ NonRetryable(w) \/ errs[w] # {}
    /\ lock' = Unlock(w)
    /\ pc' = [pc EXCEPT ![w] = "marking"]
    /\ UNCHANGED <<rows, claimed, at, errs, faults, runs, done>>

\* An UPDATE ... WHERE id through the pool.  It waits while another transaction
\* holds the row, and then applies whatever that transaction left behind.
Mark(w, row) ==
    /\ lock[claimed[w].id] = None
    /\ rows' = [rows EXCEPT ![claimed[w].id] = row]
    /\ pc' = [pc EXCEPT ![w] = "draining"]
    /\ Forget(w)
    /\ UNCHANGED <<lock, faults, runs, done>>

\* The row as it is when the UPDATE gets to it.
Current(w) == rows[claimed[w].id]

\* A hard error, or a precondition whose deferrals are used up.
IsRowError(w) ==
    /\ ~NonRetryable(w)
    /\ \/ "hard" \in errs[w]
       \/ claimed[w].deferrals + 1 > MaxPreconditionDeferrals

\* Mutants: the attempt limit is off by one, either way.
Mut_OutOfRetriesEarly(w) == claimed[w].retries + 2 >= MaxRetries
Mut_OutOfRetriesLate(w) == claimed[w].retries >= MaxRetries

OutOfRetries(w) == claimed[w].retries + 1 >= MaxRetries

FailNonRetryable(w) ==
    /\ pc[w] = "marking"
    /\ NonRetryable(w)
    /\ Mark(w, OutboxMarkFailed(Current(w)))

FailRow(w) ==
    /\ pc[w] = "marking"
    /\ IsRowError(w)
    /\ OutOfRetries(w)
    /\ Mark(w, OutboxMarkFailed(Current(w)))

RetryRow(w) ==
    /\ pc[w] = "marking"
    /\ IsRowError(w)
    /\ ~OutOfRetries(w)
    /\ Mark(w, OutboxMarkRetry(Current(w)))

DeferRow(w) ==
    /\ pc[w] = "marking"
    /\ ~NonRetryable(w)
    /\ ~IsRowError(w)
    /\ Mark(w, OutboxDeferWithoutRetry(Current(w)))

-----------------------------------------------------------------------------
(* Faults *)

Faulty ==
    /\ faults < MaxFaults
    /\ faults' = faults + 1

\* The process dies, at any point, and is started again.
Crash(w) ==
    /\ pc[w] # "down"
    /\ Faulty
    /\ pc' = [pc EXCEPT ![w] = "down"]
    /\ lock' = Unlock(w)
    /\ Forget(w)
    /\ UNCHANGED <<rows, runs, done>>

\* The LISTEN connection is lost: the worker is no longer ready and reconnects.
LoseConnection(w) ==
    /\ pc[w] = "waiting"
    /\ Faulty
    /\ pc' = [pc EXCEPT ![w] = "down"]
    /\ UNCHANGED <<rows, lock, claimed, at, errs, runs, done>>

\* The connection of the claiming transaction is lost: the server rolls back and
\* unlocks the row while the handlers are still running.
LoseTransaction(w) ==
    /\ pc[w] = "processing"
    /\ lock[claimed[w].id] = w
    /\ Faulty
    /\ lock' = Unlock(w)
    /\ UNCHANGED <<rows, pc, claimed, at, errs, runs, done>>

\* The marking UPDATE fails: an infrastructure error, after which processAllRows
\* gives up the drain and the loop waits.
MarkFails(w) ==
    /\ pc[w] = "marking"
    /\ Faulty
    /\ pc' = [pc EXCEPT ![w] = "waiting"]
    /\ Forget(w)
    /\ UNCHANGED <<rows, lock, runs, done>>

-----------------------------------------------------------------------------
Finish(w) == FailNonRetryable(w) \/ FailRow(w) \/ RetryRow(w) \/ DeferRow(w)

WorkerStep(w) ==
    \/ Listen(w) \/ NothingToClaim(w) \/ Wake(w)
    \/ Claim(w) \/ RunHandler(w)
    \/ CompleteRow(w) \/ CommitFails(w) \/ Rollback(w) \/ Finish(w)

Fault(w) == Crash(w) \/ LoseConnection(w) \/ LoseTransaction(w) \/ MarkFails(w)

Next ==
    \/ \E r \in Rows : Insert(r) \/ BackoffElapses(r)
    \/ \E w \in Workers : WorkerStep(w) \/ Fault(w)

Spec == Init /\ [][Next]_vars

\* The scheduler runs every live worker (the poll timeout wakes it even when no
\* notification arrives) and time passes.
Fairness ==
    /\ \A w \in Workers : WF_vars(WorkerStep(w))
    /\ \A r \in Rows : WF_vars(BackoffElapses(r))

FairSpec == Spec /\ Fairness

-----------------------------------------------------------------------------
(* Properties *)

\* A row is locked only for the worker that is running its handlers: a lock never
\* outlives the attempt that took it (claim and complete).
LockedWhileProcessing ==
    \A r \in Rows : lock[r] # None =>
        pc[lock[r]] = "processing" /\ claimed[lock[r]].id = r

\* As long as no fault ends a claiming transaction early, no two replicas run the
\* handlers of one row at the same time (FOR NO KEY UPDATE SKIP LOCKED).
ExclusiveProcessing ==
    faults = 0 =>
        \A v, w \in Workers :
            pc[v] = "processing" /\ pc[w] = "processing" /\ claimed[v].id = claimed[w].id
                => v = w

\* A completed row is one that every handler it fans out to has handled without
\* an error, whatever the order of attempts, crashes and replicas (process runs
\* all handlers, complete marks only when none failed).
CompletedMeansHandled ==
    \A r \in Rows : rows[r].status = "completed" => done[r] = Handlers(r)

\* A row is given up only after each of its handlers was tried at least
\* MaxRetries times: the failure of one handler does not cost another its
\* attempts, and replicas do not use up each other's (handleRowError).
FailedOnlyAfterMaxAttempts ==
    \A r \in Rows : rows[r].status = "failed" =>
        \A h \in Handlers(r) : TimesRun(r, h) >= MaxRetries

\* Stale decisions of concurrent replicas push a row past its limits by less
\* than one step per replica (the limits are compared with the claimed row, the
\* counters incremented in the current one).
CountersBounded ==
    \A r \in Rows :
        /\ rows[r].retries = 0 \/ rows[r].retries + 2 <= MaxRetries + Cardinality(Workers)
        /\ \/ rows[r].deferrals = 0
           \/ rows[r].deferrals + 1 <= MaxPreconditionDeferrals + Cardinality(Workers)

\* With one replica a handler is run for a row at most once per retry and per
\* deferral allowed, plus once per fault: no attempt goes uncounted.
AttemptsBounded ==
    Cardinality(Workers) = 1 =>
        \A r \in Rows : \A h \in Handlers(r) :
            \/ TimesRun(r, h) <= MaxRetries + MaxPreconditionDeferrals + faults
            \/ MaxRetries = 0 /\ TimesRun(r, h) <= 1 + MaxPreconditionDeferrals + faults

Promise == INSTANCE OutboxPromise WITH
    Parts <- Handlers,
    outcome <- [r \in Rows |-> IF rows[r].status \in Active THEN "waiting" ELSE rows[r].status],
    handled <- done

\* With one replica the worker implements the promise of an outbox: a row that is
\* completed or failed is never touched again, it is completed only when every
\* handler has handled it, and whatever the handlers return and however the
\* bounded faults fall, one of the two happens.  (Of two replicas, one may write
\* the row between another's rollback and its marking.)
KeepsPromise == Promise!Spec

\* "Marks a row as permanently failed" (OutboxMarkFailed): no failed row becomes
\* active again.
FailedIsPermanent ==
    [][\A r \in Rows : rows[r].status = "failed" => rows'[r].status = "failed"]_vars

\* A row that ran out of retries is one the conditional inserts of the reconcile
\* loops recognise as exhausted (OutboxInsertReconcile).
ExhaustedIsRecognised ==
    \A r \in Rows : rows[r].status = "failed" /\ Handlers(r) # {} =>
        BlocksReconcile(rows[r], MaxRetries)

-----------------------------------------------------------------------------
(* The inductive invariant behind the safety properties *)

\* Workers that are past handler h of row r and have not settled their attempt.
Attempting(r, h) ==
    {w \in Workers : Busy(w) /\ claimed[w].id = r /\ at[w] > h}

\* The handler loop stays within the row's handlers, and is over before marking.
LoopInv ==
    \A w \in Workers : Busy(w) =>
        /\ at[w] \in 1 .. HandlerCount[claimed[w].id] + 1
        /\ pc[w] = "marking" => at[w] = HandlerCount[claimed[w].id] + 1

\* Without faults a worker keeps its lock while it runs the handlers.
HoldsInv ==
    faults = 0 =>
        \A w \in Workers : pc[w] = "processing" => lock[claimed[w].id] = w

\* As long as an attempt has seen no error, the handlers behind it succeeded.
DoneInv ==
    /\ \A r \in Rows : done[r] \subseteq Handlers(r)
    /\ \A w \in Workers : pc[w] = "processing" /\ errs[w] = {} =>
          \A h \in Handlers(claimed[w].id) : h < at[w] => h \in done[claimed[w].id]

\* Only rows that exist are worked on, and the others have their initial values.
PresentInv ==
    /\ \A r \in Rows : rows[r].status = "absent" => rows[r] = NoRow
    /\ \A w \in Workers : Busy(w) => rows[claimed[w].id].status # "absent"

\* Counters only grow while a worker holds a copy of them.
SnapshotInv ==
    \A w \in Workers : Busy(w) =>
        /\ claimed[w].retries <= rows[claimed[w].id].retries
        /\ claimed[w].deferrals <= rows[claimed[w].id].deferrals

\* Each retry and deferral counted, and each attempt not settled yet, is paid
\* for by a run of every handler of the row.
RunsInv ==
    \A r \in Rows : \A h \in Handlers(r) :
        rows[r].retries + rows[r].deferrals + Cardinality(Attempting(r, h)) <= TimesRun(r, h)

IInv ==
    /\ TypeOK
    /\ LockedWhileProcessing
    /\ HoldsInv
    /\ LoopInv
    /\ DoneInv
    /\ PresentInv
    /\ SnapshotInv
    /\ RunsInv
    /\ CompletedMeansHandled
    /\ FailedOnlyAfterMaxAttempts
=============================================================================
