------------------------ MODULE ClusterOutboxProofs ------------------------
(***************************************************************************)
(* The safety properties of ClusterOutbox, for every number of replicas,   *)
(* rows, handlers, retries, deferrals and faults.                          *)
(***************************************************************************)
EXTENDS ClusterOutbox, FiniteSetTheorems, TLAPS

\* Every statement of outbox.sql that updates a row yields a row.
LEMMA UpdatesAreRows ==
    ASSUME NEW row \in Row
    PROVE  /\ OutboxMarkProcessed(row) \in Row
           /\ OutboxMarkRetry(row) \in Row
           /\ OutboxMarkFailed(row) \in Row
           /\ OutboxDeferWithoutRetry(row) \in Row
           /\ [row EXCEPT !.retry_after = "past"] \in Row
<1>1. row.retries + 1 \in Nat /\ row.deferrals + 1 \in Nat
  BY DEF Row
<1>2. OutboxMarkRetry(row) \in Row
  BY <1>1, Zenon DEF Row, OutboxStatus, OutboxMarkRetry
<1>3. OutboxDeferWithoutRetry(row) \in Row
  BY <1>1, Zenon DEF Row, OutboxStatus, OutboxDeferWithoutRetry
<1> QED
  BY <1>2, <1>3, Zenon DEF Row, OutboxStatus, OutboxMarkProcessed, OutboxMarkFailed

\* Every step keeps the table, the workers and the histories well formed.
LEMMA TypeStep == TypeOK /\ [Next]_vars => TypeOK'
<1> USE ConstantsAssumption
<1> SUFFICES ASSUME TypeOK, [Next]_vars PROVE TypeOK'
  OBVIOUS
<1>1. ASSUME NEW r \in Rows, Insert(r) PROVE TypeOK'
  BY <1>1 DEF TypeOK, Insert, NewRow, Row, OutboxStatus, Busy
<1>2. ASSUME NEW r \in Rows, BackoffElapses(r) PROVE TypeOK'
  BY <1>2, UpdatesAreRows DEF TypeOK, BackoffElapses, Busy
<1>3. ASSUME NEW w \in Workers, Listen(w) \/ NothingToClaim(w) \/ Wake(w) PROVE TypeOK'
  BY <1>3 DEF TypeOK, Listen, NothingToClaim, Wake, PcStates, Busy
<1>4. ASSUME NEW w \in Workers, Claim(w) PROVE TypeOK'
  <2>1. PICK r \in Rows :
          /\ lock' = [lock EXCEPT ![r] = w]
          /\ claimed' = [claimed EXCEPT ![w] =
               [id |-> r, retries |-> rows[r].retries, deferrals |-> rows[r].deferrals]]
    BY <1>4, Zenon DEF Claim
  <2>2. rows[r].retries \in Nat /\ rows[r].deferrals \in Nat
    BY DEF TypeOK, Row
  <2>3. claimed' \in [Workers -> Snapshot \cup {None}] /\ claimed'[w] \in Snapshot
    BY <2>1, <2>2 DEF TypeOK, Snapshot
  <2>4. \A v \in Workers : Busy(v)' => claimed'[v] \in Snapshot
    BY <1>4, <2>1, <2>3 DEF TypeOK, Busy, Claim
  <2> QED
    BY <1>4, <2>1, <2>3, <2>4 DEF TypeOK, Claim, PcStates
<1>5. ASSUME NEW w \in Workers, RunHandler(w) PROVE TypeOK'
  <2> DEFINE r == claimed[w].id
             h == at[w]
  <2>1. r \in Rows
    BY <1>5 DEF TypeOK, RunHandler, Snapshot, Busy
  <2>2. h \in 1 .. MaxFan
    <3>1. HandlerCount[r] \in 0 .. MaxFan
      BY <2>1, Zenon
    <3>2. h \in 1 .. HandlerCount[r]
      BY <1>5 DEF RunHandler, Handlers
    <3> HIDE DEF r, h
    <3> QED
      BY <3>1, <3>2
  <2>3. runs' \in [Rows \X (1 .. MaxFan) -> Nat]
    <3>1. runs' = [runs EXCEPT ![<<r, h>>] = runs[<<r, h>>] + 1]
      BY <1>5 DEF RunHandler
    <3> HIDE DEF r, h
    <3>2. runs \in [Rows \X (1 .. MaxFan) -> Nat]
      BY DEF TypeOK
    <3>3. <<r, h>> \in Rows \X (1 .. MaxFan)
      BY <2>1, <2>2
    <3> DEFINE Pairs == Rows \X (1 .. MaxFan)
               rh == <<r, h>>
    <3>4. runs \in [Pairs -> Nat] /\ rh \in Pairs /\ runs' = [runs EXCEPT ![rh] = runs[rh] + 1]
      BY <3>1, <3>2, <3>3
    <3> HIDE DEF Pairs, rh
    <3>5. runs' \in [Pairs -> Nat]
      BY <3>4
    <3> QED
      BY <3>5 DEF Pairs
  <2>4. done' \in [Rows -> SUBSET (1 .. MaxFan)]
    <3>1. done' = [done EXCEPT ![r] = @ \cup {h}] \/ done' = done
      BY <1>5 DEF RunHandler
    <3> HIDE DEF r, h
    <3>2. done \in [Rows -> SUBSET (1 .. MaxFan)]
      BY DEF TypeOK
    <3>3. done[r] \cup {h} \in SUBSET (1 .. MaxFan)
      BY <2>1, <2>2, <3>2
    <3> QED
      BY <2>1, <3>1, <3>2, <3>3
  <2>5. errs' \in [Workers -> SUBSET {"hard", "precondition"}]
    <3>1. errs \in [Workers -> SUBSET {"hard", "precondition"}]
      BY DEF TypeOK
    <3>2. CASE UNCHANGED errs
      BY <3>1, <3>2
    <3>3. ASSUME NEW err \in {"hard", "precondition"},
                 errs' = [errs EXCEPT ![w] = @ \cup {err}]
          PROVE  errs' \in [Workers -> SUBSET {"hard", "precondition"}]
      <4>1. errs[w] \cup {err} \in SUBSET {"hard", "precondition"}
        BY <3>1
      <4> QED
        BY <3>1, <3>3, <4>1
    <3> QED
      BY <1>5, <3>2, <3>3 DEF RunHandler
  <2>6. at' \in [Workers -> Nat]
    BY <1>5 DEF TypeOK, RunHandler
  <2> QED
    BY <1>5, <2>3, <2>4, <2>5, <2>6 DEF TypeOK, RunHandler, Busy
<1>6. ASSUME NEW w \in Workers, CompleteRow(w) PROVE TypeOK'
  BY <1>6, UpdatesAreRows, Zenon DEF TypeOK, CompleteRow, Processed, Unlock, Forget, Snapshot, PcStates, Busy
<1>7. ASSUME NEW w \in Workers, CommitFails(w) PROVE TypeOK'
  BY <1>7 DEF TypeOK, CommitFails, Forget, PcStates, Busy
<1>8. ASSUME NEW w \in Workers, Rollback(w) PROVE TypeOK'
  BY <1>8 DEF TypeOK, Rollback, Processed, Unlock, PcStates, Busy
<1>9. ASSUME NEW w \in Workers, Finish(w) PROVE TypeOK'
  <2>1. pc[w] = "marking" /\ claimed[w].id \in Rows
    BY <1>9 DEF TypeOK, Finish, FailNonRetryable, FailRow, RetryRow, DeferRow, Snapshot, Busy
  <2>2. Current(w) \in Row
    BY <2>1, Zenon DEF TypeOK, Current
  <2>3. PICK row \in Row : Mark(w, row)
    BY <1>9, <2>2, UpdatesAreRows, Zenon DEF Finish, FailNonRetryable, FailRow, RetryRow, DeferRow
  <2> QED
    BY <2>1, <2>3 DEF TypeOK, Mark, Forget, PcStates, Busy
<1>10. ASSUME NEW w \in Workers, Fault(w) PROVE TypeOK'
  <2>1. faults' \in 0 .. MaxFaults
    BY <1>10 DEF TypeOK, Fault, Faulty, Crash, LoseConnection, LoseTransaction, MarkFails
  <2>2. CASE Crash(w)
    BY <2>1, <2>2 DEF TypeOK, Crash, Unlock, Forget, PcStates, Busy
  <2>3. CASE LoseConnection(w)
    BY <2>1, <2>3 DEF TypeOK, LoseConnection, PcStates, Busy
  <2>4. CASE LoseTransaction(w)
    BY <2>1, <2>4 DEF TypeOK, LoseTransaction, Unlock, Busy
  <2>5. CASE MarkFails(w)
    BY <2>1, <2>5 DEF TypeOK, MarkFails, Forget, PcStates, Busy
  <2> QED
    BY <1>10, <2>2, <2>3, <2>4, <2>5 DEF Fault
<1>11. CASE UNCHANGED vars
  BY <1>11 DEF TypeOK, vars, Busy
<1> QED
  BY <1>1, <1>2, <1>3, <1>4, <1>5, <1>6, <1>7, <1>8, <1>9, <1>10, <1>11
     DEF Next, WorkerStep

\* The initial state is well typed.
LEMMA InitTypeOK == Init => TypeOK
  BY ConstantsAssumption DEF Init, TypeOK, NoRow, Row, OutboxStatus, PcStates, Busy

\* The rows, locks and loop states stay within their types in every reachable
\* state of the outbox worker.
THEOREM TypeCorrect == Spec => []TypeOK
  BY InitTypeOK, TypeStep, PTL DEF Spec

-----------------------------------------------------------------------------
(* Each part of IInv is preserved, given the type invariant. *)

\* What a busy worker claimed is a row, with that row's handlers.
LEMMA BusyRow ==
    ASSUME TypeOK, NEW w \in Workers, Busy(w)
    PROVE  /\ claimed[w].id \in Rows
           /\ claimed[w].retries \in Nat
           /\ claimed[w].deferrals \in Nat
           /\ HandlerCount[claimed[w].id] \in Nat
           /\ at[w] \in Nat
<1>1. claimed[w] \in Snapshot /\ at[w] \in Nat
  BY DEF TypeOK
<1>2. claimed[w].id \in Rows
  BY <1>1 DEF Snapshot
<1>3. HandlerCount[claimed[w].id] \in 0 .. MaxFan
  BY <1>2, ConstantsAssumption, Zenon
<1> QED
  BY <1>1, <1>2, <1>3, ConstantsAssumption DEF Snapshot

\* Finish is a marking step of a worker in "marking".
LEMMA FinishIsMark ==
    ASSUME TypeOK, NEW w \in Workers, Finish(w)
    PROVE  /\ pc[w] = "marking"
           /\ claimed[w].id \in Rows
           /\ \E row \in Row : Mark(w, row)
<1>1. pc[w] = "marking"
  BY DEF Finish, FailNonRetryable, FailRow, RetryRow, DeferRow
<1>2. claimed[w].id \in Rows
  BY <1>1 DEF TypeOK, Snapshot, Busy
<1>3. Current(w) \in Row
  BY <1>2 DEF TypeOK, Current
<1> QED
  BY <1>1, <1>2, <1>3, UpdatesAreRows, Zenon DEF Finish, FailNonRetryable, FailRow, RetryRow, DeferRow

\* A lock is taken by Claim alone and ends with the transaction.
LEMMA LockStep ==
    TypeOK /\ LockedWhileProcessing /\ [Next]_vars => LockedWhileProcessing'
<1> USE ConstantsAssumption
<1> SUFFICES ASSUME TypeOK, LockedWhileProcessing, [Next]_vars
             PROVE  LockedWhileProcessing'
  OBVIOUS
<1>1. ASSUME NEW r \in Rows, Insert(r) \/ BackoffElapses(r) PROVE LockedWhileProcessing'
  BY <1>1 DEF LockedWhileProcessing, Insert, BackoffElapses
<1>2. ASSUME NEW w \in Workers, Listen(w) \/ NothingToClaim(w) \/ Wake(w)
      PROVE LockedWhileProcessing'
  BY <1>2 DEF TypeOK, LockedWhileProcessing, Listen, NothingToClaim, Wake
<1>3. ASSUME NEW w \in Workers, Claim(w) PROVE LockedWhileProcessing'
  <2>1. PICK r \in Rows :
          /\ lock' = [lock EXCEPT ![r] = w]
          /\ claimed' = [claimed EXCEPT ![w] =
               [id |-> r, retries |-> rows[r].retries, deferrals |-> rows[r].deferrals]]
    BY <1>3, Zenon DEF Claim
  <2>2. claimed'[w].id = r /\ pc'[w] = "processing"
    BY <1>3, <2>1 DEF TypeOK, Claim
  <2>3. \A v \in Workers : v # w => pc'[v] = pc[v] /\ claimed'[v] = claimed[v]
    BY <1>3, <2>1 DEF TypeOK, Claim
  <2>4. \A q \in Rows : lock[q] # w
    BY <1>3 DEF LockedWhileProcessing, Claim
  <2> QED
    BY <2>1, <2>2, <2>3, <2>4 DEF TypeOK, LockedWhileProcessing
<1>4. ASSUME NEW w \in Workers, RunHandler(w) PROVE LockedWhileProcessing'
  BY <1>4 DEF LockedWhileProcessing, RunHandler
<1>5. ASSUME NEW w \in Workers, CompleteRow(w) \/ Rollback(w) \/ Crash(w) \/ LoseTransaction(w)
      PROVE LockedWhileProcessing'
  <2>1. \A r \in Rows : lock'[r] # None => lock[r] # w /\ lock'[r] = lock[r]
    BY <1>5 DEF CompleteRow, Rollback, Crash, LoseTransaction, Unlock
  <2>2. \A v \in Workers : v # w => pc'[v] = pc[v] /\ claimed'[v] = claimed[v]
    BY <1>5 DEF TypeOK, CompleteRow, Rollback, Crash, LoseTransaction, Forget
  <2> QED
    BY <2>1, <2>2 DEF TypeOK, LockedWhileProcessing
<1>6. ASSUME NEW w \in Workers, CommitFails(w) PROVE LockedWhileProcessing'
  BY <1>6 DEF TypeOK, LockedWhileProcessing, CommitFails, Forget
<1>7. ASSUME NEW w \in Workers, Finish(w) PROVE LockedWhileProcessing'
  BY <1>7, FinishIsMark DEF TypeOK, LockedWhileProcessing, Mark, Forget
<1>8. ASSUME NEW w \in Workers, LoseConnection(w) \/ MarkFails(w) PROVE LockedWhileProcessing'
  BY <1>8 DEF TypeOK, LockedWhileProcessing, LoseConnection, MarkFails, Forget
<1>9. CASE UNCHANGED vars
  BY <1>9, Zenon DEF LockedWhileProcessing, vars
<1> QED
  BY <1>1, <1>2, <1>3, <1>4, <1>5, <1>6, <1>7, <1>8, <1>9 DEF Next, WorkerStep, Fault

\* Only a fault ends a claiming transaction while the handlers run.
LEMMA HoldsStep ==
    TypeOK /\ LockedWhileProcessing /\ HoldsInv /\ [Next]_vars => HoldsInv'
<1> USE ConstantsAssumption
<1> SUFFICES ASSUME TypeOK, LockedWhileProcessing, HoldsInv, [Next]_vars, faults' = 0,
                    NEW v \in Workers, pc'[v] = "processing"
             PROVE  lock'[claimed'[v].id] = v
  BY DEF HoldsInv
<1>1. ASSUME NEW r \in Rows, Insert(r) \/ BackoffElapses(r) PROVE lock'[claimed'[v].id] = v
  BY <1>1 DEF HoldsInv, Insert, BackoffElapses
<1>2. ASSUME NEW w \in Workers,
             Listen(w) \/ NothingToClaim(w) \/ Wake(w) \/ RunHandler(w)
      PROVE  lock'[claimed'[v].id] = v
  BY <1>2 DEF TypeOK, HoldsInv, Listen, NothingToClaim, Wake, RunHandler
<1>3. ASSUME NEW w \in Workers, Claim(w) PROVE lock'[claimed'[v].id] = v
  <2>1. PICK r \in Rows :
          /\ Available(r)
          /\ lock' = [lock EXCEPT ![r] = w]
          /\ claimed' = [claimed EXCEPT ![w] =
               [id |-> r, retries |-> rows[r].retries, deferrals |-> rows[r].deferrals]]
    BY <1>3, Zenon DEF Claim
  <2>2. CASE v = w
    BY <2>1, <2>2 DEF TypeOK
  <2>3. CASE v # w
    <3>1. pc[v] = "processing" /\ claimed'[v] = claimed[v] /\ faults = 0
      BY <1>3, <2>1, <2>3 DEF TypeOK, Claim
    <3>2. lock[claimed[v].id] = v /\ lock[r] = None
      BY <2>1, <3>1 DEF HoldsInv, Available
    <3> QED
      BY <2>1, <3>1, <3>2 DEF TypeOK
  <2> QED
    BY <2>2, <2>3
<1>4. ASSUME NEW w \in Workers, CompleteRow(w) \/ Rollback(w)
      PROVE  lock'[claimed'[v].id] = v
  <2>1. pc[v] = "processing" /\ claimed'[v] = claimed[v] /\ v # w /\ faults = 0
    BY <1>4 DEF TypeOK, CompleteRow, Rollback, Forget
  <2>2. lock[claimed[v].id] = v /\ claimed[v].id \in Rows
    BY <2>1, BusyRow DEF HoldsInv, Busy
  <2> QED
    BY <1>4, <2>1, <2>2, Zenon DEF CompleteRow, Rollback, Unlock
<1>5. ASSUME NEW w \in Workers, CommitFails(w) PROVE lock'[claimed'[v].id] = v
  BY <1>5 DEF TypeOK, HoldsInv, CommitFails, Forget
<1>6. ASSUME NEW w \in Workers, Finish(w) PROVE lock'[claimed'[v].id] = v
  BY <1>6, FinishIsMark DEF TypeOK, HoldsInv, Mark, Forget
<1>7. ASSUME NEW w \in Workers, Fault(w) PROVE FALSE
  <2>1. faults' = faults + 1 /\ faults \in Nat
    BY <1>7 DEF TypeOK, Fault, Crash, LoseConnection, LoseTransaction, MarkFails, Faulty
  <2> QED
    BY <2>1
<1>8. CASE UNCHANGED vars
  BY <1>8 DEF HoldsInv, vars
<1> QED
  BY <1>1, <1>2, <1>3, <1>4, <1>5, <1>6, <1>7, <1>8 DEF Next, WorkerStep

\* The handler loop advances one handler at a time.
LEMMA LoopStep == TypeOK /\ LoopInv /\ [Next]_vars => LoopInv'
<1> USE ConstantsAssumption
<1> SUFFICES ASSUME TypeOK, LoopInv, [Next]_vars PROVE LoopInv'
  OBVIOUS
<1>1. ASSUME NEW r \in Rows, Insert(r) \/ BackoffElapses(r) PROVE LoopInv'
  BY <1>1 DEF LoopInv, Insert, BackoffElapses, Busy
<1>2. ASSUME NEW w \in Workers, Listen(w) \/ NothingToClaim(w) \/ Wake(w) PROVE LoopInv'
  BY <1>2 DEF TypeOK, LoopInv, Listen, NothingToClaim, Wake, Busy
<1>3. ASSUME NEW w \in Workers, Claim(w) PROVE LoopInv'
  BY <1>3 DEF TypeOK, LoopInv, Claim, Busy
<1>4. ASSUME NEW w \in Workers, RunHandler(w) PROVE LoopInv'
  <2>1. HandlerCount[claimed[w].id] \in Nat /\ at[w] \in Nat
    BY <1>4, BusyRow DEF RunHandler, Busy
  <2>2. at'[w] \in 1 .. HandlerCount[claimed[w].id] + 1
    BY <1>4, <2>1 DEF TypeOK, RunHandler, Handlers
  <2> QED
    BY <1>4, <2>2 DEF TypeOK, LoopInv, RunHandler, Busy
<1>5. ASSUME NEW w \in Workers, Rollback(w) PROVE LoopInv'
  <2>1. HandlerCount[claimed[w].id] \in Nat /\ at[w] \in Nat
    BY <1>5, BusyRow DEF Rollback, Processed, Busy
  <2>2. at[w] = HandlerCount[claimed[w].id] + 1
    BY <1>5, <2>1 DEF LoopInv, Rollback, Processed, Busy
  <2> QED
    BY <1>5, <2>1, <2>2 DEF TypeOK, LoopInv, Rollback, Processed, Busy
<1>6. ASSUME NEW w \in Workers, CompleteRow(w) \/ CommitFails(w) \/ Crash(w) \/ MarkFails(w)
      PROVE LoopInv'
  BY <1>6 DEF TypeOK, LoopInv, CompleteRow, CommitFails, Crash, MarkFails, Forget, Busy
<1>7. ASSUME NEW w \in Workers, Finish(w) PROVE LoopInv'
  BY <1>7, FinishIsMark DEF TypeOK, LoopInv, Mark, Forget, Busy
<1>8. ASSUME NEW w \in Workers, LoseConnection(w) \/ LoseTransaction(w) PROVE LoopInv'
  BY <1>8 DEF TypeOK, LoopInv, LoseConnection, LoseTransaction, Busy
<1>9. CASE UNCHANGED vars
  BY <1>9 DEF LoopInv, vars, Busy
<1> QED
  BY <1>1, <1>2, <1>3, <1>4, <1>5, <1>6, <1>7, <1>8, <1>9 DEF Next, WorkerStep, Fault

\* A handler that returns nil is recorded; an error ends the claim that all the
\* handlers behind it succeeded.
LEMMA DoneStep == TypeOK /\ LoopInv /\ DoneInv /\ [Next]_vars => DoneInv'
<1> USE ConstantsAssumption
<1> SUFFICES ASSUME TypeOK, LoopInv, DoneInv, [Next]_vars PROVE DoneInv'
  OBVIOUS
<1>1. ASSUME NEW r \in Rows, Insert(r) \/ BackoffElapses(r) PROVE DoneInv'
  BY <1>1 DEF DoneInv, Insert, BackoffElapses
<1>2. ASSUME NEW w \in Workers, Listen(w) \/ NothingToClaim(w) \/ Wake(w) PROVE DoneInv'
  BY <1>2 DEF TypeOK, DoneInv, Listen, NothingToClaim, Wake
<1>3. ASSUME NEW w \in Workers, Claim(w) PROVE DoneInv'
  BY SMTT(30), <1>3 DEF TypeOK, DoneInv, Claim, Handlers
<1>4. ASSUME NEW w \in Workers, RunHandler(w) PROVE DoneInv'
  <2> DEFINE r == claimed[w].id
  <2>1. r \in Rows /\ at[w] \in Nat
    BY <1>4 DEF TypeOK, RunHandler, Busy, Snapshot
  <2>2. CASE done' = [done EXCEPT ![r] = @ \cup {at[w]}] /\ UNCHANGED errs
    <3>1. \A q \in Rows : done[q] \subseteq done'[q] /\ done'[q] \subseteq Handlers(q)
      BY <1>4, <2>1, <2>2 DEF TypeOK, DoneInv, RunHandler
    <3>2. at[w] \in done'[r]
      BY <2>1, <2>2 DEF TypeOK
    <3>3. ASSUME NEW v \in Workers, pc'[v] = "processing", errs'[v] = {},
                 NEW h \in Handlers(claimed'[v].id), h < at'[v]
          PROVE  h \in done'[claimed'[v].id]
      <4>1. claimed'[v] = claimed[v] /\ pc[v] = "processing" /\ errs[v] = {}
        BY <1>4, <2>2, <3>3 DEF RunHandler
      <4>2. claimed[v].id \in Rows
        BY <4>1 DEF TypeOK, Busy, Snapshot
      <4>3. CASE h < at[v]
        BY <3>1, <4>1, <4>2, <4>3, Zenon DEF DoneInv
      <4>4. CASE ~(h < at[v])
        <5>1. v = w
          BY <1>4, <3>3, <4>4 DEF TypeOK, RunHandler
        <5>2. h = at[w]
          BY <1>4, <2>1, <3>3, <4>4, <5>1 DEF TypeOK, RunHandler, Handlers
        <5> QED
          BY <3>2, <4>1, <5>1, <5>2
      <4> QED
        BY <4>3, <4>4
    <3> QED
      BY <3>1, <3>3 DEF DoneInv
  <2>3. CASE (\E err \in {"hard", "precondition"} : errs' = [errs EXCEPT ![w] = @ \cup {err}])
             /\ UNCHANGED done
    <3>1. errs'[w] # {}
      BY <2>3 DEF TypeOK
    <3>2. \A v \in Workers : v # w => errs'[v] = errs[v] /\ at'[v] = at[v]
      BY <1>4, <2>3 DEF TypeOK, RunHandler
    <3> QED
      BY <1>4, <2>3, <3>1, <3>2 DEF DoneInv, RunHandler
  <2> QED
    BY <1>4, <2>2, <2>3 DEF RunHandler
<1>5. ASSUME NEW w \in Workers,
             CompleteRow(w) \/ CommitFails(w) \/ Rollback(w) \/ Crash(w) \/ MarkFails(w)
      PROVE DoneInv'
  BY SMTT(30), <1>5 DEF TypeOK, DoneInv, CompleteRow, CommitFails, Rollback, Crash, MarkFails, Forget
<1>6. ASSUME NEW w \in Workers, Finish(w) PROVE DoneInv'
  BY <1>6, FinishIsMark DEF TypeOK, DoneInv, Mark, Forget
<1>7. ASSUME NEW w \in Workers, LoseConnection(w) \/ LoseTransaction(w) PROVE DoneInv'
  BY <1>7 DEF TypeOK, DoneInv, LoseConnection, LoseTransaction
<1>8. CASE UNCHANGED vars
  BY <1>8 DEF DoneInv, vars
<1> QED
  BY <1>1, <1>2, <1>3, <1>4, <1>5, <1>6, <1>7, <1>8 DEF Next, WorkerStep, Fault

\* What each marking statement does to the columns of a row.
LEMMA UpdateEffects ==
    ASSUME NEW row \in Row
    PROVE  /\ OutboxMarkProcessed(row).status = "completed"
           /\ OutboxMarkProcessed(row).retries = row.retries
           /\ OutboxMarkProcessed(row).deferrals = row.deferrals
           /\ OutboxMarkFailed(row).status = "failed"
           /\ OutboxMarkFailed(row).retries = row.retries
           /\ OutboxMarkFailed(row).deferrals = row.deferrals
           /\ OutboxMarkRetry(row).status = "retrying"
           /\ OutboxMarkRetry(row).retries = row.retries + 1
           /\ OutboxMarkRetry(row).deferrals = row.deferrals
           /\ OutboxDeferWithoutRetry(row).status = row.status
           /\ OutboxDeferWithoutRetry(row).retries = row.retries
           /\ OutboxDeferWithoutRetry(row).deferrals = row.deferrals + 1
           /\ row.retries \in Nat
           /\ row.deferrals \in Nat
  BY SMTT(30) DEF Row, OutboxMarkProcessed, OutboxMarkFailed, OutboxMarkRetry, OutboxDeferWithoutRetry

\* A marking step changes one row: it fails it, or adds one retry or deferral.
LEMMA FinishEffects ==
    ASSUME TypeOK, NEW w \in Workers, Finish(w)
    PROVE  LET r == claimed[w].id
           IN  /\ \A q \in Rows : q # r => rows'[q] = rows[q]
               /\ \/ /\ rows'[r].status = "failed"
                     /\ rows'[r].retries = rows[r].retries
                     /\ rows'[r].deferrals = rows[r].deferrals
                     /\ NonRetryable(w) \/ OutOfRetries(w)
                  \/ /\ rows'[r].status = "retrying"
                     /\ rows'[r].retries = rows[r].retries + 1
                     /\ rows'[r].deferrals = rows[r].deferrals
                     /\ ~OutOfRetries(w)
                  \/ /\ rows'[r].status = rows[r].status
                     /\ rows'[r].retries = rows[r].retries
                     /\ rows'[r].deferrals = rows[r].deferrals + 1
                     /\ claimed[w].deferrals + 1 <= MaxPreconditionDeferrals
<1> DEFINE r == claimed[w].id
<1>1. r \in Rows /\ pc[w] = "marking"
  BY FinishIsMark
<1>2. rows \in [Rows -> Row] /\ Current(w) = rows[r] /\ rows[r] \in Row
  BY <1>1 DEF TypeOK, Current
<1>3. claimed[w].deferrals \in Nat
  BY SMTT(30), <1>1, BusyRow DEF Busy
<1>4. CASE FailNonRetryable(w) \/ FailRow(w)
  BY SMTT(30), <1>1, <1>2, <1>4, UpdateEffects DEF FailNonRetryable, FailRow, Mark
<1>5. CASE RetryRow(w)
  BY SMTT(30), <1>1, <1>2, <1>5, UpdateEffects DEF RetryRow, Mark
<1>6. CASE DeferRow(w)
  <2>1. claimed[w].deferrals + 1 <= MaxPreconditionDeferrals
    BY SMTT(30), <1>3, <1>6, ConstantsAssumption DEF DeferRow, IsRowError
  <2> QED
    BY SMTT(30), <1>1, <1>2, <1>6, <2>1, UpdateEffects DEF DeferRow, Mark
<1> QED
  BY <1>4, <1>5, <1>6, Zenon DEF Finish

\* A step of one worker leaves what the others hold alone.
LEMMA WorkerFrame ==
    ASSUME TypeOK, NEW w \in Workers, WorkerStep(w) \/ Fault(w),
           NEW v \in Workers, v # w
    PROVE  pc'[v] = pc[v] /\ claimed'[v] = claimed[v] /\ at'[v] = at[v] /\ errs'[v] = errs[v]
<1>1. CASE Finish(w)
  BY <1>1, FinishIsMark DEF TypeOK, Mark, Forget
<1>2. CASE Claim(w)
  BY <1>2 DEF TypeOK, Claim
<1>3. CASE Listen(w) \/ NothingToClaim(w) \/ Wake(w) \/ Rollback(w)
  BY <1>3 DEF TypeOK, Listen, NothingToClaim, Wake, Rollback
<1>4. CASE RunHandler(w)
  BY <1>4 DEF TypeOK, RunHandler
<1>5. CASE CompleteRow(w) \/ CommitFails(w)
  BY <1>5 DEF TypeOK, CompleteRow, CommitFails, Forget
<1>6. CASE Fault(w)
  BY SMTT(30), <1>6 DEF TypeOK, Fault, Crash, LoseConnection, LoseTransaction, MarkFails, Forget
<1> QED
  BY <1>1, <1>2, <1>3, <1>4, <1>5, <1>6 DEF WorkerStep

\* Counters never shrink, and a row that exists stays.
LEMMA RowsGrow ==
    ASSUME TypeOK, PresentInv, [Next]_vars, NEW r \in Rows
    PROVE  /\ rows[r].retries <= rows'[r].retries
           /\ rows[r].deferrals <= rows'[r].deferrals
           /\ rows[r].status # "absent" => rows'[r].status # "absent"
           /\ rows'[r].status = "absent" => rows'[r] = NoRow
<1> DEFINE Grown ==
             /\ rows[r].retries <= rows'[r].retries
             /\ rows[r].deferrals <= rows'[r].deferrals
             /\ rows[r].status # "absent" => rows'[r].status # "absent"
             /\ rows'[r].status = "absent" => rows'[r] = NoRow
<1> SUFFICES Grown
  OBVIOUS
<1>0. rows[r] \in Row /\ rows[r].retries \in Nat /\ rows[r].deferrals \in Nat
  BY DEF TypeOK, Row
<1>1. CASE rows'[r] = rows[r]
  BY <1>0, <1>1 DEF PresentInv
<1>2. ASSUME NEW q \in Rows, Insert(q) PROVE Grown
  <2>1. CASE q = r
    <3>1. rows[r] = NoRow /\ rows'[r] = NewRow
      BY <1>2, <2>1 DEF TypeOK, PresentInv, Insert
    <3> QED
      BY <3>1 DEF NoRow, NewRow
  <2>2. CASE q # r
    BY <1>1, <1>2, <2>2 DEF TypeOK, Insert
  <2> QED
    BY <2>1, <2>2
<1>3. ASSUME NEW q \in Rows, BackoffElapses(q) PROVE Grown
  <2>1. CASE q = r
    <3>1. rows[r].status # "absent"
      BY <1>3, <2>1 DEF PresentInv, BackoffElapses, NoRow
    <3> QED
      BY <1>0, <1>3, <2>1, <3>1 DEF TypeOK, BackoffElapses, Row
  <2>2. CASE q # r
    BY <1>1, <1>3, <2>2 DEF TypeOK, BackoffElapses
  <2> QED
    BY <2>1, <2>2
<1>4. ASSUME NEW w \in Workers, CompleteRow(w) PROVE Grown
  <2>1. claimed[w].id \in Rows
    BY SMTT(30), <1>4, BusyRow DEF CompleteRow, Processed, Busy
  <2>2. rows' = [rows EXCEPT ![claimed[w].id] = OutboxMarkProcessed(rows[claimed[w].id])]
    BY <1>4 DEF CompleteRow
  <2>3. CASE claimed[w].id = r
    <3>1. rows'[r] = OutboxMarkProcessed(rows[r])
      BY <2>1, <2>2, <2>3 DEF TypeOK
    <3> QED
      BY <1>0, <3>1, UpdateEffects
  <2>4. CASE claimed[w].id # r
    BY <1>1, <2>2, <2>4 DEF TypeOK
  <2> QED
    BY SMTT(30), <2>3, <2>4
<1>5. ASSUME NEW w \in Workers, Finish(w) PROVE Grown
  <2>1. Busy(w)
    BY SMTT(30), <1>5, FinishIsMark DEF Busy
  <2>2. CASE claimed[w].id = r
    <3>1. rows[r].status # "absent"
      BY SMTT(30), <2>1, <2>2 DEF PresentInv
    <3> QED
      BY <1>0, <1>5, <2>2, <3>1, FinishEffects
  <2>3. CASE claimed[w].id # r
    BY <1>1, <1>5, <2>3, FinishEffects
  <2> QED
    BY <2>2, <2>3
<1>6. CASE UNCHANGED rows
  BY SMTT(30), <1>1, <1>6
<1>7. ASSUME NEW w \in Workers, WorkerStep(w) \/ Fault(w), ~CompleteRow(w), ~Finish(w)
      PROVE  UNCHANGED rows
  BY SMTT(30), <1>7 DEF WorkerStep, Fault, Listen, NothingToClaim, Wake, Claim, RunHandler, CommitFails,
              Rollback, Crash, LoseConnection, LoseTransaction, MarkFails
<1> QED
  BY SMTT(30), <1>2, <1>3, <1>4, <1>5, <1>6, <1>7 DEF Next, vars

\* A worker is busy because it was, with the same row, or because it just claimed.
LEMMA BusyStep ==
    ASSUME TypeOK, [Next]_vars, NEW v \in Workers, Busy(v)'
    PROVE  \/ Busy(v) /\ claimed'[v] = claimed[v]
           \/ Claim(v)
<1>1. ASSUME NEW r \in Rows, Insert(r) \/ BackoffElapses(r)
      PROVE  Busy(v) /\ claimed'[v] = claimed[v]
  BY <1>1 DEF Insert, BackoffElapses, Busy
<1>2. ASSUME NEW w \in Workers, WorkerStep(w) \/ Fault(w), v # w
      PROVE  Busy(v) /\ claimed'[v] = claimed[v]
  BY SMTT(30), <1>2, WorkerFrame DEF Busy
<1>3. CASE RunHandler(v) \/ Rollback(v) \/ LoseTransaction(v)
  BY <1>3 DEF RunHandler, Rollback, Processed, LoseTransaction, Busy
<1>4. CASE Listen(v) \/ NothingToClaim(v) \/ Wake(v) \/ LoseConnection(v)
  BY SMTT(30), <1>4 DEF TypeOK, Listen, NothingToClaim, Wake, LoseConnection, Busy
<1>5. CASE CompleteRow(v) \/ CommitFails(v) \/ Crash(v) \/ MarkFails(v)
  BY SMTT(30), <1>5 DEF TypeOK, CompleteRow, CommitFails, Crash, MarkFails, Busy
<1>6. CASE Finish(v)
  BY SMTT(30), <1>6, FinishIsMark DEF TypeOK, Mark, Busy
<1>7. CASE UNCHANGED vars
  BY <1>7 DEF vars, Busy
<1> QED
  BY <1>1, <1>2, <1>3, <1>4, <1>5, <1>6, <1>7, Zenon DEF Next, WorkerStep, Fault

\* A claim copies an existing row.
LEMMA ClaimCopies ==
    ASSUME TypeOK, NEW w \in Workers, Claim(w)
    PROVE  /\ claimed'[w].id \in Rows
           /\ rows[claimed'[w].id].status # "absent"
           /\ claimed'[w].retries = rows[claimed'[w].id].retries
           /\ claimed'[w].deferrals = rows[claimed'[w].id].deferrals
<1>1. PICK r \in Rows :
        /\ Available(r)
        /\ claimed' = [claimed EXCEPT ![w] =
             [id |-> r, retries |-> rows[r].retries, deferrals |-> rows[r].deferrals]]
  BY Zenon DEF Claim
<1> QED
  BY <1>1 DEF TypeOK, Available, Claimable, Active

\* Rows are never removed, and what is claimed exists.
LEMMA PresentStep == TypeOK /\ PresentInv /\ [Next]_vars => PresentInv'
<1> SUFFICES ASSUME TypeOK, PresentInv, [Next]_vars PROVE PresentInv'
  OBVIOUS
<1>1. ASSUME NEW v \in Workers, Busy(v)' PROVE rows'[claimed'[v].id].status # "absent"
  <2>1. claimed'[v].id \in Rows /\ rows[claimed'[v].id].status # "absent"
    BY SMTT(30), <1>1, BusyStep, BusyRow, ClaimCopies DEF PresentInv
  <2> QED
    BY <2>1, RowsGrow
<1>2. \A r \in Rows : rows'[r].status = "absent" => rows'[r] = NoRow
  BY RowsGrow
<1> QED
  BY <1>1, <1>2 DEF PresentInv

\* What a worker read when it claimed a row never runs ahead of the row.
LEMMA SnapshotStep == TypeOK /\ PresentInv /\ SnapshotInv /\ [Next]_vars => SnapshotInv'
<1> SUFFICES ASSUME TypeOK, PresentInv, SnapshotInv, [Next]_vars,
                    NEW v \in Workers, Busy(v)'
             PROVE  /\ claimed'[v].retries <= rows'[claimed'[v].id].retries
                    /\ claimed'[v].deferrals <= rows'[claimed'[v].id].deferrals
  BY DEF SnapshotInv
<1> DEFINE r == claimed'[v].id
<1>1. /\ r \in Rows /\ claimed'[v].retries \in Nat /\ claimed'[v].deferrals \in Nat
      /\ claimed'[v].retries <= rows[r].retries
      /\ claimed'[v].deferrals <= rows[r].deferrals
  <2>1. CASE Busy(v) /\ claimed'[v] = claimed[v]
    BY <2>1, BusyRow DEF SnapshotInv
  <2>2. CASE Claim(v)
    <3>1. r \in Rows /\ rows[r] \in Row
      BY <2>2, ClaimCopies DEF TypeOK
    <3>2. rows[r].retries \in Nat /\ rows[r].deferrals \in Nat
      BY <3>1 DEF Row
    <3> QED
      BY SMTT(30), <2>2, <3>1, <3>2, ClaimCopies
  <2> QED
    BY <2>1, <2>2, BusyStep
<1>2. rows[r].retries \in Nat /\ rows[r].deferrals \in Nat
  BY <1>1 DEF TypeOK, Row
<1>3. TypeOK'
  BY TypeStep
<1>4. rows'[r].retries \in Nat /\ rows'[r].deferrals \in Nat
  BY <1>1, <1>3 DEF TypeOK, Row
<1>5. rows[r].retries <= rows'[r].retries /\ rows[r].deferrals <= rows'[r].deferrals
  BY <1>1, RowsGrow
<1> HIDE DEF r
<1>6. /\ claimed'[v].retries <= rows'[r].retries
      /\ claimed'[v].deferrals <= rows'[r].deferrals
  BY SMTT(30), <1>1, <1>2, <1>4, <1>5
<1> QED
  BY <1>6 DEF r

\* Steps other than a handler run or a marking count nothing: they change no
\* counter and start no attempt.
LEMMA QuietStep ==
    ASSUME TypeOK, PresentInv, [Next]_vars,
           \A w \in Workers : ~RunHandler(w) /\ ~Finish(w),
           NEW r \in Rows, NEW h \in Handlers(r)
    PROVE  /\ rows'[r].retries = rows[r].retries
           /\ rows'[r].deferrals = rows[r].deferrals
           /\ TimesRun(r, h)' = TimesRun(r, h)
           /\ Attempting(r, h)' \subseteq Attempting(r, h)
<1> DEFINE Quiet == /\ rows'[r].retries = rows[r].retries
                    /\ rows'[r].deferrals = rows[r].deferrals
                    /\ runs' = runs
                    /\ Attempting(r, h)' \subseteq Attempting(r, h)
<1> SUFFICES Quiet
  BY DEF TimesRun
<1>0. h >= 1 /\ rows[r] \in Row
  BY ConstantsAssumption DEF Handlers, TypeOK
<1>1. ASSUME NEW q \in Rows, Insert(q) PROVE Quiet
  <2>1. rows'[r] = rows[r] \/ (rows[r] = NoRow /\ rows'[r] = NewRow)
    BY <1>1 DEF TypeOK, PresentInv, Insert
  <2>2. Attempting(r, h)' = Attempting(r, h) /\ runs' = runs
    BY <1>1 DEF Insert, Attempting, Busy
  <2> QED
    BY <2>1, <2>2 DEF NoRow, NewRow
<1>2. ASSUME NEW q \in Rows, BackoffElapses(q) PROVE Quiet
  <2>1. rows'[r].retries = rows[r].retries /\ rows'[r].deferrals = rows[r].deferrals
    BY SMTT(30), <1>0, <1>2 DEF TypeOK, BackoffElapses, Row
  <2> QED
    BY <1>2, <2>1 DEF BackoffElapses, Attempting, Busy
<1>3. ASSUME NEW w \in Workers, CompleteRow(w) PROVE Quiet
  <2>1. rows'[r] = rows[r] \/ rows'[r] = OutboxMarkProcessed(rows[r])
    BY <1>3 DEF TypeOK, CompleteRow
  <2>2. Attempting(r, h)' \subseteq Attempting(r, h)
    BY <1>3 DEF TypeOK, CompleteRow, Forget, Attempting, Busy
  <2> QED
    BY <1>0, <1>3, <2>1, <2>2, UpdateEffects DEF CompleteRow
<1>4. ASSUME NEW w \in Workers, CommitFails(w) \/ Crash(w) \/ MarkFails(w) PROVE Quiet
  BY <1>4 DEF TypeOK, CommitFails, Crash, MarkFails, Forget, Attempting, Busy
<1>5. ASSUME NEW w \in Workers, Claim(w) PROVE Quiet
  <2>1. at'[w] = 1
    BY SMTT(30), <1>5 DEF TypeOK, Claim
  <2>2. ASSUME NEW v \in Attempting(r, h)' PROVE v \in Attempting(r, h)
    <3>1. v \in Workers /\ at'[v] > h
      BY <2>2 DEF Attempting
    <3>2. v # w
      BY <1>0, <2>1, <3>1, ConstantsAssumption DEF Handlers
    <3> QED
      BY <1>5, <2>2, <3>1, <3>2, WorkerFrame DEF Attempting, Busy, WorkerStep
  <2> QED
    BY <1>5, <2>2 DEF Claim
<1>6. ASSUME NEW w \in Workers, Listen(w) \/ NothingToClaim(w) \/ Wake(w) \/ LoseConnection(w)
      PROVE Quiet
  BY <1>6 DEF TypeOK, Listen, NothingToClaim, Wake, LoseConnection, Attempting, Busy
<1>7. ASSUME NEW w \in Workers, Rollback(w) \/ LoseTransaction(w) PROVE Quiet
  BY SMTT(30), <1>7 DEF TypeOK, Rollback, Processed, LoseTransaction, Attempting, Busy
<1>8. CASE UNCHANGED vars
  BY <1>8 DEF vars, Attempting, Busy
<1> QED
  BY SMTT(30), <1>1, <1>2, <1>3, <1>4, <1>5, <1>6, <1>7, <1>8 DEF Next, WorkerStep, Fault

\* Attempts under way are finitely many.
LEMMA AttemptingFinite ==
    ASSUME NEW r, NEW h
    PROVE  IsFiniteSet(Attempting(r, h)) /\ Cardinality(Attempting(r, h)) \in Nat
<1>1. Attempting(r, h) \in SUBSET Workers
  BY DEF Attempting
<1> QED
  BY <1>1, FS_Subset, FS_CardinalityType, ConstantsAssumption

\* The numbers RunsInv speaks of.
LEMMA RunsTypes ==
    ASSUME TypeOK, NEW r \in Rows, NEW h \in Handlers(r)
    PROVE  /\ h \in 1 .. MaxFan
           /\ TimesRun(r, h) \in Nat
           /\ rows[r].retries \in Nat
           /\ rows[r].deferrals \in Nat
<1>1. HandlerCount[r] \in 0 .. MaxFan
  BY ConstantsAssumption
<1>2. h \in 1 .. MaxFan
  BY <1>1, ConstantsAssumption DEF Handlers
<1> DEFINE Pairs == Rows \X (1 .. MaxFan)
           rh == <<r, h>>
<1>3. runs \in [Pairs -> Nat] /\ rh \in Pairs
  BY <1>2 DEF TypeOK
<1>4. runs[rh] \in Nat
  <2> HIDE DEF Pairs, rh
  <2> QED
    BY <1>3
<1> QED
  BY <1>2, <1>4 DEF TypeOK, Row, TimesRun

\* A handler run pays for the attempt it starts.
LEMMA RunHandlerRuns ==
    ASSUME TypeOK, LoopInv, RunsInv, NEW w \in Workers, RunHandler(w),
           NEW r \in Rows, NEW h \in Handlers(r)
    PROVE  rows'[r].retries + rows'[r].deferrals + Cardinality(Attempting(r, h)') <= TimesRun(r, h)'
<1> DEFINE A == Attempting(r, h)
           B == Attempting(r, h)'
           Pairs == Rows \X (1 .. MaxFan)
           rh == <<r, h>>
           wh == <<claimed[w].id, at[w]>>
<1>1. /\ TimesRun(r, h) \in Nat /\ rows[r].retries \in Nat /\ rows[r].deferrals \in Nat
      /\ rows[r].retries + rows[r].deferrals + Cardinality(A) <= TimesRun(r, h)
  BY RunsTypes DEF RunsInv
<1>2. claimed[w].id \in Rows /\ at[w] \in Nat /\ at[w] \in Handlers(claimed[w].id) /\ h \in Nat
  BY BusyRow, RunsTypes, ConstantsAssumption DEF RunHandler, Busy
<1>3. runs \in [Pairs -> Nat] /\ rh \in Pairs /\ wh \in Pairs
  BY <1>2, RunsTypes DEF TypeOK
<1>4. runs' = [runs EXCEPT ![wh] = runs[wh] + 1] /\ rows' = rows
  BY DEF RunHandler
<1>5. at' = [at EXCEPT ![w] = at[w] + 1] /\ claimed' = claimed /\ pc' = pc
  BY DEF RunHandler
<1>6. IsFiniteSet(A) /\ Cardinality(A) \in Nat
  BY SMTT(30), AttemptingFinite
<1>7. CASE claimed[w].id = r /\ at[w] = h
  <2>1. B = A \cup {w} /\ w \notin A
    BY <1>2, <1>5, <1>7 DEF TypeOK, Attempting, Busy, RunHandler
  <2>2. Cardinality(B) = Cardinality(A) + 1
    BY <1>6, <2>1, FS_AddElement, Zenon
  <2>3. TimesRun(r, h)' = TimesRun(r, h) + 1
    <3>1. rh = wh
      BY <1>7
    <3>2. runs'[rh] = runs[rh] + 1
      <4> HIDE DEF Pairs, rh, wh
      <4> QED
        BY <1>3, <1>4, <3>1
    <3> QED
      BY <3>2 DEF TimesRun
  <2> QED
    BY SMTT(30), <1>1, <1>4, <1>6, <2>2, <2>3
<1>8. CASE ~(claimed[w].id = r /\ at[w] = h)
  <2>1. ASSUME NEW v \in Workers PROVE v \in B <=> v \in A
    <3>1. CASE v # w
      BY <1>5, <3>1 DEF TypeOK, Attempting, Busy
    <3>2. CASE v = w
      <4>1. claimed[w].id = r => (at[w] + 1 > h <=> at[w] > h)
        BY <1>2, <1>8
      <4> QED
        BY <1>5, <3>2, <4>1 DEF TypeOK, Attempting, Busy
    <3> QED
      BY <3>1, <3>2
  <2>2. B = A
    BY <2>1 DEF Attempting
  <2>3. TimesRun(r, h)' = TimesRun(r, h)
    <3>1. rh # wh
      BY <1>8
    <3>2. runs'[rh] = runs[rh]
      <4> HIDE DEF Pairs, rh, wh
      <4> QED
        BY <1>3, <1>4, <3>1
    <3> QED
      BY <3>2 DEF TimesRun
  <2> QED
    BY SMTT(30), <1>1, <1>4, <2>2, <2>3
<1> QED
  BY SMTT(30), <1>7, <1>8

\* A marking turns one attempt into at most one counted retry or deferral.
LEMMA FinishRuns ==
    ASSUME TypeOK, LoopInv, RunsInv, NEW w \in Workers, Finish(w),
           NEW r \in Rows, NEW h \in Handlers(r)
    PROVE  rows'[r].retries + rows'[r].deferrals + Cardinality(Attempting(r, h)') <= TimesRun(r, h)'
<1> DEFINE A == Attempting(r, h)
           B == Attempting(r, h)'
<1>1. /\ TimesRun(r, h) \in Nat /\ rows[r].retries \in Nat /\ rows[r].deferrals \in Nat
      /\ rows[r].retries + rows[r].deferrals + Cardinality(A) <= TimesRun(r, h)
  BY RunsTypes DEF RunsInv
<1>2. pc[w] = "marking" /\ \E row \in Row : Mark(w, row)
  BY FinishIsMark
<1>3. TimesRun(r, h)' = TimesRun(r, h)
  BY <1>2 DEF Mark, TimesRun
<1>4. IsFiniteSet(A) /\ Cardinality(A) \in Nat
  BY AttemptingFinite
<1>5. ASSUME NEW v \in Workers PROVE v \in B <=> v \in A /\ v # w
  <2>1. CASE v # w
    BY <2>1, WorkerFrame DEF WorkerStep, Attempting, Busy
  <2>2. CASE v = w
    <3>1. pc'[w] = "draining"
      BY <1>2 DEF TypeOK, Mark
    <3> QED
      BY <2>2, <3>1 DEF Attempting, Busy
  <2> QED
    BY <2>1, <2>2
<1>6. B = A \ {w}
  BY SMTT(30), <1>5 DEF Attempting
<1>7. CASE claimed[w].id = r
  <2>1. at[w] = HandlerCount[r] + 1
    BY <1>2, <1>7 DEF LoopInv, Busy
  <2>2. w \in A
    <3>1. HandlerCount[r] \in Nat /\ h <= HandlerCount[r] /\ h \in Nat
      BY <1>2, <1>7, BusyRow, ConstantsAssumption DEF Busy, Handlers
    <3>2. at[w] > h
      BY <2>1, <3>1
    <3> QED
      BY <1>2, <1>7, <3>2 DEF Attempting, Busy
  <2>3. Cardinality(B) = Cardinality(A) - 1
    BY <1>4, <1>6, <2>2, FS_RemoveElement, Zenon
  <2>4. rows'[r].retries + rows'[r].deferrals \in {rows[r].retries + rows[r].deferrals,
                                                   rows[r].retries + rows[r].deferrals + 1}
    <3>1. \/ /\ rows'[r].retries = rows[r].retries
             /\ rows'[r].deferrals = rows[r].deferrals
          \/ /\ rows'[r].retries = rows[r].retries + 1
             /\ rows'[r].deferrals = rows[r].deferrals
          \/ /\ rows'[r].retries = rows[r].retries
             /\ rows'[r].deferrals = rows[r].deferrals + 1
      BY <1>7, FinishEffects, Zenon
    <3> QED
      BY SMTT(30), <1>1, <3>1
  <2> QED
    BY <1>1, <1>3, <1>4, <2>3, <2>4
<1>8. CASE claimed[w].id # r
  <2>1. rows'[r] = rows[r]
    BY SMTT(30), <1>8, FinishEffects
  <2>2. B = A
    BY SMTT(30), <1>6, <1>8 DEF Attempting
  <2> QED
    BY <1>1, <1>3, <2>1, <2>2
<1> QED
  BY <1>7, <1>8

\* Every counted failure is paid for by a run of every handler.
LEMMA RunsStep == TypeOK /\ LoopInv /\ PresentInv /\ RunsInv /\ [Next]_vars => RunsInv'
<1> SUFFICES ASSUME TypeOK, LoopInv, PresentInv, RunsInv, [Next]_vars,
                    NEW r \in Rows, NEW h \in Handlers(r)
             PROVE  rows'[r].retries + rows'[r].deferrals + Cardinality(Attempting(r, h)')
                        <= TimesRun(r, h)'
  BY DEF RunsInv, Handlers
<1>1. CASE \E w \in Workers : RunHandler(w)
  BY <1>1, RunHandlerRuns
<1>2. CASE \E w \in Workers : Finish(w)
  BY SMTT(30), <1>2, FinishRuns
<1>3. CASE \A w \in Workers : ~RunHandler(w) /\ ~Finish(w)
  <2> DEFINE A == Attempting(r, h)
             B == Attempting(r, h)'
  <2>1. /\ TimesRun(r, h) \in Nat /\ rows[r].retries \in Nat /\ rows[r].deferrals \in Nat
        /\ rows[r].retries + rows[r].deferrals + Cardinality(A) <= TimesRun(r, h)
    BY RunsTypes DEF RunsInv
  <2>2. /\ rows'[r].retries = rows[r].retries
        /\ rows'[r].deferrals = rows[r].deferrals
        /\ TimesRun(r, h)' = TimesRun(r, h)
        /\ B \subseteq A
    BY <1>3, QuietStep
  <2>3. IsFiniteSet(A) /\ Cardinality(A) \in Nat
    BY AttemptingFinite
  <2>4. Cardinality(B) <= Cardinality(A) /\ Cardinality(B) \in Nat
    <3>1. B \in SUBSET A
      BY <2>2
    <3> HIDE DEF A, B
    <3> QED
      BY <2>3, <3>1, FS_Subset, FS_CardinalityType
  <2> QED
    BY <2>1, <2>2, <2>3, <2>4
<1> QED
  BY <1>1, <1>2, <1>3

-----------------------------------------------------------------------------
(* The properties themselves *)

\* What has been done is never undone.
LEMMA HistoryGrows ==
    ASSUME TypeOK, [Next]_vars, NEW r \in Rows
    PROVE  /\ done[r] \subseteq done'[r]
           /\ \A h \in Handlers(r) : TimesRun(r, h) <= TimesRun(r, h)'
<1>1. CASE \E w \in Workers : RunHandler(w)
  <2>1. PICK w \in Workers : RunHandler(w)
    BY <1>1
  <2>2. done[r] \subseteq done'[r]
    BY <2>1 DEF TypeOK, RunHandler
  <2>3. ASSUME NEW h \in Handlers(r) PROVE TimesRun(r, h) <= TimesRun(r, h)'
    <3> DEFINE Pairs == Rows \X (1 .. MaxFan)
               rh == <<r, h>>
               wh == <<claimed[w].id, at[w]>>
    <3>1. runs \in [Pairs -> Nat] /\ rh \in Pairs
      BY RunsTypes DEF TypeOK
    <3>2. runs' = [runs EXCEPT ![wh] = runs[wh] + 1]
      BY <2>1 DEF RunHandler
    <3>3. runs[rh] \in Nat /\ (runs'[rh] = runs[rh] \/ runs'[rh] = runs[rh] + 1)
      <4> HIDE DEF Pairs, rh, wh
      <4> QED
        BY <3>1, <3>2
    <3>4. runs[rh] <= runs'[rh]
      <4> HIDE DEF Pairs, rh, wh
      <4> QED
        BY <3>3
    <3> QED
      BY <3>4 DEF TimesRun
  <2> QED
    BY <2>2, <2>3
<1>2. CASE \A w \in Workers : ~RunHandler(w)
  <2>1. UNCHANGED <<done, runs>>
    <3>1. ASSUME NEW w \in Workers, Finish(w) PROVE UNCHANGED <<done, runs>>
      BY <3>1, FinishIsMark DEF Mark
    <3> QED
      BY SMTT(30), <1>2, <3>1 DEF Next, vars, WorkerStep, Fault, Insert, BackoffElapses, Listen,
           NothingToClaim, Wake, Claim, CompleteRow, CommitFails, Rollback, Crash,
           LoseConnection, LoseTransaction, MarkFails
  <2>2. \A h \in Handlers(r) : TimesRun(r, h)' = TimesRun(r, h) /\ TimesRun(r, h) \in Nat
    BY <2>1, RunsTypes DEF TimesRun
  <2> QED
    BY <2>1, <2>2
<1> QED
  BY <1>1, <1>2

\* A row turns completed in CompleteRow alone, and failed in Finish alone.
LEMMA StatusStep ==
    ASSUME TypeOK, [Next]_vars, NEW r \in Rows, rows'[r].status # rows[r].status
    PROVE  /\ rows'[r].status = "completed" =>
                  \E w \in Workers : CompleteRow(w) /\ claimed[w].id = r
           /\ rows'[r].status = "failed" =>
                  \E w \in Workers : Finish(w) /\ claimed[w].id = r
<1>0. rows[r] \in Row
  BY DEF TypeOK
<1>1. ASSUME NEW q \in Rows, Insert(q) PROVE rows'[r].status = "pending"
  BY <1>1 DEF TypeOK, Insert, NewRow
<1>2. ASSUME NEW q \in Rows, BackoffElapses(q) PROVE FALSE
  BY SMTT(30), <1>0, <1>2 DEF TypeOK, BackoffElapses, Row
<1>3. ASSUME NEW w \in Workers, CompleteRow(w)
      PROVE  claimed[w].id = r /\ rows'[r].status = "completed"
  <2>1. rows' = [rows EXCEPT ![claimed[w].id] = OutboxMarkProcessed(rows[claimed[w].id])]
    BY <1>3 DEF CompleteRow
  <2>2. claimed[w].id = r
    BY <2>1 DEF TypeOK
  <2>3. rows'[r] = OutboxMarkProcessed(rows[r])
    BY SMTT(30), <2>1, <2>2 DEF TypeOK
  <2> QED
    BY <1>0, <2>2, <2>3, UpdateEffects
<1>4. ASSUME NEW w \in Workers, Finish(w)
      PROVE  claimed[w].id = r /\ rows'[r].status # "completed"
  BY SMTT(30), <1>4, FinishEffects
<1>5. ASSUME NEW w \in Workers, WorkerStep(w) \/ Fault(w), ~CompleteRow(w), ~Finish(w)
      PROVE  FALSE
  BY SMTT(30), <1>5 DEF WorkerStep, Fault, Listen, NothingToClaim, Wake, Claim, RunHandler, CommitFails,
              Rollback, Crash, LoseConnection, LoseTransaction, MarkFails
<1>6. ~UNCHANGED vars
  BY SMTT(30) DEF vars
<1> QED
  BY SMTT(30), <1>1, <1>2, <1>3, <1>4, <1>5, <1>6 DEF Next

\* A row is completed by an attempt without errors, which ran all its handlers.
LEMMA CompletedStep ==
    TypeOK /\ LoopInv /\ DoneInv /\ CompletedMeansHandled /\ [Next]_vars
        => CompletedMeansHandled'
<1> SUFFICES ASSUME TypeOK, LoopInv, DoneInv, CompletedMeansHandled, [Next]_vars,
                    NEW r \in Rows, rows'[r].status = "completed"
             PROVE  done'[r] = Handlers(r)
  BY DEF CompletedMeansHandled, Handlers
<1>1. done[r] = Handlers(r)
  <2>1. CASE rows'[r].status = rows[r].status
    BY <2>1 DEF CompletedMeansHandled
  <2>2. CASE rows'[r].status # rows[r].status
    <3>1. PICK w \in Workers : CompleteRow(w) /\ claimed[w].id = r
      BY <2>2, StatusStep
    <3>2. HandlerCount[r] \in Nat /\ at[w] \in Nat /\ at[w] > HandlerCount[r]
      BY <3>1, BusyRow, Zenon DEF CompleteRow, Processed, Busy
    <3>3. \A h \in Handlers(r) : h < at[w]
      BY <3>2 DEF Handlers
    <3> QED
      BY <3>1, <3>3, Zenon DEF DoneInv, CompleteRow, Processed
  <2> QED
    BY <2>1, <2>2
<1>2. done[r] \subseteq done'[r]
  BY HistoryGrows
<1>3. DoneInv'
  BY DoneStep
<1> QED
  BY <1>1, <1>2, <1>3, Zenon DEF DoneInv, Handlers

\* A row is failed by an attempt that ran all its handlers once more than its
\* claimed retry count.
LEMMA FailedStep ==
    TypeOK /\ LoopInv /\ SnapshotInv /\ RunsInv /\ FailedOnlyAfterMaxAttempts /\ [Next]_vars
        => FailedOnlyAfterMaxAttempts'
<1> USE ConstantsAssumption
<1> SUFFICES ASSUME TypeOK, LoopInv, SnapshotInv, RunsInv, FailedOnlyAfterMaxAttempts,
                    [Next]_vars, NEW r \in Rows, rows'[r].status = "failed",
                    NEW h \in Handlers(r)
             PROVE  TimesRun(r, h)' >= MaxRetries
  BY SMTT(30) DEF FailedOnlyAfterMaxAttempts, Handlers
<1>1. TimesRun(r, h) >= MaxRetries
  <2>1. CASE rows'[r].status = rows[r].status
    BY <2>1 DEF FailedOnlyAfterMaxAttempts
  <2>2. CASE rows'[r].status # rows[r].status
    <3>1. PICK w \in Workers : Finish(w) /\ claimed[w].id = r
      BY SMTT(30), <2>2, StatusStep
    <3>2. pc[w] = "marking" /\ Busy(w)
      BY SMTT(30), <3>1, FinishIsMark DEF Busy
    <3>3. HandlerCount[r] \in Nat /\ claimed[w].retries \in Nat /\ h \in Nat /\ h <= HandlerCount[r]
      BY SMTT(30), <3>1, <3>2, BusyRow DEF Handlers
    <3>4. OutOfRetries(w)
      BY SMTT(30), <2>2, <3>1, <3>3, FinishEffects DEF NonRetryable, Handlers
    <3>5. at[w] = HandlerCount[r] + 1
      BY SMTT(30), <3>1, <3>2 DEF LoopInv
    <3>6. at[w] > h
      BY <3>3, <3>5
    <3>7. w \in Attempting(r, h)
      BY <3>1, <3>2, <3>6 DEF Attempting
    <3> DEFINE A == Attempting(r, h)
    <3>8. IsFiniteSet(A) /\ Cardinality(A) \in Nat
      BY AttemptingFinite
    <3>9. Cardinality(A) >= 1
      <4> HIDE DEF A
      <4> SUFFICES ASSUME Cardinality(A) = 0 PROVE FALSE
        BY <3>8
      <4>1. A = {}
        BY SMTT(30), <3>8, FS_EmptySet
      <4> QED
        BY <3>7, <4>1 DEF A
    <3>10. /\ TimesRun(r, h) \in Nat /\ rows[r].retries \in Nat /\ rows[r].deferrals \in Nat
           /\ rows[r].retries + rows[r].deferrals + Cardinality(A) <= TimesRun(r, h)
      BY SMTT(30), RunsTypes DEF RunsInv
    <3>11. claimed[w].retries <= rows[r].retries /\ claimed[w].retries + 1 >= MaxRetries
      BY <3>1, <3>2, <3>4 DEF SnapshotInv, OutOfRetries
    <3> QED
      BY <3>3, <3>8, <3>9, <3>10, <3>11
  <2> QED
    BY <2>1, <2>2
<1>2. TimesRun(r, h) <= TimesRun(r, h)' /\ TimesRun(r, h) \in Nat
  BY HistoryGrows, RunsTypes
<1>3. TimesRun(r, h)' \in Nat
  <2>1. TypeOK'
    BY TypeStep
  <2> DEFINE Pairs == Rows \X (1 .. MaxFan)
             rh == <<r, h>>
  <2>2. runs' \in [Pairs -> Nat] /\ rh \in Pairs
    BY <2>1, RunsTypes DEF TypeOK
  <2>3. runs'[rh] \in Nat
    <3> HIDE DEF Pairs, rh
    <3> QED
      BY <2>2
  <2> QED
    BY <2>3 DEF TimesRun
<1> QED
  BY SMTT(30), <1>1, <1>2, <1>3

\* The initial state satisfies the invariant.
LEMMA InitInv == Init => IInv
<1> SUFFICES ASSUME Init PROVE IInv
  OBVIOUS
<1>1. TypeOK
  BY InitTypeOK
<1>2. \A w \in Workers : ~Busy(w) /\ pc[w] = "down"
  BY DEF Init, Busy
<1>3. \A r \in Rows : rows[r] = NoRow /\ lock[r] = None /\ done[r] = {}
  BY SMTT(30) DEF Init
<1>4. LockedWhileProcessing /\ HoldsInv /\ LoopInv /\ DoneInv /\ PresentInv /\ SnapshotInv
  BY SMTT(30), <1>2, <1>3 DEF LockedWhileProcessing, HoldsInv, LoopInv, DoneInv, PresentInv, SnapshotInv
<1>5. CompletedMeansHandled /\ FailedOnlyAfterMaxAttempts
  BY <1>3 DEF CompletedMeansHandled, FailedOnlyAfterMaxAttempts, NoRow
<1>6. ASSUME NEW r \in Rows, NEW h \in Handlers(r)
      PROVE  rows[r].retries + rows[r].deferrals + Cardinality(Attempting(r, h)) <= TimesRun(r, h)
  <2>1. Attempting(r, h) = {}
    BY <1>2 DEF Attempting
  <2>2. Cardinality(Attempting(r, h)) = 0
    BY <2>1, FS_EmptySet
  <2>3. rows[r].retries = 0 /\ rows[r].deferrals = 0
    BY <1>3 DEF NoRow
  <2>4. TimesRun(r, h) \in Nat
    BY <1>1, RunsTypes
  <2> QED
    BY <2>2, <2>3, <2>4
<1> QED
  BY <1>1, <1>4, <1>5, <1>6 DEF IInv, RunsInv

\* The invariant is inductive.
LEMMA Inductive == IInv /\ [Next]_vars => IInv'
  BY TypeStep, LockStep, HoldsStep, LoopStep, DoneStep, PresentStep, SnapshotStep, RunsStep,
     CompletedStep, FailedStep DEF IInv

\* A lock never outlives the attempt that took it (claim and complete), for any
\* number of replicas.
THEOREM LockSafety == Spec => []LockedWhileProcessing
<1>1. IInv => LockedWhileProcessing
  BY DEF IInv
<1> QED
  BY <1>1, InitInv, Inductive, PTL DEF Spec

\* Without faults no two replicas run the handlers of one row at the same time
\* (OutboxGetAndLock), for any number of replicas.
THEOREM MutualExclusion == Spec => []ExclusiveProcessing
<1>1. IInv => ExclusiveProcessing
  BY DEF IInv, HoldsInv, ExclusiveProcessing
<1> QED
  BY <1>1, InitInv, Inductive, PTL DEF Spec

\* A completed row has been handled by all its handlers (process and complete),
\* for any number of rows, replicas, handlers, retries and faults.
THEOREM CompletionSafety == Spec => []CompletedMeansHandled
<1>1. IInv => CompletedMeansHandled
  BY DEF IInv
<1> QED
  BY <1>1, InitInv, Inductive, PTL DEF Spec

\* A row is given up only after MaxRetries runs of each of its handlers
\* (handleRowError), for any number of rows, replicas, handlers and faults.
THEOREM FailureSafety == Spec => []FailedOnlyAfterMaxAttempts
<1>1. IInv => FailedOnlyAfterMaxAttempts
  BY DEF IInv
<1> QED
  BY <1>1, InitInv, Inductive, PTL DEF Spec
=============================================================================
