------------------------- MODULE TransferQueueProofs -------------------------
(***************************************************************************)
(* Theorems about TransferQueue for every number of rows, goroutines,      *)
(* callers and host jobs, every retry budget and history limit.            *)
(***************************************************************************)
EXTENDS TransferQueueProperties, TLAPS

----------------------------------------------------------------------------
(* Type correctness, one lemma per group of variables. *)

WorkersOK == /\ worker \in [Workers -> WorkerType]
             /\ \A w \in Workers : Serving(w) => worker[w].row \in Items

\* Every step of a goroutine is a step of one that serves a row.
LEMMA TransferServes == ASSUME NEW w, Transfer(w) PROVE Serving(w)
  BY DEF Transfer, Serving, At, Watch, StageEnter, DownloadSome, DownloadDone,
         DownloadFails, AcquireSlot, BeginUpload, Push, AbortOwn, ForgetJob,
         CheckCancelled, Finishing, Complete, PersistComplete, RollBackComplete,
         RemoveOriginal, Failed, Settle, Exit, Discard, Release

\* A goroutine's program counter and locals keep their types, and the row it
\* serves is a row of the queue.
LEMMA WorkersTyped ==
  ASSUME WorkersOK, Next
  PROVE  WorkersOK'
<1> USE DEF WorkersOK, Serving
<1>a. ASSUME NEW w \in Workers, Serving(w), NEW p \in PCs, Goto(w, p) PROVE WorkersOK'
  BY <1>a DEF Goto, Put, WorkerType
<1>b. ASSUME NEW w \in Workers, Serving(w), NEW out \in Outcomes, FailWith(w, out) PROVE WorkersOK'
  BY <1>b DEF FailWith, Put, WorkerType, PCs
<1>c. ASSUME NEW w \in Workers, Serving(w), NEW p \in PCs, NEW j \in Jobs \cup {None},
             Put(w, [worker[w] EXCEPT !.pc = p, !.job = j]) PROVE WorkersOK'
  BY <1>c DEF Put, WorkerType
<1>d. ASSUME NEW w \in Workers, Serving(w), NEW p \in PCs, NEW d \in BOOLEAN,
             Put(w, [worker[w] EXCEPT !.pc = p, !.discard = d]) PROVE WorkersOK'
  BY <1>d DEF Put, WorkerType
<1>e. ASSUME NEW w \in Workers, Put(w, IdleWorker) PROVE WorkersOK'
  BY <1>e DEF Put, IdleWorker, WorkerType, PCs, Outcomes
<1>f. ASSUME NEW w \in Workers, Serving(w), NEW p \in PCs, NEW out \in Outcomes, NEW d \in BOOLEAN,
             \/ Put(w, [worker[w] EXCEPT !.pc = p, !.out = out, !.job = None])
             \/ Put(w, [worker[w] EXCEPT !.pc = p, !.out = out, !.discard = d])
      PROVE  WorkersOK'
  BY <1>f DEF Put, WorkerType
<1>g. ASSUME UNCHANGED worker PROVE WorkersOK'
  BY <1>g DEF WorkersOK
<1> HIDE DEF WorkersOK, Serving
<1>1. ASSUME NEW w \in Workers, Transfer(w) PROVE WorkersOK'
  <2>0. Serving(w) BY <1>1, TransferServes
  <2> USE <1>a, <2>0 DEF PCs
  <2>1. CASE Watch(w) BY <2>1 DEF Watch
  <2>2. CASE StageEnter(w) BY <2>2, <1>b DEF StageEnter, Outcomes
  <2>3. CASE DownloadSome(w) BY <2>3, <1>g DEF DownloadSome
  <2>4. CASE DownloadDone(w) BY <2>4 DEF DownloadDone
  <2>5. CASE DownloadFails(w) BY <2>5, <1>b DEF DownloadFails, Outcomes
  <2>6. CASE AcquireSlot(w) BY <2>6, <1>b DEF AcquireSlot, Outcomes
  <2>7. CASE BeginUpload(w) BY <2>7, <1>b, <1>c DEF BeginUpload, Outcomes
  <2>8. CASE Push(w) BY <2>8 DEF Push
  <2>9. CASE AbortOwn(w) BY <2>9, <1>f DEF AbortOwn, Outcomes
  <2>10. CASE ForgetJob(w) BY <2>10, <1>c DEF ForgetJob
  <2>11. CASE CheckCancelled(w) BY <2>11 DEF CheckCancelled
  <2>12. CASE Finishing(w) BY <2>12 DEF Finishing
  <2>13. CASE Complete(w) BY <2>13, <1>d DEF Complete
  <2>14. CASE PersistComplete(w) BY <2>14, <1>d DEF PersistComplete
  <2>15. CASE RollBackComplete(w) BY <2>15, <1>f DEF RollBackComplete, Outcomes
  <2>16. CASE RemoveOriginal(w) BY <2>16 DEF RemoveOriginal
  <2>17. CASE Failed(w) BY <2>17, <1>d DEF Failed
  <2>18. CASE Settle(w) BY <2>18 DEF Settle
  <2>19. CASE Exit(w) BY <2>19 DEF Exit
  <2>20. CASE Discard(w) BY <2>20 DEF Discard
  <2>21. CASE Release(w) BY <2>21, <1>e DEF Release
  <2> QED BY <1>1, <2>1, <2>2, <2>3, <2>4, <2>5, <2>6, <2>7, <2>8, <2>9, <2>10,
             <2>11, <2>12, <2>13, <2>14, <2>15, <2>16, <2>17, <2>18, <2>19, <2>20,
             <2>21 DEF Transfer
<1>2. ASSUME NEW w \in Workers, NEW i \in Items, Dispatch(w, i) PROVE WorkersOK'
  BY <1>2 DEF Dispatch, Put, IdleWorker, WorkerType, PCs, Outcomes, WorkersOK, Serving
<1>4. ASSUME NEW c \in Clients, Call(c) PROVE UNCHANGED worker
  BY <1>4 DEF Call, Cancel, Retry, DeleteStaged, ClearFinished, Prune, Cleanup
<1>5. ASSUME NEW c \in Clients, Serve(c) PROVE UNCHANGED worker
  BY <1>5 DEF Serve, CancelReap, Finish, ListDirs, Return, CancelDiscard, CancelInterrupt,
              RetryStale, RemoveDir, CleanupOne
<1>6. ASSUME NEW i \in Items, Enqueue(i) \/ ApplySettings(i) PROVE UNCHANGED worker
  BY <1>6 DEF Enqueue, ApplySettings
<1>7. CASE Shutdown \/ StopScheduler
  BY <1>7, <1>g DEF Shutdown, StopScheduler
<1> QED BY <1>1, <1>2, <1>4, <1>5, <1>6, <1>7, <1>g DEF Next

\* A row within its retry budget; what every step leaves of every row.
Budgeted(r) == r \in ItemType /\ (r.state \in {"new", "pending"} => r.attempts < MaxAttempts)


RowsOK == item \in [Items -> ItemType] /\ AttemptBudget

LEMMA RowsTyped ==
  ASSUME RowsOK, Next
  PROVE  RowsOK'
<1> USE DEF RowsOK
<1>a. \A i \in Items : Budgeted(item[i]) BY DEF AttemptBudget, Budgeted
<1>b. ASSUME NEW i, NEW r, i \in Items => Budgeted(r), item' = [item EXCEPT ![i] = r]
      PROVE  RowsOK'
  BY <1>a, <1>b DEF Budgeted, AttemptBudget
<1>c. ASSUME NEW i, NEW s \in Stages, SetStage(i, s) PROVE RowsOK'
  BY <1>c DEF SetStage, ItemType, AttemptBudget
<1>d. ASSUME NEW i, NEW j \in Jobs \cup {None}, item' = [item EXCEPT ![i].job = j]
      PROVE  RowsOK'
  BY <1>d DEF ItemType, AttemptBudget
<1>e. ASSUME UNCHANGED item PROVE RowsOK'
  BY <1>e DEF AttemptBudget
<1>f. ASSUME NEW i \in Items PROVE Budgeted(ResetForRetry(item[i]))
  <2>1. item[i] \in ItemType BY <1>a DEF Budgeted
  <2>z. 0 \in 0..MaxAttempts /\ 0 < MaxAttempts BY LimitsAssumption
  <2>2. ResetForRetry(item[i]) \in ItemType
    BY <2>1, <2>z DEF ResetForRetry, ItemType, States, Stages
  <2>3. ResetForRetry(item[i]).attempts = 0
    BY <2>1 DEF ResetForRetry, ItemType
  <2> QED BY <2>2, <2>3, <2>z DEF Budgeted
<1>g. ASSUME NEW i \in Items, NEW w \in Workers PROVE Budgeted(Settled(w, item[i]))
  <2>1. item[i] \in ItemType BY <1>a DEF Budgeted
  <2>2. ASSUME NEW charge \in BOOLEAN, charge => item[i].attempts < MaxAttempts
        PROVE  Budgeted(Requeued(item[i], charge))
    <3> DEFINE a == IF ~charge /\ item[i].attempts > 0 THEN item[i].attempts - 1
                    ELSE item[i].attempts
    <3>1. a \in 0..MaxAttempts /\ a < MaxAttempts
      BY <2>1, <2>2, LimitsAssumption DEF ItemType
    <3> HIDE DEF a
    <3>2. Budgeted([item[i] EXCEPT !.state = "pending", !.stage = "idle", !.job = None,
                                   !.attempts = a])
      BY <2>1, <3>1 DEF Budgeted, ItemType, States, Stages
    <3> QED BY <3>2 DEF Requeued, a
  <2>3. Budgeted([item[i] EXCEPT !.state = "failed", !.stage = "idle"])
    BY <2>1 DEF Budgeted, ItemType, States, Stages
  <2> QED BY <2>2, <2>3 DEF Settled
<1>z. item \in [Items -> ItemType] OBVIOUS
<1> HIDE DEF RowsOK
<1>1. ASSUME NEW w \in Workers, Transfer(w) PROVE RowsOK'
  <2>1. CASE Watch(w) \/ DownloadSome(w) \/ DownloadFails(w) \/ AcquireSlot(w)
             \/ Push(w) \/ CheckCancelled(w) \/ PersistComplete(w)
             \/ RemoveOriginal(w) \/ Failed(w) \/ Exit(w) \/ Discard(w) \/ Release(w)
    BY <2>1, <1>e DEF Watch, DownloadSome, DownloadFails, AcquireSlot, Push,
                CheckCancelled, PersistComplete, RemoveOriginal, Failed, Exit, Discard,
                Release, engine
  <2>2. CASE StageEnter(w) \/ DownloadDone(w) \/ Finishing(w)
    BY <2>2, <1>c, <1>e DEF StageEnter, DownloadDone, Finishing, Stages
  <2>3. CASE BeginUpload(w)
    <3>1. ASSUME NEW j \in Jobs, NEW i \in Items
          PROVE  Budgeted([item[i] EXCEPT !.stage = "uploading", !.job = j])
      BY <1>a DEF Budgeted, ItemType, Stages
    <3>2. ASSUME NEW s \in {item[worker[w].row].stage, "uploading"},
                 SetStage(worker[w].row, s)
          PROVE  RowsOK'
      <4>1. CASE worker[w].row \in Items
        BY <3>2, <4>1, <1>c, <1>z DEF ItemType, Stages
      <4>2. CASE worker[w].row \notin Items
        BY <3>2, <4>2, <1>e, <1>z DEF SetStage
      <4> QED BY <4>1, <4>2
    <3> QED BY <2>3, <1>b, <3>1, <3>2 DEF BeginUpload
  <2>4. CASE AbortOwn(w) BY <2>4, <1>d, <1>e DEF AbortOwn
  <2>5. CASE ForgetJob(w)
    <3> DEFINE i == worker[w].row
               j == IF item[i].job = worker[w].job THEN None ELSE item[i].job
    <3>1. item' = [item EXCEPT ![i].job = j] BY <2>5 DEF ForgetJob
    <3>2. CASE i \in Items
      <4>1. j \in Jobs \cup {None} BY <3>2, <1>z DEF ItemType
      <4> QED BY <3>1, <4>1, <1>d
    <3>3. CASE i \notin Items
      <4>1. UNCHANGED item BY <3>1, <3>3, <1>z
      <4> QED BY <4>1, <1>e
    <3> QED BY <3>2, <3>3
  <2>6. CASE Complete(w) \/ RollBackComplete(w)
    <3>1. ASSUME NEW i \in Items, NEW st \in {"complete", "running"}, NEW sg \in Stages
          PROVE  Budgeted([item[i] EXCEPT !.state = st, !.stage = sg])
      BY <1>a DEF Budgeted, ItemType, States
    <3>2. CASE Complete(w) BY <3>2, <3>1, <1>b, <1>e DEF Complete, Stages
    <3>3. CASE RollBackComplete(w) BY <3>3, <3>1, <1>b DEF RollBackComplete, Stages
    <3> QED BY <2>6, <3>2, <3>3
  <2>7. CASE Settle(w)
    <3> DEFINE i == worker[w].row
               r == IF Stopped(i) THEN item[i] ELSE Settled(w, item[i])
    <3>1. item' = [item EXCEPT ![i] = r] BY <2>7 DEF Settle
    <3>2. i \in Items => Budgeted(r) BY <1>a, <1>g
    <3> QED BY <3>1, <3>2, <1>b
  <2> QED BY <1>1, <2>1, <2>2, <2>3, <2>4, <2>5, <2>6, <2>7 DEF Transfer
<1>2. ASSUME NEW w \in Workers, NEW i \in Items, Dispatch(w, i) PROVE RowsOK'
  <2>1. item[i].attempts + 1 \in 0..MaxAttempts
    BY <1>2, <1>a, LimitsAssumption DEF Dispatch, Claimable, Budgeted, ItemType
  <2>2. Budgeted([item[i] EXCEPT !.state = "running", !.stage = "idle",
                                 !.attempts = item[i].attempts + 1])
    BY <1>a, <2>1 DEF Budgeted, ItemType, States, Stages
  <2> QED BY <1>2, <2>2, <1>b DEF Dispatch
<1>3. ASSUME NEW c \in Clients, Call(c) PROVE RowsOK'
  <2>1. ASSUME NEW ids, Cancel(c, ids) PROVE RowsOK'
    <3>1. ASSUME NEW i \in Items
          PROVE  Budgeted([item[i] EXCEPT !.state = "cancelled", !.stage = "idle"])
      BY <1>a DEF Budgeted, ItemType, States, Stages
    <3>2. PICK S : item' = [i \in Items |->
                     IF i \in S THEN [item[i] EXCEPT !.state = "cancelled", !.stage = "idle"]
                                ELSE item[i]]
      BY <2>1 DEF Cancel
    <3> QED BY <1>a, <3>1, <3>2 DEF Budgeted, AttemptBudget, RowsOK
  <2>2. ASSUME NEW ids, Retry(c, ids) PROVE RowsOK'
    <3>1. PICK S : item' = [i \in Items |-> IF i \in S THEN ResetForRetry(item[i])
                                                       ELSE item[i]]
      BY <2>2 DEF Retry
    <3> QED BY <1>a, <1>f, <3>1 DEF Budgeted, AttemptBudget, RowsOK
  <2>3. CASE Prune(c) \/ Cleanup(c) \/ \E ids : DeleteStaged(c, ids) \/ ClearFinished(c, ids)
    BY <2>3, <1>e DEF Prune, Cleanup, DeleteStaged, ClearFinished, engine
  <2> QED BY <1>3, <2>1, <2>2, <2>3 DEF Call
<1>4. ASSUME NEW c \in Clients, Serve(c) PROVE RowsOK'
  <2>1. CASE CancelReap(c) BY <2>1, <1>d, <1>e DEF CancelReap
  <2>2. ASSUME NEW i \in Items, RetryStale(c, i) PROVE RowsOK'
    <3>1. Budgeted([item[i] EXCEPT !.job = None])
      BY <1>a DEF Budgeted, ItemType
    <3>2. \/ item' = [item EXCEPT ![i] = IF runs[i] = None THEN ResetForRetry(@)
                                         ELSE [@ EXCEPT !.job = None]]
          \/ UNCHANGED item
      BY <2>2 DEF RetryStale
    <3>3. Budgeted(IF runs[i] = None THEN ResetForRetry(item[i])
                   ELSE [item[i] EXCEPT !.job = None])
      BY <3>1, <1>f
    <3> QED BY <3>2, <3>3, <1>b, <1>e
  <2>3. CASE \/ ListDirs(c) \/ Return(c)
             \/ \E i \in Items : \/ CancelDiscard(c, i) \/ CancelInterrupt(c, i)
                                 \/ RemoveDir(c, i) \/ CleanupOne(c, i)
    BY <2>3, <1>e DEF ListDirs, Return, CancelDiscard, CancelInterrupt, RemoveDir,
                      CleanupOne, engine
  <2> QED BY <1>4, <2>1, <2>2, <2>3 DEF Serve
<1>5. ASSUME NEW i \in Items, Enqueue(i) \/ ApplySettings(i) PROVE RowsOK'
  <2>1. ASSUME NEW s \in {"pending", "failed"}, item[i].state = "new"
        PROVE  Budgeted([item[i] EXCEPT !.state = s])
    BY <2>1, <1>a DEF Budgeted, ItemType, States
  <2>2. CASE Enqueue(i)
    <3>1. item[i].state = "new" BY <2>2 DEF Enqueue
    <3>2. PICK s \in {"pending", "failed"} : item' = [item EXCEPT ![i] = [@ EXCEPT !.state = s]]
      BY <2>2 DEF Enqueue
    <3> QED BY <3>1, <3>2, <2>1, <1>b
  <2>3. CASE ApplySettings(i) BY <2>3, <1>e DEF ApplySettings
  <2> QED BY <1>5, <2>2, <2>3
<1>6. CASE Shutdown \/ StopScheduler
  BY <1>6, <1>e DEF Shutdown, StopScheduler, engine
<1> QED BY <1>1, <1>2, <1>3, <1>4, <1>5, <1>6 DEF Next

EngineOK == /\ queue \subseteq Items
            /\ runs \in [Items -> Workers \cup {None}]
            /\ cancelRequested \subseteq Workers
            /\ interrupted \subseteq Workers
            /\ deleting \in [Items -> Nat]

\* Marks are counted up and down within Nat, and what the engine knows of runs
\* stays about goroutines and rows.
LEMMA EngineTyped ==
  ASSUME EngineOK, Next
  PROVE  EngineOK'
<1> USE DEF EngineOK
<1>a. ASSUME NEW S PROVE Mark(S) \in [Items -> Nat] /\ Unmark(S) \in [Items -> Nat]
  BY DEF Mark, Unmark
<1>b. ASSUME UNCHANGED <<queue, runs, cancelRequested, interrupted, deleting>>
      PROVE  EngineOK'
  BY <1>b
<1>1. ASSUME NEW w \in Workers, Transfer(w) PROVE EngineOK'
  <2>1. CASE \/ StageEnter(w) \/ DownloadSome(w) \/ DownloadDone(w) \/ DownloadFails(w)
             \/ AcquireSlot(w) \/ BeginUpload(w) \/ Push(w) \/ AbortOwn(w) \/ ForgetJob(w)
             \/ CheckCancelled(w) \/ Finishing(w) \/ RemoveOriginal(w) \/ Failed(w)
             \/ Exit(w) \/ Discard(w)
    <3> HIDE DEF EngineOK
    <3> QED BY <2>1, <1>b DEF StageEnter, DownloadSome, DownloadDone, DownloadFails,
              AcquireSlot, BeginUpload, Push, AbortOwn, ForgetJob, CheckCancelled,
              Finishing, RemoveOriginal, Failed, Exit, Discard, engine
  <2>2. CASE Watch(w) BY <2>2 DEF Watch
  <2>3. CASE Complete(w) BY <2>3, <1>a DEF Complete
  <2>4. CASE PersistComplete(w) BY <2>4, <1>a DEF PersistComplete
  <2>5. CASE RollBackComplete(w) BY <2>5, <1>a DEF RollBackComplete
  <2>6. CASE Settle(w) BY <2>6 DEF Settle
  <2>7. CASE Release(w) BY <2>7 DEF Release
  <2> QED BY <1>1, <2>1, <2>2, <2>3, <2>4, <2>5, <2>6, <2>7 DEF Transfer
<1>2. ASSUME NEW w \in Workers, NEW i \in Items, Dispatch(w, i) PROVE EngineOK'
  BY <1>2 DEF Dispatch
<1>3. ASSUME NEW c \in Clients, Call(c) PROVE EngineOK'
  <2>1. ASSUME NEW ids, Cancel(c, ids) PROVE EngineOK'
    <3>1. PICK S : deleting' = Mark(S) BY <2>1 DEF Cancel
    <3>2. PICK L : /\ L \subseteq {i \in Items : runs[i] # None}
                   /\ cancelRequested' = cancelRequested \cup {runs[i] : i \in L}
      BY <2>1 DEF Cancel
    <3>3. cancelRequested' \subseteq Workers BY <3>2
    <3> QED BY <2>1, <3>1, <3>3, <1>a DEF Cancel
  <2>2. ASSUME NEW ids, Retry(c, ids) \/ DeleteStaged(c, ids) \/ ClearFinished(c, ids)
        PROVE  EngineOK'
    BY <2>2, <1>a DEF Retry, DeleteStaged, ClearFinished
  <2>3. CASE Prune(c) \/ Cleanup(c) BY <2>3, <1>a DEF Prune, Cleanup, engine
  <2> QED BY <1>3, <2>1, <2>2, <2>3 DEF Call
<1>4. ASSUME NEW c \in Clients, Serve(c) PROVE EngineOK'
  <2>1. CASE CancelReap(c) \/ Return(c) \/ \E i \in Items : RetryStale(c, i)
    BY <2>1, <1>a DEF CancelReap, Return, RetryStale, Finish
  <2>2. ASSUME NEW i \in Items, CancelInterrupt(c, i) PROVE EngineOK'
    BY <2>2 DEF CancelInterrupt
  <2>3. CASE ListDirs(c) \/ \E i \in Items : \/ CancelDiscard(c, i) \/ RemoveDir(c, i)
                                             \/ CleanupOne(c, i)
    BY <2>3 DEF ListDirs, CancelDiscard, RemoveDir, CleanupOne, engine
  <2> QED BY <1>4, <2>1, <2>2, <2>3 DEF Serve
<1>5. ASSUME NEW i \in Items, Enqueue(i) \/ ApplySettings(i) PROVE EngineOK'
  BY <1>5 DEF Enqueue, ApplySettings
<1>6. CASE Shutdown \/ StopScheduler BY <1>6 DEF Shutdown, StopScheduler, engine
<1> QED BY <1>1, <1>2, <1>3, <1>4, <1>5, <1>6 DEF Next

CallsOK == client \in [Clients -> ClientType]

\* A call only ever works on rows of the queue.
LEMMA CallsTyped ==
  ASSUME CallsOK, EngineOK, Next
  PROVE  CallsOK'
<1>a. ASSUME NEW c \in Clients, NEW op \in Calls, NEW todo \in SUBSET Items,
             NEW held \in SUBSET Items, Begin(c, op, todo, held)
      PROVE  CallsOK'
  BY <1>a DEF CallsOK, Begin, ClientType
<1>b. ASSUME UNCHANGED client PROVE CallsOK'
  BY <1>b DEF CallsOK
<1>c. queue \in SUBSET Items BY DEF EngineOK
<1>d. \A c \in Clients : client[c].todo \in SUBSET Items BY DEF CallsOK, ClientType
<1>1. ASSUME NEW w \in Workers, Transfer(w) PROVE CallsOK'
  BY <1>1, <1>b DEF Transfer, Watch, StageEnter, DownloadSome, DownloadDone,
     DownloadFails, AcquireSlot, BeginUpload, Push, AbortOwn, ForgetJob, CheckCancelled,
     Finishing, Complete, PersistComplete, RollBackComplete, RemoveOriginal, Failed,
     Settle, Exit, Discard, Release
<1>2. ASSUME NEW c \in Clients, Call(c) PROVE CallsOK'
  <2> USE <1>2, <1>a, <1>c DEF Calls
  <2>1. ASSUME NEW ids \in SUBSET Items, Cancel(c, ids) PROVE CallsOK'
    <3>1. PICK todo \in SUBSET Items, held \in SUBSET Items : Begin(c, "cancel", todo, held)
      <4>1. ids \cap queue \in SUBSET Items OBVIOUS
      <4> QED BY <2>1, <4>1 DEF Cancel
    <3> QED BY <3>1
  <2>2. ASSUME NEW ids \in SUBSET Items, Retry(c, ids) PROVE CallsOK'
    BY <2>2 DEF Retry
  <2>3. ASSUME NEW ids \in SUBSET Items, DeleteStaged(c, ids) PROVE CallsOK'
    BY <2>3 DEF DeleteStaged
  <2>4. ASSUME NEW ids \in SUBSET Items, ClearFinished(c, ids) PROVE CallsOK'
    BY <2>4 DEF ClearFinished
  <2>5. CASE Prune(c) BY <2>5 DEF Prune
  <2>6. CASE Cleanup(c) BY <2>6 DEF Cleanup
  <2> QED BY <2>1, <2>2, <2>3, <2>4, <2>5, <2>6 DEF Call
<1>3. ASSUME NEW c \in Clients, Serve(c) PROVE CallsOK'
  <2>1. ASSUME NEW i, Finish(c, i) PROVE CallsOK'
    BY <2>1 DEF Finish, CallsOK, ClientType
  <2>2. CASE ListDirs(c) BY <2>2, <1>a, <1>d DEF ListDirs, Calls
  <2>3. CASE Return(c)
    BY <2>3 DEF Return, CallsOK, ClientType, IdleClient, Calls
  <2>4. ASSUME NEW i \in Items, \/ CancelDiscard(c, i) \/ CancelInterrupt(c, i)
                                \/ RemoveDir(c, i) \/ CleanupOne(c, i)
        PROVE  CallsOK'
    BY <2>4 DEF CancelDiscard, CancelInterrupt, RemoveDir, CleanupOne, CallsOK, ClientType
  <2>5. CASE CancelReap(c) BY <2>5, <2>1 DEF CancelReap
  <2>6. ASSUME NEW i \in Items, RetryStale(c, i) PROVE CallsOK'
    BY <2>6, <2>1 DEF RetryStale
  <2> QED BY <1>3, <2>2, <2>3, <2>4, <2>5, <2>6 DEF Serve
<1>4. ASSUME \/ \E w \in Workers, i \in Items : Dispatch(w, i)
             \/ \E i \in Items : Enqueue(i) \/ ApplySettings(i)
             \/ Shutdown \/ StopScheduler
      PROVE  CallsOK'
  BY <1>4, <1>b DEF Dispatch, Enqueue, ApplySettings, Shutdown, StopScheduler
<1> QED BY <1>1, <1>2, <1>3, <1>4 DEF Next

OutsideOK == /\ staged \in [Items -> {"none", "partial", "full"}]
             /\ upload \in [Jobs -> UploadType]
             /\ delivered \subseteq Items
             /\ toDelete \subseteq Items
             /\ original \subseteq Items
             /\ phase \in {"up", "draining", "down"}

\* Neither the staging area nor the host ever holds more than it can name.
LEMMA OutsideTyped ==
  ASSUME OutsideOK, WorkersOK, Next
  PROVE  OutsideOK'
<1> USE DEF OutsideOK
<1>a. ASSUME UNCHANGED <<outside, phase>> PROVE OutsideOK'
  BY <1>a DEF outside
<1>b. ASSUME NEW S PROVE Wipe(S) \in [Items -> {"none", "partial", "full"}]
  BY DEF Wipe
<1>c. ASSUME NEW j PROVE Abort(j) \in [Jobs -> UploadType]
  BY DEF Abort, UploadType
<1>d. ASSUME UNCHANGED <<staged, delivered, toDelete, original, phase>>,
             \/ UNCHANGED upload \/ \E j : upload' = Abort(j)
      PROVE  OutsideOK'
  BY <1>c, <1>d
<1>1. ASSUME NEW w \in Workers, Transfer(w) PROVE OutsideOK'
  <2>1. CASE \/ Watch(w) \/ StageEnter(w) \/ DownloadFails(w) \/ AcquireSlot(w)
             \/ ForgetJob(w) \/ CheckCancelled(w) \/ Finishing(w) \/ Complete(w)
             \/ RollBackComplete(w) \/ Failed(w) \/ Exit(w) \/ Release(w)
    <3> HIDE DEF OutsideOK
    <3> QED BY <2>1, <1>a DEF Watch, StageEnter, DownloadFails, AcquireSlot, ForgetJob,
              CheckCancelled, Finishing, Complete, RollBackComplete, Failed, Exit, Release
  <2>2. CASE DownloadSome(w) \/ DownloadDone(w) \/ Discard(w)
    BY <2>2 DEF DownloadSome, DownloadDone, Discard
  <2>3. CASE BeginUpload(w)
    <3>1. worker[w].row \in Items
      BY <1>1, TransferServes DEF WorkersOK
    <3>2. ASSUME NEW j \in Jobs
          PROVE  [upload EXCEPT ![j] = [st |-> "open", row |-> worker[w].row]]
                   \in [Jobs -> UploadType]
      BY <3>1 DEF UploadType
    <3>3. upload' \in [Jobs -> UploadType]
      BY <2>3, <3>2 DEF BeginUpload
    <3> QED BY <2>3, <3>3 DEF BeginUpload
  <2>4. CASE Push(w)
    <3>1. worker[w].row \in Items
      BY <1>1, TransferServes DEF WorkersOK
    <3>2. [upload EXCEPT ![worker[w].job].st = "committed"] \in [Jobs -> UploadType]
      BY DEF UploadType
    <3> QED BY <2>4, <3>1, <3>2 DEF Push
  <2>5. CASE AbortOwn(w)
    BY <2>5, <1>d DEF AbortOwn
  <2>6. CASE PersistComplete(w) BY <2>6, <1>b DEF PersistComplete
  <2>7. CASE RemoveOriginal(w) BY <2>7 DEF RemoveOriginal
  <2>8. CASE Settle(w) BY <2>8, <1>b DEF Settle
  <2> QED BY <1>1, <2>1, <2>2, <2>3, <2>4, <2>5, <2>6, <2>7, <2>8 DEF Transfer
<1>2. ASSUME NEW c \in Clients, Call(c) PROVE OutsideOK'
  BY <1>2, <1>a DEF Call, Cancel, Retry, DeleteStaged, ClearFinished, Prune, Cleanup
<1>3. ASSUME NEW c \in Clients, Serve(c) PROVE OutsideOK'
  <2>1. CASE CancelReap(c) BY <2>1, <1>d DEF CancelReap
  <2>2. ASSUME NEW i \in Items, RetryStale(c, i) PROVE OutsideOK'
    BY <2>2, <1>d DEF RetryStale
  <2>3. CASE ListDirs(c) \/ Return(c) \/ \E i \in Items : CancelInterrupt(c, i)
    BY <2>3, <1>a DEF ListDirs, Return, CancelInterrupt
  <2>4. ASSUME NEW i \in Items, CancelDiscard(c, i) \/ RemoveDir(c, i) \/ CleanupOne(c, i)
        PROVE  OutsideOK'
    BY <2>4 DEF CancelDiscard, RemoveDir, CleanupOne
  <2> QED BY <1>3, <2>1, <2>2, <2>3, <2>4 DEF Serve
<1>4. ASSUME \/ \E w \in Workers, i \in Items : Dispatch(w, i)
             \/ \E i \in Items : Enqueue(i) \/ ApplySettings(i)
      PROVE  OutsideOK'
  BY <1>4, <1>a DEF Dispatch, Enqueue, ApplySettings
<1>5. CASE Shutdown \/ StopScheduler
  BY <1>5 DEF Shutdown, StopScheduler, outside
<1> QED BY <1>1, <1>2, <1>3, <1>4, <1>5 DEF Next

TypedInv == RowsOK /\ WorkersOK /\ EngineOK /\ CallsOK /\ OutsideOK

LEMMA TypedInit == Init => TypedInv
<1> SUFFICES ASSUME Init PROVE TypedInv OBVIOUS
<1>1. PICK left \in (Items \ NewItems) \cup {None}, kept \in SUBSET (Items \ NewItems),
           j \in Jobs : Loaded(left, kept, j)
  BY DEF Init
<1>2. 0 \in 0..MaxAttempts /\ 1 \in 0..MaxAttempts /\ MaxAttempts \in 0..MaxAttempts
      /\ 0 < MaxAttempts
  BY LimitsAssumption
<1>3. \A i \in Items : Budgeted(item[i])
  BY <1>1, <1>2 DEF Loaded, Budgeted, Row, ItemType, States, Stages
<1>4. RowsOK BY <1>1, <1>3 DEF Loaded, RowsOK, Budgeted, AttemptBudget
<1>5. WorkersOK BY DEF Init, WorkersOK, IdleWorker, WorkerType, PCs, Outcomes, Serving
<1>6. EngineOK BY SubsetAssumption DEF Init, EngineOK
<1>7. CallsOK BY DEF Init, CallsOK, IdleClient, ClientType, Calls
<1>8. OutsideOK BY <1>1, SubsetAssumption DEF Init, Loaded, OutsideOK, UploadType
<1> QED BY <1>4, <1>5, <1>6, <1>7, <1>8 DEF TypedInv

LEMMA TypedStep == TypedInv /\ [Next]_vars => TypedInv'
<1>1. ASSUME TypedInv, Next PROVE TypedInv'
  BY <1>1, RowsTyped, WorkersTyped, EngineTyped, CallsTyped, OutsideTyped DEF TypedInv
<1>2. ASSUME TypedInv, UNCHANGED vars PROVE TypedInv'
  BY <1>2 DEF TypedInv, RowsOK, AttemptBudget, WorkersOK, Serving, EngineOK, CallsOK,
              OutsideOK, vars, engine, outside
<1> QED BY <1>1, <1>2

\* Every variable keeps its type in every reachable state.
THEOREM TypeCorrect == Spec => []TypeOK
<1>1. TypedInv => TypeOK
  BY DEF TypedInv, RowsOK, WorkersOK, EngineOK, CallsOK, OutsideOK, TypeOK
<1> QED BY <1>1, TypedInit, TypedStep, PTL DEF Spec

\* Whatever is retried, requeued and given back, a row that waits has an attempt
\* left, for every budget.
THEOREM BudgetKept == Spec => []AttemptBudget
<1>1. TypedInv => AttemptBudget BY DEF TypedInv, RowsOK
<1> QED BY <1>1, TypedInit, TypedStep, PTL DEF Spec

----------------------------------------------------------------------------
(* The one row a goroutine's step touches, and how. *)

Control == OneWriter /\ RowFollowsWorker /\ RunningIsServed

\* w goes on serving its row, which keeps its state, ends the attempt or takes a
\* completion back.
Continues(w) ==
  LET i == worker[w].row IN
  /\ runs' = runs /\ cancelRequested' = cancelRequested
  /\ Serving(w)' /\ worker'[w].row = i /\ Fits(w)'
  /\ \/ item'[i].state = item[i].state
     \/ item[i].state = "running" /\ item'[i].state \in {"pending", "failed", "complete"}
     \/ item[i].state = "complete" /\ item'[i].state = "running"

\* w lets go of a row that has an outcome.
Leaves(w) ==
  LET i == worker[w].row IN
  /\ runs' = [runs EXCEPT ![i] = None] /\ cancelRequested' = cancelRequested \ {w}
  /\ worker'[w].pc = "idle" /\ item' = item /\ item[i].state # "running"

TouchesOwnRow(w) ==
  /\ \A k \in Items \ {worker[w].row} : item'[k] = item[k]
  /\ \A x \in Workers \ {w} : worker'[x] = worker[x]
  /\ queue' \subseteq queue

LEMMA TransferEffect ==
  ASSUME TypedInv, Control, NEW w \in Workers, Transfer(w)
  PROVE  TouchesOwnRow(w) /\ (Continues(w) \/ Leaves(w))
<1> DEFINE i == worker[w].row
           s == item[i].state
<1>1. i \in Items /\ item \in [Items -> ItemType] /\ worker \in [Workers -> WorkerType]
  BY TransferServes DEF TypedInv, RowsOK, WorkersOK
<1>2. runs[i] = w /\ Serving(w) /\ Fits(w)
  BY <1>1, TransferServes DEF Control, OneWriter, RowFollowsWorker
<1>i. (StoppedByCancel(w) => s = "cancelled") /\ (~Stopped(i) => w \notin cancelRequested)
  BY <1>1, <1>2, NoneAssumption DEF StoppedByCancel, CancellationRequested, Stopped, Fits
<1>a. ASSUME NEW p \in PCs \ {"idle"}, UNCHANGED <<runs, cancelRequested>>,
             worker'[w].pc = p, worker'[w].row = i, item'[i].state = s,
             p \in {"persist", "remove"} => s = "complete",
             p \in {"exit", "discard", "release"} => s # "running",
             p \in Working => s \in {"running", "cancelled"}
      PROVE  Continues(w)
  BY <1>a, <1>1, <1>2 DEF Continues, Fits, Serving
<1> DEFINE Lands(p) == /\ worker'[w].pc = p /\ worker'[w].row = i
                       /\ \A x \in Workers \ {w} : worker'[x] = worker[x]
           Elsewhere == \A k \in Items \ {i} : item'[k] = item[k]
           Kept == item'[i].state = s /\ Elsewhere
<1>c. ASSUME NEW p, Goto(w, p) PROVE Lands(p)
  BY <1>c, <1>1 DEF Goto, Put, WorkerType
<1>d. ASSUME NEW out, FailWith(w, out) PROVE Lands("failed")
  BY <1>d, <1>1 DEF FailWith, Put, WorkerType
<1>e. ASSUME NEW p, NEW v, NEW u,
             \/ Put(w, [worker[w] EXCEPT !.pc = p, !.job = v])
             \/ Put(w, [worker[w] EXCEPT !.pc = p, !.discard = v])
             \/ Put(w, [worker[w] EXCEPT !.pc = p, !.out = u, !.job = v])
             \/ Put(w, [worker[w] EXCEPT !.pc = p, !.out = u, !.discard = v])
      PROVE  Lands(p)
  <2> DEFINE W == worker[w]
  <2>1. W \in WorkerType BY <1>1
  <2>2. ASSUME NEW r, Put(w, r), r.pc = p, r.row = W.row PROVE Lands(p)
    BY <2>2, <1>1 DEF Put
  <2> HIDE DEF W, Lands
  <2>3. /\ [W EXCEPT !.pc = p, !.job = v].pc = p /\ [W EXCEPT !.pc = p, !.job = v].row = W.row
        /\ [W EXCEPT !.pc = p, !.discard = v].pc = p
        /\ [W EXCEPT !.pc = p, !.discard = v].row = W.row
        /\ [W EXCEPT !.pc = p, !.out = u, !.job = v].pc = p
        /\ [W EXCEPT !.pc = p, !.out = u, !.job = v].row = W.row
        /\ [W EXCEPT !.pc = p, !.out = u, !.discard = v].pc = p
        /\ [W EXCEPT !.pc = p, !.out = u, !.discard = v].row = W.row
    BY <2>1 DEF WorkerType
  <2> QED BY <1>e, <2>2, <2>3 DEF W
<1>f. ASSUME NEW g, SetStage(i, g) PROVE Kept
  BY <1>f, <1>1 DEF SetStage, ItemType
<1>g. ASSUME NEW st, NEW g, item' = [item EXCEPT ![i] = [@ EXCEPT !.state = st, !.stage = g]]
      PROVE  item'[i].state = st /\ Elsewhere
  BY <1>g, <1>1 DEF ItemType
<1>h. ASSUME worker[w].pc \in Working PROVE s \in {"running", "cancelled"}
  BY <1>h, <1>2 DEF Fits
<1>j. ASSUME NEW p \in PCs \ {"idle"}, UNCHANGED <<runs, cancelRequested>>, Lands(p), Kept,
             queue' \subseteq queue,
             p \in {"persist", "remove"} => s = "complete",
             p \in {"exit", "discard", "release"} => s # "running",
             p \in Working => s \in {"running", "cancelled"}
      PROVE  TouchesOwnRow(w) /\ Continues(w)
  BY <1>j, <1>a DEF TouchesOwnRow
<1>k. ASSUME UNCHANGED item PROVE Kept
  BY <1>k DEF Kept, Elsewhere, s
<1> HIDE DEF i, s, Lands, Elsewhere, Kept
<1>3. CASE Watch(w) \/ DownloadFails(w) \/ AcquireSlot(w) \/ Push(w)
  BY <1>3, <1>j, <1>c, <1>d, <1>h, <1>k
  DEF Watch, DownloadFails, AcquireSlot, Push, At, PCs, Working, engine
<1>4. CASE DownloadSome(w)
  BY <1>4, <1>1, <1>2, <1>h DEF DownloadSome, At, Working, PCs, TouchesOwnRow, Continues, Fits,
     Serving, engine
<1>5. CASE StageEnter(w) \/ DownloadDone(w) \/ Finishing(w)
  BY <1>5, <1>j, <1>c, <1>d, <1>f, <1>h, <1>k
  DEF StageEnter, DownloadDone, Finishing, At, PCs, Working, i
<1>6. CASE BeginUpload(w)
  <2>1. ASSUME NEW j, item' = [item EXCEPT ![i] = [@ EXCEPT !.stage = "uploading", !.job = j]]
        PROVE  Kept
    BY <2>1, <1>1 DEF ItemType, Kept, Elsewhere, i, s
  <2>2. At(w, "begin") /\ UNCHANGED <<queue, runs, cancelRequested>>
    BY <1>6 DEF BeginUpload
  <2>3. (Kept /\ Lands("push")) \/ (Kept /\ Lands("failed"))
    BY <1>6, <2>1, <1>e, <1>d, <1>f DEF BeginUpload, i
  <2> QED BY <2>2, <2>3, <1>j, <1>h DEF At, PCs, Working
<1>7. CASE AbortOwn(w) \/ ForgetJob(w)
  <2>1. Kept
    BY <1>7, <1>1 DEF AbortOwn, ForgetJob, ItemType, Kept, Elsewhere, i, s
  <2>2. Lands("failed") \/ Lands("check")
    BY <1>7, <1>e DEF AbortOwn, ForgetJob
  <2>3. UNCHANGED <<queue, runs, cancelRequested>> /\ s \in {"running", "cancelled"}
    BY <1>7, <1>h DEF AbortOwn, ForgetJob, At, Working, PCs
  <2> QED BY <2>1, <2>2, <2>3, <1>j DEF PCs
<1>8. CASE CheckCancelled(w) \/ Failed(w)
  <2>1. Kept /\ UNCHANGED <<queue, runs, cancelRequested>> /\ s \in {"running", "cancelled"}
    BY <1>8, <1>h, <1>k DEF CheckCancelled, Failed, At, Working, PCs, engine
  <2>2. (Lands("exit") /\ StoppedByCancel(w)) \/ Lands("finishing") \/ Lands("settle")
    BY <1>8, <1>c, <1>e DEF CheckCancelled, Failed
  <2> QED BY <2>1, <2>2, <1>i, <1>j DEF PCs
<1>9. CASE Complete(w)
  <2>1. UNCHANGED <<queue, runs, cancelRequested>> /\ s \in {"running", "cancelled"}
    BY <1>9, <1>h DEF Complete, At, Working, PCs
  <2>2. CASE Stopped(i)
    <3>1. Kept /\ Lands("exit") BY <1>9, <2>2, <1>e, <1>k DEF Complete, i
    <3>2. s = "cancelled"
      BY <2>2, <1>i DEF Stopped, StoppedByCancel, i, s
    <3> QED BY <2>1, <3>1, <3>2, <1>j DEF PCs
  <2>3. CASE ~Stopped(i)
    <3>1. Lands("persist") /\ item'[i].state = "complete" /\ Elsewhere
      BY <1>9, <2>3, <1>c, <1>g DEF Complete, i
    <3>2. s = "running" /\ w \notin cancelRequested
      BY <2>1, <2>3, <1>i DEF Stopped, i, s
    <3> QED BY <2>1, <3>1, <3>2, <1>1
        DEF Lands, Elsewhere, TouchesOwnRow, Continues, Fits, Serving, Working, i, s
  <2> QED BY <2>2, <2>3
<1>10. CASE PersistComplete(w) \/ RemoveOriginal(w)
  <2>1. Kept /\ s = "complete" /\ queue' \subseteq queue /\ UNCHANGED <<runs, cancelRequested>>
    BY <1>10, <1>k, <1>2 DEF PersistComplete, RemoveOriginal, At, Fits, engine, i, s
  <2>2. Lands("remove") \/ Lands("exit")
    BY <1>10, <1>c, <1>e DEF PersistComplete, RemoveOriginal
  <2> QED BY <2>1, <2>2, <1>j DEF PCs, Working
<1>11. CASE RollBackComplete(w)
  <2>1. s = "complete" /\ w \notin cancelRequested /\ UNCHANGED <<queue, runs, cancelRequested>>
    BY <1>11, <1>2 DEF RollBackComplete, At, Fits, i, s
  <2>2. Lands("settle") /\ item'[i].state = "running" /\ Elsewhere
    BY <1>11, <1>e, <1>g DEF RollBackComplete, i
  <2> QED BY <2>1, <2>2, <1>1
      DEF Lands, Elsewhere, TouchesOwnRow, Continues, Fits, Serving, Working, i, s
<1>12. CASE Settle(w)
  <2>1. /\ queue' \subseteq queue /\ UNCHANGED <<runs, cancelRequested>>
        /\ s \in {"running", "cancelled"} /\ Lands("exit")
    BY <1>12, <1>h, <1>c DEF Settle, At, Working, PCs
  <2>2. CASE Stopped(i)
    <3>1. Kept BY <1>12, <2>2, <1>1 DEF Settle, Kept, Elsewhere, i, s
    <3>2. s = "cancelled"
      BY <2>2, <1>i DEF Stopped, StoppedByCancel, i, s
    <3> QED BY <2>1, <3>1, <3>2, <1>j DEF PCs, Working
  <2>3. CASE ~Stopped(i)
    <3>1. s = "running" /\ w \notin cancelRequested
      BY <2>1, <2>3, <1>i DEF Stopped, i, s
    <3>2. item' = [item EXCEPT ![i] = Settled(w, item[i])]
      BY <1>12, <2>3 DEF Settle, i
    <3>3. Settled(w, item[i]).state \in {"pending", "failed"}
      BY <1>1 DEF Settled, Requeued, ItemType, i
    <3>4. item'[i].state \in {"pending", "failed"} /\ Elsewhere
      BY <3>2, <3>3, <1>1 DEF Elsewhere, i
    <3> QED BY <2>1, <3>1, <3>4, <1>1
        DEF Lands, Elsewhere, TouchesOwnRow, Continues, Fits, Serving, Working, i, s
  <2> QED BY <2>2, <2>3
<1>13. CASE Exit(w) \/ Discard(w)
  <2>1. Kept /\ s # "running" /\ UNCHANGED <<queue, runs, cancelRequested>>
    BY <1>13, <1>k, <1>2 DEF Exit, Discard, At, Fits, engine, i, s
  <2>2. Lands("discard") \/ Lands("release")
    BY <1>13, <1>c DEF Exit, Discard
  <2> QED BY <2>1, <2>2, <1>j DEF PCs, Working
<1>14. CASE Release(w)
  <2>1. s # "running" BY <1>14, <1>2 DEF Release, At, Fits, i, s
  <2>2. worker' = [worker EXCEPT ![w] = IdleWorker] BY <1>14 DEF Release, Put
  <2> QED BY <1>14, <1>1, <1>2, <2>1, <2>2
      DEF Release, TouchesOwnRow, Leaves, IdleWorker, i, s
<1> QED BY <1>3, <1>4, <1>5, <1>6, <1>7, <1>8, <1>9, <1>10, <1>11, <1>12, <1>13, <1>14
        DEF Transfer

----------------------------------------------------------------------------
(* One writer per row. *)

LEMMA ControlTransfer ==
  ASSUME TypedInv, Control, NEW w \in Workers, Transfer(w)
  PROVE  Control'
<1> DEFINE i == worker[w].row
<1>1. /\ i \in Items /\ Serving(w) /\ runs[i] = w
      /\ runs \in [Items -> Workers \cup {None}] /\ cancelRequested \subseteq Workers
  BY TransferServes DEF TypedInv, WorkersOK, EngineOK, Control, OneWriter
<1>2. /\ OneWriter /\ RunningIsServed
      /\ \A k \in queue : item[k].state # "new"
      /\ \A x \in cancelRequested : Serving(x)
      /\ \A x \in Workers : Fits(x)
  BY DEF Control, RowFollowsWorker
<1>3. TouchesOwnRow(w) /\ (Continues(w) \/ Leaves(w)) BY TransferEffect
<1>4. \A x \in Workers \ {w} :
         /\ worker'[x] = worker[x]
         /\ Serving(x) => worker[x].row # i /\ item'[worker[x].row] = item[worker[x].row]
  BY <1>1, <1>2, <1>3 DEF TouchesOwnRow, OneWriter, Fits
<1>5. CASE Continues(w)
  <2>1. OneWriter' BY <1>1, <1>2, <1>4, <1>5 DEF OneWriter, Continues, Serving
  <2>2. RunningIsServed'
    BY <1>1, <1>2, <1>3, <1>5, NoneAssumption
    DEF RunningIsServed, Continues, TouchesOwnRow
  <2>3. \A x \in Workers : Fits(x)'
    BY <1>2, <1>4, <1>5 DEF Continues, Fits, Serving
  <2>4. \A x \in cancelRequested' : Serving(x)'
    BY <1>1, <1>2, <1>4, <1>5 DEF Continues, Serving
  <2>5. \A k \in queue' : item'[k].state # "new"
    BY <1>1, <1>2, <1>3, <1>5, <2>3 DEF Continues, TouchesOwnRow, Fits, TypedInv, EngineOK
  <2> QED BY <2>1, <2>2, <2>3, <2>4, <2>5 DEF Control, RowFollowsWorker
<1>6. CASE Leaves(w)
  <2>1. OneWriter'
    BY <1>1, <1>2, <1>4, <1>6, NoneAssumption DEF OneWriter, Leaves, Serving
  <2>2. RunningIsServed'
    BY <1>1, <1>2, <1>6 DEF RunningIsServed, Leaves
  <2>3. \A x \in Workers : Fits(x)'
    BY <1>2, <1>4, <1>6 DEF Leaves, Fits, Serving
  <2>4. \A x \in cancelRequested' : Serving(x)'
    BY <1>1, <1>2, <1>4, <1>6 DEF Leaves, Serving
  <2>5. \A k \in queue' : item'[k].state # "new"
    BY <1>2, <1>3, <1>6 DEF Leaves, TouchesOwnRow
  <2> QED BY <2>1, <2>2, <2>3, <2>4, <2>5 DEF Control, RowFollowsWorker
<1> QED BY <1>3, <1>5, <1>6

\* A call that leaves every goroutine and every run alone keeps Control when it
\* only cancels rows, or reopens rows without a run.
LEMMA ControlFrame ==
  ASSUME TypedInv, Control, UNCHANGED <<runs, worker>>,
         cancelRequested' \subseteq Workers,
         \A i \in Items : \/ item'[i].state = item[i].state
                          \/ item'[i].state = "cancelled" /\ item[i].state # "complete"
                          \/ runs[i] = None /\ item'[i].state \notin {"running", "new"},
         \A w \in cancelRequested' \ cancelRequested :
            Serving(w) /\ item'[worker[w].row].state = "cancelled",
         \A i \in queue' \ queue : item'[i].state # "new", queue' \subseteq Items
  PROVE  Control'
<1>1. /\ OneWriter /\ RunningIsServed
      /\ \A k \in queue : item[k].state # "new"
      /\ \A x \in cancelRequested : Serving(x)
      /\ \A x \in Workers : Fits(x)
  BY DEF Control, RowFollowsWorker
<1>2. OneWriter' BY <1>1 DEF OneWriter, Serving
<1>3. RunningIsServed' BY <1>1 DEF RunningIsServed
<1>4. \A x \in cancelRequested' : Serving(x)' BY <1>1 DEF Serving
<1>5. \A k \in queue' : item'[k].state # "new" BY <1>1
<1>6. ASSUME NEW x \in Workers, Serving(x) PROVE Fits(x)'
  <2>1. runs[worker[x].row] = x /\ worker[x].row \in Items /\ runs[worker[x].row] # None
    BY <1>1, <1>6, NoneAssumption DEF OneWriter, Fits
  <2>2. \/ item'[worker[x].row].state = item[worker[x].row].state
        \/ /\ item'[worker[x].row].state = "cancelled"
           /\ item[worker[x].row].state # "complete"
    BY <2>1
  <2> QED BY <1>1, <1>6, <2>1, <2>2 DEF Fits, Serving
<1>7. \A x \in Workers : Fits(x)' BY <1>6 DEF Fits, Serving
<1> QED BY <1>2, <1>3, <1>4, <1>5, <1>7 DEF Control, RowFollowsWorker

LEMMA ControlStep == TypedInv /\ Control /\ [Next]_vars => Control'
<1> SUFFICES ASSUME TypedInv, Control, [Next]_vars PROVE Control'
  OBVIOUS
<1>1. /\ runs \in [Items -> Workers \cup {None}] /\ cancelRequested \subseteq Workers
      /\ queue \subseteq Items /\ item \in [Items -> ItemType]
      /\ worker \in [Workers -> WorkerType]
  BY DEF TypedInv, RowsOK, WorkersOK, EngineOK
<1>a. ASSUME UNCHANGED <<runs, worker, cancelRequested>>, queue' \subseteq queue,
             \A i \in Items : item'[i].state = item[i].state
      PROVE  Control'
  BY <1>1, <1>a, ControlFrame
<1>b. ASSUME NEW i, NEW j, item' = [item EXCEPT ![i].job = j]
      PROVE  \A k \in Items : item'[k].state = item[k].state
  BY <1>b, <1>1 DEF ItemType
<1>2. ASSUME NEW w \in Workers, NEW i \in Items, Dispatch(w, i) PROVE Control'
  <2>1. /\ OneWriter /\ RunningIsServed
        /\ \A k \in queue : item[k].state # "new"
        /\ \A x \in cancelRequested : Serving(x)
        /\ \A x \in Workers : Fits(x)
    BY DEF Control, RowFollowsWorker
  <2>2. /\ ~Serving(w) /\ runs[i] = None /\ w \notin cancelRequested
        /\ cancelRequested' = cancelRequested /\ queue' = queue
        /\ runs' = [runs EXCEPT ![i] = w]
    BY <1>2, <2>1 DEF Dispatch, Claimable, Serving
  <2>3. item'[i].state = "running" /\ \A k \in Items \ {i} : item'[k] = item[k]
    BY <1>1, <1>2 DEF Dispatch, ItemType
  <2>4. /\ worker'[w].pc = "watch" /\ worker'[w].row = i
        /\ \A x \in Workers \ {w} : worker'[x] = worker[x]
    BY <1>1, <1>2 DEF Dispatch, Put, IdleWorker
  <2>5. \A x \in Workers : Serving(x) => worker[x].row # i
    BY <2>1, <2>2, NoneAssumption DEF OneWriter
  <2>6. OneWriter'
    BY <1>1, <2>1, <2>2, <2>4, <2>5 DEF OneWriter, Serving
  <2>7. RunningIsServed'
    BY <1>1, <2>1, <2>2, <2>3, NoneAssumption DEF RunningIsServed
  <2>8. \A x \in cancelRequested' : Serving(x)'
    BY <1>1, <2>1, <2>2, <2>4 DEF Serving
  <2>9. \A k \in queue' : item'[k].state # "new"
    BY <1>1, <2>1, <2>2, <2>3
  <2>10. Fits(w)'
    BY <2>2, <2>3, <2>4 DEF Fits, Working
  <2>11. \A x \in Workers \ {w} : Fits(x)'
    BY <2>1, <2>2, <2>3, <2>4, <2>5 DEF Fits, Serving
  <2> QED BY <2>6, <2>7, <2>8, <2>9, <2>10, <2>11 DEF Control, RowFollowsWorker
<1>3. ASSUME NEW c \in Clients, NEW ids \in SUBSET Items, Cancel(c, ids) PROVE Control'
  <2>1. PICK hit \in SUBSET Items :
          /\ \A i \in hit : item[i].state # "complete"
          /\ cancelRequested' = cancelRequested \cup
                                  {runs[i] : i \in {k \in hit : runs[k] # None}}
          /\ item' = [i \in Items |->
                        IF i \in hit THEN [item[i] EXCEPT !.state = "cancelled",
                                                          !.stage = "idle"]
                                     ELSE item[i]]
    <3>1. {i \in ids \cap queue : /\ item[i].state # "complete"
                                  /\ runs[i] = None => deleting[i] = 0} \in SUBSET Items
      OBVIOUS
    <3> QED BY <1>3, <3>1 DEF Cancel
  <2>2. \A i \in Items : item'[i].state = IF i \in hit THEN "cancelled" ELSE item[i].state
    BY <1>1, <2>1 DEF ItemType
  <2>3. \A w \in cancelRequested' \ cancelRequested :
          w \in Workers /\ Serving(w) /\ worker[w].row \in hit
    <3>1. OneWriter BY DEF Control
    <3>2. ASSUME NEW i \in hit, runs[i] # None
          PROVE  runs[i] \in Workers /\ Serving(runs[i]) /\ worker[runs[i]].row = i
      BY <1>1, <3>1, <3>2 DEF OneWriter
    <3> QED BY <2>1, <3>2
  <2>4. UNCHANGED <<runs, worker, queue>> BY <1>3 DEF Cancel
  <2> QED BY <1>1, <2>1, <2>2, <2>3, <2>4, ControlFrame
<1>4. ASSUME NEW c \in Clients, NEW ids \in SUBSET Items, Retry(c, ids) PROVE Control'
  <2>1. PICK S : /\ \A i \in S : runs[i] = None
                 /\ item' = [i \in Items |-> IF i \in S THEN ResetForRetry(item[i])
                                                        ELSE item[i]]
    BY <1>4 DEF Retry, Free
  <2>2. \A i \in Items : item'[i].state = IF i \in S THEN "pending" ELSE item[i].state
    BY <1>1, <2>1 DEF ResetForRetry, ItemType
  <2>3. UNCHANGED <<runs, worker, queue, cancelRequested>> BY <1>4 DEF Retry
  <2> QED BY <1>1, <2>1, <2>2, <2>3, ControlFrame
<1>5. ASSUME NEW c \in Clients, NEW i \in Items, RetryStale(c, i) PROVE Control'
  <2>1. UNCHANGED <<runs, worker, queue, cancelRequested>> BY <1>5 DEF RetryStale
  <2>2. \/ UNCHANGED item
        \/ item' = [item EXCEPT ![i] = IF runs[i] = None THEN ResetForRetry(@)
                                       ELSE [@ EXCEPT !.job = None]]
    BY <1>5 DEF RetryStale
  <2>3. \A k \in Items : \/ item'[k].state = item[k].state
                         \/ runs[k] = None /\ item'[k].state = "pending"
    <3>1. item[i] \in ItemType BY <1>1
    <3>2. /\ ResetForRetry(item[i]).state = "pending"
          /\ [item[i] EXCEPT !.job = None].state = item[i].state
      BY <3>1 DEF ResetForRetry, ItemType
    <3> QED BY <1>1, <2>2, <3>2
  <2> QED BY <1>1, <2>1, <2>3, ControlFrame
<1>6. ASSUME NEW c \in Clients, Serve(c), \A i \in Items : ~RetryStale(c, i)
      PROVE  Control'
  <2>1. CASE CancelReap(c)
    <3>1. \A k \in Items : item'[k].state = item[k].state
      BY <2>1, <1>b DEF CancelReap
    <3> QED BY <2>1, <3>1, <1>a DEF CancelReap
  <2>2. CASE ~CancelReap(c)
    BY <1>6, <2>2, <1>a DEF Serve, ListDirs, Return, CancelDiscard, CancelInterrupt,
       RemoveDir, CleanupOne, engine
  <2> QED BY <2>1, <2>2
<1>7. ASSUME NEW c \in Clients,
             \/ Prune(c) \/ Cleanup(c)
             \/ \E ids \in SUBSET Items : DeleteStaged(c, ids) \/ ClearFinished(c, ids)
      PROVE  Control'
  BY <1>7, <1>a DEF Prune, Cleanup, DeleteStaged, ClearFinished, engine
<1>8. ASSUME NEW i \in Items, Enqueue(i) PROVE Control'
  <2>2. runs[i] = None
    BY <1>1, <1>8 DEF Enqueue, Control, OneWriter, RowFollowsWorker, Fits
  <2>3. /\ item'[i].state \in {"pending", "failed"}
        /\ \A k \in Items \ {i} : item'[k] = item[k]
    BY <1>1, <1>8 DEF Enqueue, ItemType
  <2>4. UNCHANGED <<runs, worker, cancelRequested>> /\ queue' = queue \cup {i}
    BY <1>8 DEF Enqueue
  <2> QED BY <1>1, <2>2, <2>3, <2>4, ControlFrame
<1>9. CASE \/ \E i \in Items : ApplySettings(i)
           \/ Shutdown \/ StopScheduler \/ UNCHANGED vars
  BY <1>9, <1>a DEF ApplySettings, Shutdown, StopScheduler, vars, engine
<1> QED BY <1>2, <1>3, <1>4, <1>5, <1>6, <1>7, <1>8, <1>9, ControlTransfer DEF Next, Call, Serve

LEMMA ControlInit == Init => Control
  BY SubsetAssumption, NoneAssumption
  DEF Init, Loaded, Control, OneWriter, RowFollowsWorker, RunningIsServed, Fits, Serving,
      IdleWorker, Row

LEMMA Invariant == Spec => [](TypedInv /\ Control)
<1>1. Init => TypedInv /\ Control BY TypedInit, ControlInit
<1>2. TypedInv /\ Control /\ [Next]_vars => (TypedInv /\ Control)'
  BY TypedStep, ControlStep
<1> QED BY <1>1, <1>2, PTL DEF Spec

\* However dispatch, Cancel, Retry, settings and shutdown interleave, a row never
\* has two goroutines and Engine.runs names the one it has.
THEOREM OneWriterPerRow == Spec => []OneWriter
<1>1. TypedInv /\ Control => OneWriter BY DEF Control
<1> QED BY <1>1, Invariant, PTL

\* No row is left showing "running" with nobody to finish it.
THEOREM NoRowLeftRunning == Spec => []RunningIsServed
<1>1. TypedInv /\ Control => RunningIsServed BY DEF Control
<1> QED BY <1>1, Invariant, PTL

\* What the goroutine's position says of its row, the strengthening itself.
THEOREM RowFollows == Spec => []RowFollowsWorker
<1>1. TypedInv /\ Control => RowFollowsWorker BY DEF Control
<1> QED BY <1>1, Invariant, PTL

----------------------------------------------------------------------------
(* What one step may do to the state of a row. *)

LEMMA ResetIsFresh ==
  ASSUME NEW r \in ItemType
  PROVE  ResetForRetry(r) = Row("pending", 0, None)
<1> DEFINE Fresh == [state : {"pending"}, stage : {"idle"}, attempts : {0}, job : {None}]
<1>1. ResetForRetry(r) \in Fresh BY DEF ResetForRetry, ItemType
<1>2. Row("pending", 0, None) \in Fresh BY DEF Row
<1>3. \A x, y \in Fresh : x = y OBVIOUS
<1> QED BY <1>1, <1>2, <1>3

LEMMA CancelSticksStep ==
  ASSUME TypedInv, Control, [Next]_vars, NEW i \in Items,
         item[i].state = "cancelled", item'[i].state # "cancelled"
  PROVE  item'[i] = Row("pending", 0, None) /\ runs[i] = None
<1>1. item \in [Items -> ItemType] BY DEF TypedInv, RowsOK
<1>2. ASSUME UNCHANGED item PROVE FALSE BY <1>2
<1>3. ASSUME NEW w \in Workers, Transfer(w) PROVE FALSE
  <2>1. TouchesOwnRow(w) /\ (Continues(w) \/ Leaves(w)) BY <1>3, TransferEffect
  <2> QED BY <2>1 DEF TouchesOwnRow, Continues, Leaves
<1>4. ASSUME NEW w \in Workers, NEW k \in Items, Dispatch(w, k) PROVE FALSE
  BY <1>1, <1>4 DEF Dispatch, Claimable
<1>5. ASSUME NEW c \in Clients, NEW ids \in SUBSET Items, Cancel(c, ids) PROVE FALSE
  BY <1>1, <1>5 DEF Cancel, ItemType
<1>6. ASSUME NEW c \in Clients, NEW ids \in SUBSET Items, Retry(c, ids)
      PROVE  item'[i] = ResetForRetry(item[i]) /\ runs[i] = None
  BY <1>6 DEF Retry, Free
<1>7. ASSUME NEW c \in Clients, NEW k \in Items, RetryStale(c, k)
      PROVE  item'[i] = ResetForRetry(item[i]) /\ runs[i] = None
  BY <1>1, <1>7 DEF RetryStale, ItemType
<1>8. ASSUME NEW c \in Clients, CancelReap(c) PROVE FALSE
  BY <1>1, <1>8 DEF CancelReap, ItemType
<1>9. ASSUME NEW k \in Items, Enqueue(k) PROVE FALSE
  BY <1>1, <1>9 DEF Enqueue, ItemType
<1>10. ASSUME NEW c \in Clients,
              \/ Prune(c) \/ Cleanup(c) \/ ListDirs(c) \/ Return(c)
              \/ \E ids \in SUBSET Items : DeleteStaged(c, ids) \/ ClearFinished(c, ids)
              \/ \E k \in Items : \/ CancelDiscard(c, k) \/ CancelInterrupt(c, k)
                                  \/ RemoveDir(c, k) \/ CleanupOne(c, k)
       PROVE  FALSE
  BY <1>10, <1>2 DEF Prune, Cleanup, ListDirs, Return, DeleteStaged, ClearFinished,
     CancelDiscard, CancelInterrupt, RemoveDir, CleanupOne, engine
<1>11. CASE \/ \E k \in Items : ApplySettings(k)
            \/ Shutdown \/ StopScheduler \/ UNCHANGED vars
  BY <1>11, <1>2 DEF ApplySettings, Shutdown, StopScheduler, vars, engine
<1> QED BY <1>1, <1>3, <1>4, <1>5, <1>6, <1>7, <1>8, <1>9, <1>10, <1>11, ResetIsFresh
        DEF Next, Call, Serve

\* A cancellation is final for whoever was working on the row: only a Retry that
\* finds it without a run reopens it, with a fresh budget.
THEOREM CancellationSticks == Spec => CancelSticks
<1>1. TypedInv /\ Control /\ [Next]_vars =>
        \A i \in Items :
          item[i].state = "cancelled" /\ item'[i].state # "cancelled" =>
            /\ item'[i] = Row("pending", 0, None)
            /\ runs[i] = None
  BY CancelSticksStep
<1> QED BY <1>1, Invariant, PTL DEF Spec, CancelSticks
=============================================================================
