--------------------------- MODULE TransferQueue ---------------------------
(***************************************************************************)
(* The queue rows of internal/sync and everything that runs on them at     *)
(* once: the transfer goroutines (Workers) that dispatch starts, the HTTP  *)
(* calls of the page (Clients: Cancel, Retry, DeleteStaged, ClearFinished, *)
(* PruneStaged and the scheduler's retryPendingCleanups), settings changes *)
(* and the plugin's shutdown.                                              *)
(*                                                                         *)
(* One action is one critical section of Engine.mu, or one call to the     *)
(* host, the cloud or the file system.  Steps that no other actor can tell *)
(* apart (they touch only a row the actor owns) are one action.            *)
(*                                                                         *)
(* Abstracted: the gates that only keep a pending row waiting (pause,      *)
(* schedule window, backoff deadline, disabled job, quota) make Dispatch   *)
(* optional; file sizes are none/partial/full; slots and staging room are  *)
(* the outcomes of a step; the segment loop of one upload is one step.     *)
(* Nothing here crashes: what a restart reads back is in Init.             *)
(***************************************************************************)
EXTENDS Naturals, FiniteSets

CONSTANTS
  Items,        (* queue rows, named by their id                            *)
  Workers,      (* transfer goroutines; their number is dispatch's limit    *)
  Clients,      (* concurrent callers of the queue operations               *)
  Jobs,         (* upload jobs of the host                                  *)
  NewItems,     (* rows a scan has yet to append to the queue               *)
  DeleteAfter,  (* rows whose cloud original goes once they are delivered   *)
  MaxAttempts,  (* settings.Retry.MaxAttempts                               *)
  HistoryLimit, (* finished rows trimHistoryLocked keeps                    *)
  Ops,          (* which operations the callers use in this instance        *)
  Faults,       (* subset of {"persistFails", "abortFails", "answerLost"}   *)
  None

ASSUME NoneAssumption == None \notin Items \cup Workers \cup Jobs
ASSUME SubsetAssumption == NewItems \subseteq Items /\ DeleteAfter \subseteq Items
ASSUME LimitsAssumption == MaxAttempts \in Nat \ {0} /\ HistoryLimit \in Nat

VARIABLES
  item,         (* the *Item of each row: state, stage, attempts, job       *)
  queue,        (* Engine.queue: the rows it still lists                    *)
  runs,         (* Engine.runs: the goroutine registered for a row, or None *)
  cancelRequested, (* workers whose run has cancelRequested set             *)
  interrupted,  (* workers whose run context was cancelled by Cancel        *)
  worker,       (* program counter and locals of each transfer goroutine    *)
  deleting,     (* Engine.deleting: reference count per row                 *)
  client,       (* the call each client is in                               *)
  staged,       (* bytes of a row under the staging root                    *)
  upload,       (* host: status and row of each upload job                  *)
  delivered,    (* rows the host has committed an upload for                *)
  toDelete,     (* rows with Item.DeleteAfter still set                     *)
  original,     (* rows whose cloud original still exists                   *)
  phase         (* the plugin: "up", context cancelled, or "down"           *)

engine == <<item, queue, runs, cancelRequested, interrupted, deleting>>
outside == <<staged, upload, delivered, toDelete, original>>
vars == <<engine, worker, client, outside, phase>>

----------------------------------------------------------------------------
States == {"new", "pending", "running", "complete", "failed", "cancelled"}
Stages == {"idle", "downloading", "waiting-upload", "uploading", "finishing"}
Outcomes == {"none", "defer", "fail", "retry"}
PCs == {"idle", "watch", "stage", "download", "slot", "begin", "push", "abort",
        "committed", "check", "finishing", "complete", "persist", "remove",
        "failed", "settle", "exit", "discard", "release"}
Calls == {"none", "cancel", "retry", "deleteStaged", "clear", "prune", "sweep",
          "cleanup"}

ItemType == [state: States, stage: Stages, attempts: 0..MaxAttempts,
             job: Jobs \cup {None}]
WorkerType == [pc: PCs, row: Items \cup {None}, job: Jobs \cup {None},
               out: Outcomes, discard: BOOLEAN]
ClientType == [op: Calls, cur: Items \cup {None}, todo: SUBSET Items,
               held: SUBSET Items]
UploadType == [st: {"free", "open", "committed", "aborted", "clobbered"},
               row: Items \cup {None}]

TypeOK ==
  /\ item \in [Items -> ItemType]
  /\ queue \subseteq Items
  /\ runs \in [Items -> Workers \cup {None}]
  /\ cancelRequested \subseteq Workers
  /\ interrupted \subseteq Workers
  /\ worker \in [Workers -> WorkerType]
  /\ deleting \in [Items -> Nat]
  /\ client \in [Clients -> ClientType]
  /\ staged \in [Items -> {"none", "partial", "full"}]
  /\ upload \in [Jobs -> UploadType]
  /\ delivered \subseteq Items
  /\ toDelete \subseteq Items
  /\ original \subseteq Items
  /\ phase \in {"up", "draining", "down"}

IdleWorker == [pc |-> "idle", row |-> None, job |-> None, out |-> "none",
               discard |-> TRUE]
IdleClient == [op |-> "none", cur |-> None, todo |-> {}, held |-> {}]

\* Rows as Load leaves them: waiting, failed with bytes kept, or cancelled with
\* the id of an upload job that was written before the last process stopped.
Row(state, attempts, job) ==
  [state |-> state, stage |-> "idle", attempts |-> attempts, job |-> job]

Loaded(left, kept, j) ==
  /\ left \notin kept
  /\ item = [i \in Items |->
               CASE i \in NewItems -> Row("new", 0, None)
                 [] i = left       -> Row("cancelled", 1, j)
                 [] i \in kept     -> Row("failed", MaxAttempts, None)
                 [] OTHER          -> Row("pending", 0, None)]
  /\ staged = [i \in Items |-> IF i \in kept THEN "full" ELSE "none"]
  /\ upload = [k \in Jobs |-> IF k = j /\ left # None
                              THEN [st |-> "open", row |-> left]
                              ELSE [st |-> "free", row |-> None]]

Init ==
  /\ \E left \in (Items \ NewItems) \cup {None}, kept \in SUBSET (Items \ NewItems),
        j \in Jobs : Loaded(left, kept, j)
  /\ queue = Items \ NewItems
  /\ runs = [i \in Items |-> None]
  /\ cancelRequested = {} /\ interrupted = {}
  /\ worker = [w \in Workers |-> IdleWorker]
  /\ deleting = [i \in Items |-> 0]
  /\ client = [c \in Clients |-> IdleClient]
  /\ delivered = {} /\ toDelete = DeleteAfter /\ original = Items
  /\ phase = "up"

----------------------------------------------------------------------------
(* Engine helpers. *)

\* cancellationRequestedLocked, and the guard complete, fail and requeue open with.
CancellationRequested(i) == runs[i] # None /\ runs[i] \in cancelRequested
\* Mutant: the guard is gone.
NeverStopped(i) == FALSE
Stopped(i) == CancellationRequested(i) \/ item[i].state = "cancelled"

StoppedByCancel(w) == CancellationRequested(worker[w].row)

CtxDone(w) == w \in interrupted \/ phase # "up"

Mark(S) == [i \in Items |-> IF i \in S THEN deleting[i] + 1 ELSE deleting[i]]
Unmark(S) == [i \in Items |-> IF i \in S /\ deleting[i] > 0
                              THEN deleting[i] - 1 ELSE deleting[i]]

\* Host ids are unique; one nobody names any more can stand for a new one.
FreshJob(j) == /\ upload[j].st \in {"free", "committed", "aborted"}
               /\ \A i \in Items : item[i].job # j
               /\ \A w \in Workers : worker[w].job # j

\* Mutant: the host is never told.
AbortSkipped(j) == upload
\* AbortUpload: the host drops an open job; on a job it has already committed
\* the call is recorded as "clobbered".
Abort(j) == [upload EXCEPT ![j].st =
               CASE @ = "open" -> "aborted" [] @ = "committed" -> "clobbered"
                 [] OTHER -> @]

\* Mutant: the spent budget stays.
ResetKeepsAttempts(r) == [r EXCEPT !.state = "pending", !.stage = "idle", !.job = None]
ResetForRetry(r) == [r EXCEPT !.state = "pending", !.stage = "idle",
                              !.attempts = 0, !.job = None]

Requeued(r, charge) ==
  [r EXCEPT !.state = "pending", !.stage = "idle", !.job = None,
            !.attempts = IF ~charge /\ @ > 0 THEN @ - 1 ELSE @]

\* Mutants: one attempt too many; nothing done for a row the shutdown interrupts.
SettledOnceMore(w, r) ==
  CASE worker[w].out = "defer" -> Requeued(r, FALSE)
    [] worker[w].out = "retry" -> Requeued(r, ~CtxDone(w))
    [] OTHER -> [r EXCEPT !.state = "failed", !.stage = "idle"]
SettledUnlessDone(w, r) ==
  CASE CtxDone(w) -> r
    [] worker[w].out # "fail" /\ r.attempts < MaxAttempts -> Requeued(r, TRUE)
    [] OTHER -> [r EXCEPT !.state = "failed", !.stage = "idle"]
\* retryLater and the other ends of a broken attempt: what becomes of the row.
Settled(w, r) ==
  CASE worker[w].out = "defer" -> Requeued(r, FALSE)
    [] worker[w].out = "retry" /\ CtxDone(w) -> Requeued(r, FALSE)
    [] worker[w].out = "retry" /\ ~CtxDone(w) /\ r.attempts < MaxAttempts ->
         Requeued(r, TRUE)
    [] OTHER -> [r EXCEPT !.state = "failed", !.stage = "idle"]

\* trimHistoryLocked: beyond the limit, finished rows nobody is busy with leave
\* the queue (the oldest ones, an order the model does not keep).
Trimmable == {i \in queue : /\ item[i].state \in {"complete", "failed", "cancelled"}
                            /\ i \notin toDelete
                            /\ runs[i] = None /\ deleting[i] = 0}
Excess == {S \in SUBSET Trimmable :
             Cardinality(Trimmable \ S) =
               IF Cardinality(Trimmable) > HistoryLimit
               THEN HistoryLimit ELSE Cardinality(Trimmable)}

Wipe(S) == [i \in Items |-> IF i \in S THEN "none" ELSE staged[i]]

Put(w, r) == worker' = [worker EXCEPT ![w] = r]
Goto(w, next) == Put(w, [worker[w] EXCEPT !.pc = next])
FailWith(w, out) == Put(w, [worker[w] EXCEPT !.pc = "failed", !.out = out])
SetStage(i, s) == item' = [item EXCEPT ![i].stage = s]

----------------------------------------------------------------------------
(* The scheduler. *)

\* consider appends a row for a file no row stands for; a name the drive would
\* refuse makes a failed row.
Enqueue(i) ==
  /\ item[i].state = "new"
  /\ \E s \in {"pending", "failed"} : item' = [item EXCEPT ![i].state = s]
  /\ queue' = queue \cup {i}
  /\ UNCHANGED <<runs, cancelRequested, interrupted, deleting, worker, client,
                 outside, phase>>

\* What takeNextWithRun looks for (the mutants each miss one condition).
ClaimableWhileServed(i) == i \in queue /\ item[i].state = "pending" /\ deleting[i] = 0
ClaimableWhileHeld(i) == i \in queue /\ item[i].state = "pending" /\ runs[i] = None
ClaimableFailed(i) == /\ i \in queue /\ item[i].state \in {"pending", "failed"}
                      /\ item[i].attempts < MaxAttempts
                      /\ runs[i] = None /\ deleting[i] = 0
Claimable(i) == /\ i \in queue /\ item[i].state = "pending"
                /\ runs[i] = None /\ deleting[i] = 0

\* takeNextWithRun and the goroutine dispatch starts.  retryPendingCleanups
\* runs on the same scheduler goroutine, so the two never overlap.
Dispatch(w, i) ==
  /\ phase # "down"
  /\ worker[w].pc = "idle"
  /\ \A c \in Clients : client[c].op # "cleanup"
  /\ Claimable(i)
  /\ item' = [item EXCEPT ![i] = [@ EXCEPT !.state = "running", !.stage = "idle",
                                           !.attempts = item[i].attempts + 1]]
  /\ runs' = [runs EXCEPT ![i] = w]
  /\ Put(w, [IdleWorker EXCEPT !.pc = "watch", !.row = i])
  /\ UNCHANGED <<queue, cancelRequested, interrupted, deleting, client, outside,
                 phase>>

\* applySettings drops the rows of a job that changed, unless they are running
\* or complete.
ApplySettings(i) ==
  /\ "apply" \in Ops
  /\ i \in queue /\ item[i].state \notin {"running", "complete"}
  /\ queue' = queue \ {i}
  /\ UNCHANGED <<item, runs, cancelRequested, interrupted, deleting, worker,
                 client, outside, phase>>

\* The plugin's context is cancelled, then the Run loop notices and stops.
Shutdown ==
  /\ "shutdown" \in Ops
  /\ phase = "up"
  /\ phase' = "draining"
  /\ UNCHANGED <<engine, worker, client, outside>>

StopScheduler ==
  /\ phase = "draining"
  /\ \A c \in Clients : client[c].op # "cleanup"
  /\ phase' = "down"
  /\ UNCHANGED <<engine, worker, client, outside>>

----------------------------------------------------------------------------
(* transfer, one goroutine.  Each step names the worker and its row.         *)

At(w, p) == worker[w].pc = p

\* watchItem: a cancellation that came first cancels the context at once.
Watch(w) ==
  /\ At(w, "watch")
  /\ interrupted' = IF w \in cancelRequested THEN interrupted \cup {w}
                                             ELSE interrupted
  /\ Goto(w, "stage")
  /\ UNCHANGED <<item, queue, runs, cancelRequested, deleting, client, outside,
                 phase>>

\* stage up to the download: slot, staging room, drive and login may refuse.
StageEnter(w) ==
  /\ At(w, "stage")
  /\ \/ /\ SetStage(worker[w].row, "downloading")
        /\ Goto(w, "download")
     \/ /\ \E out \in {"defer", "retry"} : FailWith(w, out)
        /\ UNCHANGED item
  /\ UNCHANGED <<queue, runs, cancelRequested, interrupted, deleting, client,
                 outside, phase>>

\* Download: bytes land, the file is complete, or the attempt breaks.
DownloadSome(w) ==
  /\ At(w, "download")
  /\ staged[worker[w].row] = "none"
  /\ staged' = [staged EXCEPT ![worker[w].row] = "partial"]
  /\ UNCHANGED <<engine, worker, client, upload, delivered, toDelete, original,
                 phase>>

DownloadDone(w) ==
  /\ At(w, "download")
  /\ staged' = [staged EXCEPT ![worker[w].row] = "full"]
  /\ SetStage(worker[w].row, "waiting-upload")
  /\ Goto(w, "slot")
  /\ UNCHANGED <<queue, runs, cancelRequested, interrupted, deleting, client,
                 upload, delivered, toDelete, original, phase>>

\* Mutant: a broken download is retried in place.
DownloadRetriesInPlace(w) ==
  /\ At(w, "download")
  /\ Goto(w, "stage")
  /\ UNCHANGED <<engine, client, outside, phase>>

DownloadFails(w) ==
  /\ At(w, "download")
  /\ \E out \in {"defer", "retry", "fail"} : FailWith(w, out)
  /\ UNCHANGED <<engine, client, outside, phase>>

\* acquireUploadSlot: refused only when the context has ended.
AcquireSlot(w) ==
  /\ At(w, "slot")
  /\ \/ Goto(w, "begin")
     \/ CtxDone(w) /\ FailWith(w, "retry")
  /\ UNCHANGED <<engine, client, outside, phase>>

\* A call to the host ends with its context, whatever the host then does with
\* it: the goroutine sees an error for something that was done.
AnswerLost(w) == "answerLost" \in Faults /\ CtxDone(w)

\* upload up to the recorded job id: owner, file and BeginUpload may fail.
BeginUpload(w) ==
  LET i == worker[w].row IN
  /\ At(w, "begin")
  /\ \/ \E j \in Jobs :
          /\ FreshJob(j)
          /\ upload' = [upload EXCEPT ![j] = [st |-> "open", row |-> i]]
          /\ item' = [item EXCEPT ![i] = [@ EXCEPT !.stage = "uploading", !.job = j]]
          /\ Put(w, [worker[w] EXCEPT !.pc = "push", !.job = j])
     \/ /\ \E s \in {item[i].stage, "uploading"} : SetStage(i, s)
        /\ FailWith(w, "retry")
        /\ \/ UNCHANGED upload
           \/ \E j \in Jobs :
                /\ AnswerLost(w) /\ FreshJob(j)
                /\ upload' = [upload EXCEPT ![j] = [st |-> "open", row |-> i]]
  /\ UNCHANGED <<queue, runs, cancelRequested, interrupted, deleting, client,
                 staged, delivered, toDelete, original, phase>>

\* sendSegments and commit, every round of them.
Push(w) ==
  LET j == worker[w].job IN
  /\ At(w, "push")
  /\ \/ /\ upload' = [upload EXCEPT ![j].st = "committed"]
        /\ delivered' = delivered \cup {worker[w].row}
        /\ Goto(w, "committed")
     \/ /\ Goto(w, "abort")
        /\ \/ UNCHANGED <<upload, delivered>>
           \/ /\ AnswerLost(w)
              /\ upload' = [upload EXCEPT ![j].st = "committed"]
              /\ delivered' = delivered \cup {worker[w].row}
  /\ UNCHANGED <<engine, client, staged, toDelete, original, phase>>

\* upload's own abort: claim the id, tell the host.
AbortOwn(w) ==
  LET i == worker[w].row
      j == worker[w].job IN
  /\ At(w, "abort")
  /\ IF item[i].job = j
     THEN /\ item' = [item EXCEPT ![i].job = None]
          /\ \/ upload' = Abort(j)
             \/ "abortFails" \in Faults /\ UNCHANGED upload
     ELSE UNCHANGED <<item, upload>>
  /\ Put(w, [worker[w] EXCEPT !.pc = "failed", !.out = "retry", !.job = None])
  /\ UNCHANGED <<queue, runs, cancelRequested, interrupted, deleting, client,
                 staged, delivered, toDelete, original, phase>>

\* Mutant: the id of a committed job stays on the row.
ForgetNothing(w) ==
  /\ At(w, "committed")
  /\ Goto(w, "check")
  /\ UNCHANGED <<engine, client, outside, phase>>

\* The host job is terminal: its id leaves the row.
ForgetJob(w) ==
  LET i == worker[w].row IN
  /\ At(w, "committed")
  /\ item' = [item EXCEPT ![i].job = IF @ = worker[w].job THEN None ELSE @]
  /\ Put(w, [worker[w] EXCEPT !.pc = "check", !.job = None])
  /\ UNCHANGED <<queue, runs, cancelRequested, interrupted, deleting, client,
                 outside, phase>>

CheckCancelled(w) ==
  /\ At(w, "check")
  /\ Goto(w, IF StoppedByCancel(w) THEN "exit" ELSE "finishing")
  /\ UNCHANGED <<engine, client, outside, phase>>

Finishing(w) ==
  /\ At(w, "finishing")
  /\ SetStage(worker[w].row, "finishing")
  /\ Goto(w, "complete")
  /\ UNCHANGED <<queue, runs, cancelRequested, interrupted, deleting, client,
                 outside, phase>>

\* Mutant: the row is not marked while the queue is being written.
CompleteUnmarked(w) ==
  LET i == worker[w].row IN
  /\ At(w, "complete")
  /\ ~Stopped(i)
  /\ item' = [item EXCEPT ![i] = [@ EXCEPT !.state = "complete", !.stage = "idle"]]
  /\ Goto(w, "persist")
  /\ UNCHANGED <<queue, runs, cancelRequested, interrupted, deleting, client,
                 outside, phase>>

\* complete, first critical section.
Complete(w) ==
  LET i == worker[w].row IN
  /\ At(w, "complete")
  /\ IF Stopped(i)
     THEN /\ Put(w, [worker[w] EXCEPT !.pc = "exit", !.discard = FALSE])
          /\ UNCHANGED <<item, deleting>>
     ELSE /\ item' = [item EXCEPT ![i] = [@ EXCEPT !.state = "complete", !.stage = "idle"]]
          /\ deleting' = Mark({i})
          /\ Goto(w, "persist")
  /\ UNCHANGED <<queue, runs, cancelRequested, interrupted, client, outside, phase>>

\* complete, once the queue is written: history is trimmed (the dropped rows keep
\* their bytes if that cannot be written), and the local copy goes if
\* DeleteLocalAfterUpload asks for it.
PersistComplete(w) ==
  LET i == worker[w].row IN
  /\ At(w, "persist")
  /\ deleting' = Unmark({i})
  /\ \E drop \in BOOLEAN, old \in Excess :
       /\ queue' = queue \ old
       /\ Put(w, [worker[w] EXCEPT !.pc = "remove", !.discard = drop])
       /\ \E gone \in {old} \cup (IF "persistFails" \in Faults THEN {{}} ELSE {}) :
            staged' = Wipe(IF drop THEN gone \cup {i} ELSE gone)
  /\ UNCHANGED <<item, runs, cancelRequested, interrupted, client, upload,
                 delivered, toDelete, original, phase>>

\* complete, when the queue cannot be written: everything is rolled back and
\* transfer holds the row back for a moment.
RollBackComplete(w) ==
  LET i == worker[w].row IN
  /\ At(w, "persist")
  /\ "persistFails" \in Faults
  /\ item' = [item EXCEPT ![i] = [@ EXCEPT !.state = "running",
                                           !.stage = "finishing"]]
  /\ deleting' = Unmark({i})
  /\ Put(w, [worker[w] EXCEPT !.pc = "settle", !.out = "defer", !.discard = FALSE])
  /\ UNCHANGED <<queue, runs, cancelRequested, interrupted, client, outside, phase>>

\* transfer's DeleteAfter loop over removeCloudOriginal.
RemoveOriginal(w) ==
  LET i == worker[w].row IN
  /\ At(w, "remove")
  /\ \/ i \in toDelete /\ original' = original \ {i} /\ toDelete' = toDelete \ {i}
     \/ UNCHANGED <<original, toDelete>>
  /\ Goto(w, "exit")
  /\ UNCHANGED <<engine, client, staged, upload, delivered, phase>>

\* Mutant: discard keeps its default.
FailedDiscards(w) ==
  /\ At(w, "failed")
  /\ Goto(w, IF StoppedByCancel(w) THEN "exit" ELSE "settle")
  /\ UNCHANGED <<engine, client, outside, phase>>

\* Every error branch of transfer first asks whether it was cancelled.
Failed(w) ==
  /\ At(w, "failed")
  /\ IF StoppedByCancel(w)
     THEN Goto(w, "exit")
     ELSE Put(w, [worker[w] EXCEPT !.pc = "settle", !.discard = FALSE])
  /\ UNCHANGED <<engine, client, outside, phase>>

\* requeue or fail; fail trims the history.
Settle(w) ==
  LET i == worker[w].row
      settled == IF Stopped(i) THEN item[i] ELSE Settled(w, item[i]) IN
  /\ At(w, "settle")
  /\ item' = [item EXCEPT ![i] = settled]
  /\ \E old \in IF ~Stopped(i) /\ settled.state = "failed" THEN Excess ELSE {{}} :
       /\ queue' = queue \ old
       /\ staged' = Wipe(old)
  /\ Goto(w, "exit")
  /\ UNCHANGED <<runs, cancelRequested, interrupted, deleting, client, upload,
                 delivered, toDelete, original, phase>>

\* The deferred cleanup decides, discards, and only then is the run released.
Exit(w) ==
  /\ At(w, "exit")
  /\ Goto(w, IF worker[w].discard \/ StoppedByCancel(w) THEN "discard"
                                                        ELSE "release")
  /\ UNCHANGED <<engine, client, outside, phase>>

Discard(w) ==
  /\ At(w, "discard")
  /\ staged' = [staged EXCEPT ![worker[w].row] = "none"]
  /\ Goto(w, "release")
  /\ UNCHANGED <<engine, client, upload, delivered, toDelete, original, phase>>

Release(w) ==
  LET i == worker[w].row IN
  /\ At(w, "release")
  /\ runs' = IF runs[i] = w THEN [runs EXCEPT ![i] = None] ELSE runs
  /\ cancelRequested' = cancelRequested \ {w}
  /\ interrupted' = interrupted \ {w}
  /\ Put(w, IdleWorker)
  /\ UNCHANGED <<item, queue, deleting, client, outside, phase>>

Transfer(w) ==
  \/ Watch(w) \/ StageEnter(w) \/ DownloadSome(w) \/ DownloadDone(w)
  \/ DownloadFails(w) \/ AcquireSlot(w) \/ BeginUpload(w) \/ Push(w)
  \/ AbortOwn(w) \/ ForgetJob(w) \/ CheckCancelled(w) \/ Finishing(w)
  \/ Complete(w) \/ PersistComplete(w) \/ RollBackComplete(w)
  \/ RemoveOriginal(w) \/ Failed(w) \/ Settle(w) \/ Exit(w) \/ Discard(w)
  \/ Release(w)

----------------------------------------------------------------------------
(* The calls.  held is what the call has marked in deleting, todo what it    *)
(* has still to work on, cur the row it is in the middle of.                 *)

Begin(c, op, todo, held) ==
  client' = [client EXCEPT ![c] = [op |-> op, cur |-> None, todo |-> todo,
                                   held |-> held]]

\* Mutants: the row stays on the list; every mark of the call goes with the first.
FinishForgets(c, i) ==
  /\ deleting' = Unmark({i})
  /\ client' = [client EXCEPT ![c].cur = None]
FinishUnmarksAll(c, i) ==
  /\ deleting' = Unmark(client[c].held)
  /\ client' = [client EXCEPT ![c] = [@ EXCEPT !.cur = None,
                                               !.todo = client[c].todo \ {i},
                                               !.held = client[c].held \ {i}]]
\* The call is through with row i and gives its mark back.
Finish(c, i) ==
  /\ deleting' = Unmark({i})
  /\ client' = [client EXCEPT ![c] = [@ EXCEPT !.cur = None,
                                               !.todo = client[c].todo \ {i},
                                               !.held = client[c].held \ {i}]]

\* A row no worker and no other call has: what Retry and DeleteStaged accept.
Free(i) == runs[i] = None /\ deleting[i] = 0

\* Cancel, first critical section.  Rows with a run are interrupted, the others
\* are cleaned up by the call itself.
Cancel(c, ids) ==
  LET hit == {i \in ids \cap queue : /\ item[i].state # "complete"
                                     /\ runs[i] = None => deleting[i] = 0}
      live == {i \in hit : runs[i] # None} IN
  /\ "cancel" \in Ops
  /\ client[c].op = "none"
  /\ hit # {}
  /\ cancelRequested' = cancelRequested \cup {runs[i] : i \in live}
  /\ deleting' = Mark(hit)
  /\ item' = [i \in Items |->
                IF i \in hit THEN [item[i] EXCEPT !.state = "cancelled",
                                                  !.stage = "idle"]
                             ELSE item[i]]
  /\ Begin(c, "cancel", hit \ live, hit)
  /\ UNCHANGED <<queue, runs, interrupted, worker, outside, phase>>

CancelDiscard(c, i) ==
  /\ client[c].op = "cancel" /\ client[c].cur = None
  /\ i \in client[c].todo
  /\ staged' = [staged EXCEPT ![i] = "none"]
  /\ client' = [client EXCEPT ![c].cur = i]
  /\ UNCHANGED <<engine, worker, upload, delivered, toDelete, original, phase>>

CancelInterrupt(c, i) ==
  /\ client[c].op = "cancel" /\ client[c].cur = None
  /\ client[c].todo = {} /\ i \in client[c].held
  /\ interrupted' = IF runs[i] # None THEN interrupted \cup {runs[i]}
                                      ELSE interrupted
  /\ client' = [client EXCEPT ![c].cur = i]
  /\ UNCHANGED <<item, queue, runs, cancelRequested, deleting, worker, outside,
                 phase>>

\* Both halves of Cancel end a row alike: abort what upload job it still names,
\* then unmark it.  For an interrupted row this waits for run.done, which the
\* worker closes in the critical section that drops the run; the mark keeps a
\* new run from taking its place.
CancelReap(c) ==
  LET i == client[c].cur IN
  /\ client[c].op = "cancel" /\ i # None
  /\ i \notin client[c].todo => runs[i] = None
  /\ IF item[i].job # None
     THEN /\ item' = [item EXCEPT ![i].job = None]
          /\ \/ upload' = Abort(item[i].job)
             \/ "abortFails" \in Faults /\ UNCHANGED upload
     ELSE UNCHANGED <<item, upload>>
  /\ Finish(c, i)
  /\ UNCHANGED <<queue, runs, cancelRequested, interrupted, worker, staged,
                 delivered, toDelete, original, phase>>

\* Retry, first critical section.  Rows that still name an upload job are held
\* until it is aborted, the others are pending at once.
Retry(c, ids) ==
  LET hit == {i \in ids \cap queue : /\ item[i].state \notin {"running", "complete"}
                                     /\ Free(i)}
      stale == {i \in hit : item[i].job # None} IN
  /\ "retry" \in Ops
  /\ client[c].op = "none"
  /\ hit # {}
  /\ item' = [i \in Items |-> IF i \in hit \ stale THEN ResetForRetry(item[i])
                                                   ELSE item[i]]
  /\ deleting' = Mark(stale)
  /\ Begin(c, "retry", stale, stale)
  /\ UNCHANGED <<queue, runs, cancelRequested, interrupted, worker, outside, phase>>

\* An abort that fails leaves the id on the row for a later retry.
RetryStale(c, i) ==
  /\ client[c].op = "retry" /\ i \in client[c].todo
  /\ \/ /\ upload' = IF item[i].job # None THEN Abort(item[i].job) ELSE upload
        /\ item' = [item EXCEPT ![i] = IF runs[i] = None THEN ResetForRetry(@)
                                       ELSE [@ EXCEPT !.job = None]]
     \/ "abortFails" \in Faults /\ UNCHANGED <<item, upload>>
  /\ Finish(c, i)
  /\ UNCHANGED <<queue, runs, cancelRequested, interrupted, worker, staged,
                 delivered, toDelete, original, phase>>

\* DeleteStaged takes rows nobody works on, and directories without a row.
DeleteStaged(c, ids) ==
  LET hit == {i \in ids : /\ item[i].state # "new"
                          /\ i \in queue => item[i].state # "running" /\ runs[i] = None
                          /\ deleting[i] = 0} IN
  /\ "deleteStaged" \in Ops
  /\ client[c].op = "none"
  /\ hit # {}
  /\ deleting' = Mark(hit)
  /\ Begin(c, "deleteStaged", hit, hit)
  /\ UNCHANGED <<item, queue, runs, cancelRequested, interrupted, worker, outside,
                 phase>>

\* ClearFinished forgets finished rows, then frees their directories.
ClearFinished(c, ids) ==
  LET hit == {i \in ids \cap queue :
                item[i].state \in {"complete", "failed", "cancelled"} /\ Free(i)} IN
  /\ "clear" \in Ops
  /\ client[c].op = "none"
  /\ hit # {}
  /\ queue' = queue \ hit
  /\ Begin(c, "clear", hit, {})
  /\ UNCHANGED <<item, runs, cancelRequested, interrupted, deleting, worker,
                 outside, phase>>

\* PruneStaged: liveItemIDs first, the directory listing after it.
Prune(c) ==
  /\ "prune" \in Ops
  /\ client[c].op = "none"
  /\ Begin(c, "prune", Items \ queue, {})
  /\ UNCHANGED <<engine, worker, outside, phase>>

ListDirs(c) ==
  /\ client[c].op = "prune"
  /\ Begin(c, "sweep", {i \in client[c].todo : staged[i] # "none"}, {})
  /\ UNCHANGED <<engine, worker, outside, phase>>

\* The three calls above remove one directory at a time.
RemoveDir(c, i) ==
  /\ client[c].op \in {"deleteStaged", "clear", "sweep"}
  /\ i \in client[c].todo
  /\ staged' = [staged EXCEPT ![i] = "none"]
  /\ client' = [client EXCEPT ![c].todo = @ \ {i}]
  /\ UNCHANGED <<engine, worker, upload, delivered, toDelete, original, phase>>

\* retryPendingCleanups, on the scheduler's goroutine.
Cleanup(c) ==
  LET hit == {i \in queue \cap toDelete : item[i].state = "complete"
                                          /\ deleting[i] = 0} IN
  /\ "cleanup" \in Ops
  /\ phase = "up"
  /\ client[c].op = "none"
  /\ \A d \in Clients : client[d].op # "cleanup"
  /\ hit # {}
  /\ deleting' = Mark(hit)
  /\ Begin(c, "cleanup", hit, hit)
  /\ UNCHANGED <<item, queue, runs, cancelRequested, interrupted, worker, outside,
                 phase>>

CleanupOne(c, i) ==
  /\ client[c].op = "cleanup" /\ i \in client[c].todo
  /\ \/ original' = original \ {i} /\ toDelete' = toDelete \ {i}
     \/ UNCHANGED <<original, toDelete>>
  /\ client' = [client EXCEPT ![c].todo = @ \ {i}]
  /\ UNCHANGED <<engine, worker, staged, upload, delivered, phase>>

\* The call has nothing left to do; DeleteStaged and retryPendingCleanups give
\* all their marks back here.
Return(c) ==
  /\ client[c].op \notin {"none", "prune"}
  /\ client[c].cur = None /\ client[c].todo = {}
  /\ client[c].op = "cancel" => client[c].held = {}
  /\ deleting' = Unmark(client[c].held)
  /\ client' = [client EXCEPT ![c] = IdleClient]
  /\ UNCHANGED <<item, queue, runs, cancelRequested, interrupted, worker, outside,
                 phase>>

Call(c) ==
  \/ \E ids \in SUBSET Items \ {{}} :
       Cancel(c, ids) \/ Retry(c, ids) \/ DeleteStaged(c, ids)
       \/ ClearFinished(c, ids)
  \/ Prune(c)
  \/ Cleanup(c)

Serve(c) ==
  \/ CancelReap(c)
  \/ ListDirs(c)
  \/ Return(c)
  \/ \E i \in Items : CancelDiscard(c, i) \/ CancelInterrupt(c, i)
                      \/ RetryStale(c, i) \/ RemoveDir(c, i) \/ CleanupOne(c, i)

----------------------------------------------------------------------------
Next ==
  \/ \E w \in Workers : Transfer(w) \/ \E i \in Items : Dispatch(w, i)
  \/ \E c \in Clients : Call(c) \/ Serve(c)
  \/ \E i \in Items : Enqueue(i) \/ ApplySettings(i)
  \/ Shutdown
  \/ StopScheduler

Spec == Init /\ [][Next]_vars

\* A goroutine that can run does run, and every host, cloud and file call
\* returns (the code gives each a timeout).  Nothing is assumed about when a
\* caller calls or a row is dispatched.
FairSpec ==
  /\ Spec
  /\ \A w \in Workers : WF_vars(Transfer(w))
  /\ \A c \in Clients : WF_vars(Serve(c))
  /\ WF_vars(StopScheduler)
=============================================================================
