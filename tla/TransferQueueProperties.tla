----------------------- MODULE TransferQueueProperties -----------------------
(***************************************************************************)
(* What the queue of internal/sync promises while goroutines, callers and  *)
(* the plugin's shutdown interleave on its rows.                           *)
(***************************************************************************)
EXTENDS TransferQueue

Serving(w) == worker[w].pc # "idle"

\* One writer per row (engine.go:1288-1292): at most one goroutine serves a row,
\* and Engine.runs names it for exactly as long as it does, so Cancel interrupts
\* and waits for the goroutine that is really there.
OneWriter ==
  \A i \in Items, w \in Workers :
    runs[i] = w <=> Serving(w) /\ worker[w].row = i

\* What the goroutine's position says about its row, and the reverse: the
\* strengthening that makes OneWriter and RunningIsServed inductive.
Working == PCs \ {"idle", "persist", "remove", "exit", "discard", "release"}
Fits(w) ==
  Serving(w) =>
    LET s == item[worker[w].row].state IN
    /\ worker[w].row \in Items
    /\ s # "new"
    /\ w \in cancelRequested => s = "cancelled"
    /\ worker[w].pc \in {"persist", "remove"} => s = "complete"
    /\ worker[w].pc \in {"exit", "discard", "release"} => s # "running"
    /\ worker[w].pc \in Working => s \in {"running", "cancelled"}
RowFollowsWorker ==
  /\ \A i \in queue : item[i].state # "new"
  /\ \A w \in cancelRequested : Serving(w)
  /\ \A w \in Workers : Fits(w)

\* A row shows "running" only while a goroutine serves it: none is left behind
\* by a cancellation, a rolled back completion or the shutdown's last snapshot.
RunningIsServed ==
  \A i \in Items : item[i].state = "running" => runs[i] # None

\* While a call erases, aborts or resets a row it found idle, no goroutine is
\* started on that row (engine.go:102-105).
IdleHeld(c) == CASE client[c].op = "cancel" -> client[c].todo
                 [] client[c].op \in {"retry", "deleteStaged"} -> client[c].held
                 [] OTHER -> {}
CleanupExcludesWorker ==
  \A c \in Clients : \A i \in IdleHeld(c) : i \in queue => runs[i] = None

\* The reference count of a row is the number of those who still hold it, so a
\* mark is neither leaked (the row could never run again) nor lost early.
Holders(i) == {c \in Clients : i \in client[c].held}
CompletingOn(i) == {w \in Workers : worker[w].pc = "persist" /\ worker[w].row = i}
DeletingCountsHolders ==
  \A i \in Items :
    deleting[i] = Cardinality(Holders(i)) + Cardinality(CompletingOn(i))

\* The cloud original is only ever removed for a row that is complete and whose
\* upload the host has committed.
OriginalOutlivesDelivery ==
  \A i \in Items \ original : i \in delivered /\ item[i].state = "complete"

\* The host is never asked to abort an upload it has committed.
CommittedNeverAborted == \A j \in Jobs : upload[j].st # "clobbered"

\* An upload job left open by nobody's fault: a listed row that no goroutine and
\* no call is busy with has no open job but the one it still names.
NoOrphanUpload ==
  \A j \in Jobs :
    upload[j].st = "open" =>
      LET i == upload[j].row IN
      \/ i \notin queue \/ runs[i] # None \/ deleting[i] > 0
      \/ item[i].job = j

\* The retry budget counts every claim that was not given back, and a row that
\* waits always has an attempt left.
AttemptBudget ==
  \A i \in Items :
    item[i].state \in {"new", "pending"} => item[i].attempts < MaxAttempts

\* transfer.go:57-64: bytes in the staging area go only by a decision: the row is
\* cancelled, delivered or forgotten, or a call was asked to delete them.  A
\* failure of any kind keeps them.
Forgone(i) ==
  \/ item[i].state \in {"cancelled", "complete"}
  \/ i \notin queue'
  \/ \E c \in Clients : client[c].op = "deleteStaged" /\ i \in client[c].todo
FailureKeepsBytes ==
  [][\A i \in Items : staged[i] # "none" /\ staged'[i] = "none" => Forgone(i)]_vars

\* A cancelled row stays cancelled, whatever its goroutine still reports, until
\* a Retry finds it idle and gives it a fresh budget.
CancelSticks ==
  [][\A i \in Items :
       item[i].state = "cancelled" /\ item'[i].state # "cancelled" =>
         /\ item'[i] = Row("pending", 0, None)
         /\ runs[i] = None]_vars

\* A retry reopens a row only when no upload of an earlier attempt that the row
\* still names is open at the host: no second writer beside an unknown job.
RetryClosesOldUpload ==
  [][\A i \in Items :
       /\ item[i].state \in {"failed", "cancelled"} /\ item'[i].state = "pending"
       /\ item[i].job # None
       => upload'[item[i].job].st # "open"]_vars

\* The row lifecycle of RowLifecycle, with a row busy while a run is registered.
RowState == [i \in Items |-> item[i].state]
Busy == {i \in Items : runs[i] # None}
Lifecycle == INSTANCE RowLifecycle WITH state <- RowState, busy <- Busy
ImplementsLifecycle == Lifecycle!Spec

\* Every call returns, Cancel's wait for the interrupted goroutine included, and
\* every goroutine comes to an end.
CallsReturn == \A c \in Clients : client[c].op # "none" ~> client[c].op = "none"
WorkersDrain == \A w \in Workers : Serving(w) ~> ~Serving(w)

\* Run's shutdown finds every row resumable: once the goroutines are gone the
\* last snapshot holds no running row.
ShutdownLeavesNoneRunning ==
  phase # "up" ~> /\ phase = "down"
                  /\ \A i \in Items : runs[i] = None /\ item[i].state # "running"

\* Cancelling a row leaves nothing of it in the staging area (sync_test.go:1206).
CancelledHoldsNoBytes ==
  \A i \in queue :
    item[i].state = "cancelled" /\ runs[i] = None /\ deleting[i] = 0
      => staged[i] = "none"

\* PruneStaged removes only directories the queue no longer refers to
\* (downloads.go:259).
PruneSparesQueue ==
  [][\A c \in Clients, i \in queue :
       client[c].op = "sweep" /\ i \in client[c].todo
         => (staged[i] # "none" => staged'[i] # "none")]_vars
=============================================================================
