# Verification of tdrive-aliyunpan

The plugin moves files from Aliyun Drive through a local staging area into
tdrive, which stores them in Telegram. This directory holds its TLA+ model, the
TLC configurations that check it on small instances and TLAPS proofs about it.
Paths below are relative to `src/`; `engine.go`, `transfer.go`, `downloads.go`,
`scan.go`, `actions.go`, `state.go`, `item.go` are in `internal/sync/`.

## 1. The system

| Component | State | Operations | Hard part |
|---|---|---|---|
| Queue rows and transfer goroutines (`engine.go`, `transfer.go`, `item.go`) | `Engine.queue`, `runs`, `cancels`, `cancelling`, `deleting`, each `Item` | dispatch/takeNext, transfer (stage, upload, commit, finish), retry, requeue, fail, complete with roll back, trim history, shutdown | several goroutines, HTTP callers and the scheduler share rows; long work is done outside `Engine.mu` |
| Operations of the page (`engine.go`, `downloads.go`, `actions.go`) | marks in `deleting` | Cancel, Retry, ClearFinished, DeleteStaged, PruneStaged, settings and job changes, logout | each has a locked decision, unlocked work, a locked end |
| Daily quota (`engine.go`, `settings.go`) | `quota`, `reserved`, `active` | gate, reserve, charge, roll back, roll over, heal at start | counter and reservation belong to different steps; period changes and crashes in between |
| Durable queue (`engine.go`, `hostapi.go`) | host documents `queue`, `quota`, `settings`; `dirty`, revisions | persistNow, persistQuotaNow, flushIfDue, Load | crash between two writes; claims and stages are only marked dirty |
| Staging room (`engine.go:1612-1705`) | `stageReserved`, `stageReservations`, the directory tree | reserveStageRoom, release | the tree is walked outside the lock |
| Slots (`engine.go:856-946`) | `downloadActive`, `uploadActive`, `slotChanged` | acquire, release, limit change | broadcast channel, lost wake-up |
| Chunked download (`internal/aliyunpan/source_download.go`, `source_checkpoint.go`) | `.part` file, sidecar, bitmap, partials | chunk workers, retry, flush, resume, discard | order of data and checkpoint, stale sidecars |
| Cloud scan (`scan.go`) | `scanning`, `lastScan`, per-folder listings | startScan, scan, consider | decisions on a listing that has aged |
| Segment upload (`transfer.go:425-621`) | host upload job | BeginUpload, PutSegment, CompleteUpload, resend, AbortUpload | a segment fails silently; lost answers |
| Account probe (`state.go`) | `probeCache` | probe, refresh, invalidate | answer from before a logout |
| Login and tokens (`source_login.go`, `source_client.go`, `credentials.go`) | login session, credentials | start, confirm, cancel, logout, refresh | a confirmation racing a cancel; one refresh at a time |
| Settings and clocks (`settings.go`) | settings document | normalize, Backoff, Open, PeriodStart | edges of day, window and doubling |
| Host adapter (`hostapi.go`), routes (`webui.go`), process (`main.go`), legacy CLI, vendored SDK | none of interest | — | not modelled (section 7) |

Interaction: a scan appends rows; the scheduler (`Run`/`tick`) claims rows and
starts one goroutine each; a goroutine downloads into the row's own staging
directory, opens an upload job at the host, sends segments, commits and
completes the row. Callers act on the same rows. All of them meet in
`Engine.mu`; `Engine.deleting` (a reference count per row) and `Engine.runs`
(one record per goroutine) tell each other what is going on outside it.

## 2. Plan

Done, most important first:

1. `TransferQueue`: rows, goroutines, callers, shutdown. Abstract specification
   `RowLifecycle`, refinement checked; proofs in `TransferQueueProofs`.
2. `ChunkDownload`: attempts, pool, flusher, sidecar, power losses; proofs in
   `ChunkDownloadProofs`.
3. `QuotaLedger` (quota and its two documents, crash and healing) and
   `TransferGates` (slots, staging room), composed in `TransferResources`.
4. `Account`: login, tokens, drive information, probe, logout.
5. `CloudScan`: the walk, the settings document, rows and drives.
6. `DownloadPool` (workers and their link) and `SegmentUpload` (segments,
   commit, resending), composed in `FileTransfer`, which implements the abstract
   `FileDelivery`; proofs in `FileTransferProofs`.
7. `QuotaClock`: the schedule window and the quota period, which drive the
   clock of `TransferResources`; proofs in `QuotaClockProofs`.
8. Proofs of the gates, the deliveries and the window (`ResourcesProofs`) and of
   tokens and logout (`AccountProofs`).
9. Proofs of what calls and goroutines owe each other and of the refinement of
   `RowLifecycle` (`TransferCallsProofs`), of the scan (`CloudScanProofs`), of the
   sums of `TransferResources`, of `CauseReported` and `AttemptsExplained`: every
   safety and action property of a passing run is now a theorem.

Left:

10. Pruning of orphan directories at start; backoff doubling; a source replaced
    by one of the same size while an attempt runs.
11. Proofs under weaker hypotheses: `CommittedNeverAborted` with lost answers for
    jobs the answer of which was not lost, `FailureKeepsBytes` for the other
    rows when one is appended between the reads of a prune.

## 3. Modules

### TransferQueue

One action is one critical section of `Engine.mu`, or one call to the host, the
cloud or the file system. Steps nobody else can tell apart are merged.

| Variable | Code |
|---|---|
| `item` | the `*Item` records: state, stage, attempts, upload job id |
| `queue` | `Engine.queue` as a set; a dropped row keeps its record, as its goroutine does |
| `runs`, `cancelRequested`, `interrupted` | `Engine.runs[id]`, `run.cancelRequested` (with its mirror `cancelling`), `run.ctx` cancelled |
| `worker` | program counter, row, job and `discardStaged` of each `transfer` goroutine; idle workers are the free part of dispatch's limit |
| `deleting` | `Engine.deleting` |
| `client` | the local variables of a call in progress: what it still has to do, what it has marked |
| `staged` | bytes in the row's staging directory: none, partial, full |
| `upload`, `delivered` | the host's upload jobs and the files it has committed |
| `toDelete`, `original` | `Item.DeleteAfter`, and whether the cloud original still exists |
| `phase` | plugin context alive, cancelled, scheduler stopped |

Worker steps follow `transfer` from `watchItem` to its release: Watch,
StageEnter, DownloadSome, DownloadDone, DownloadFails, AcquireSlot, BeginUpload,
Push, AbortOwn, ForgetJob, CheckCancelled, Finishing, Complete, PersistComplete
or RollBackComplete, RemoveOriginal, Failed, Settle (requeue or fail), Exit,
Discard, Release. Caller steps: Cancel, CancelDiscard, CancelInterrupt,
CancelReap, Retry, RetryStale, DeleteStaged, ClearFinished, Prune, ListDirs,
RemoveDir, Cleanup, CleanupOne, Return. Others: Enqueue, Dispatch,
ApplySettings, Shutdown, StopScheduler.

Abstractions. Pause, schedule window, backoff deadline, disabled job and quota
only keep a pending row waiting: `Dispatch` is optional. Slots and staging room
are outcomes of a step. A call to the host may, with the fault `answerLost`, be
carried out although its context ended before the answer came (`AnswerLost`).
Two `persistNow` calls that fail or succeed matter only where the code
looks at the result (`complete`). A restart is not a step; `Init` admits the
rows `Load` leaves: pending, failed with bytes kept, or cancelled with an
upload job id.

### ChunkDownload

One file, chunk by chunk. An action is one locked section of the checkpoint or
the flusher, one read of a body, one sync, or one file operation.

| Variable | Code |
|---|---|
| `source` | the revision of the cloud file, which its content hash tells |
| `place` | the `.part` file, or its final name |
| `page`, `device` | its content in the page cache and on the device, per unit the revision it came from |
| `sidecar`, `record` | the `.progress` file and the `checkpointFile` in memory |
| `worker` | chunk, try and offset of each pool worker |
| `flusher` | `offsets`, `changed`, and the snapshot of a flush in progress |
| `attempt` | how far `Download` is, the chunks not handed out, the context |

Reuse, Resume, StartOver, OpenPool, Drain, Leave, Rename and RemoveSidecar are
`Download`; Take, Try, Receive, Break, Forget, SyncChunk and MarkDone a worker;
FlushStart, FlushSync and FlushWrite the flusher. Cancel, Replace, Discard, Kill
and PowerLoss come from outside. Faults are drawn from `Faults`, at most
`MaxFaults` of them. Directory operations are taken to be durable and a power
loss may take the unsynced sidecar, which is never synced by the code.

### RowLifecycle

What the queue promises about a row: which states follow which, and which steps
need the row busy or free. `TransferQueueProperties!ImplementsLifecycle` maps
`state` to `item[i].state` and `busy` to the rows with a run.

### TransferRows, QuotaLedger, TransferGates, TransferResources

What rows compete for. `TransferRows` has their order and sizes; `QuotaLedger`
and `TransferGates` share nothing else, and `TransferResources` joins their steps
where a goroutine goes from one to the other and hangs both on the clock.

| Variable | Code |
|---|---|
| `row`, `work` | state, stage and period of `FinishedAt`; how far `transfer` and `complete` are |
| `reserved`, `used`, `current`, `quotaDirty` | `Engine.reserved`, `quota.UsedBytes`, whether `quota.Day` is today, `quotaDirty` |
| `disk` | the host documents `queue` and `quota` |
| `gate`, `waiting` | where the goroutine is in `stage` and `upload`; who sleeps on `slotChanged` |
| `downloadLimit`, `downloadActive`, `uploadActive` | the setting and the two counters |
| `stageReserved`, `reservations`, `look` | the reservation sum, its keys, and what a walk of the tree has seen |
| `minute` | the time of day; of the date only whether a period has ended is kept |
| `onDisk` | rows whose `.part` file has its full size, which it has from the first byte on |

Ledger steps: Take, Commit, Charge, SaveQueue, RollBack, SaveQuota, Requeue,
Leave, BackoffEnds, FlushQueue, FlushQuota, Turn, Roll, CrashAndLoad. Gate
steps: AcquireDownloadSlot, NoteReservations, WalkStaging, ReserveRoom or
RefuseRoom, Preallocate, Downloaded or DownloadFails, AcquireUploadSlot,
UploadEnds, SetDownloadLimit, LeaveGates, ResetGates. The two releases at the
end of `stage` are one step, for nothing is tested between them. A document's
write may fail with or without having been carried out. `Passes` lets a minute
pass: `Dispatch` is possible only while the schedule is open, and the period
turns when `Day` of the next minute is another. A day is two minutes long in
the run, of any length in the proofs.

Scope. `DeleteLocalAfterUpload` is set; pause and account only delay a
dispatch; rows neither fail for good nor leave the queue, and a context that
ends while waiting is `TransferQueue`'s. Four history variables mark what the
properties leave out; section 5 says what is behind them.

### Account

| Variable | Code |
|---|---|
| `credentials`, `stored` | `CLI.credentials` (token and `UserID`) and the active account of the credential file |
| `issued`, `expired` | the owner of every token the service has issued, and the tokens it now refuses; a token's number is its `tokenRevision` |
| `driveInfo` | the cached answer of `getDriveInfo`, by its account |
| `refreshMu`, `call` | the lock across a token exchange, and each caller's place in `requestJSON`, `Who` or its own function |
| `session`, `login`, `confirming` | `LoginSession` phases, `CLI.login`, the session `ConfirmLogin` works on |
| `probes`, `outdated` | `Engine.probes`, and which probes a revision change has overtaken |

Request steps (any caller): Cached, Answered, Refresh, Exchanged, Identify.
Probes add Poll, RequestProbe, Publish; scans and transfers WorkBegins, WorkEnds;
login StartLogin, BeginConfirmation, TokensArrive, SetTokens, NameAccount,
LoginFails, CancelLogin, LinkExpires; the operator Logout and RefreshProbe. Expire,
CacheExpires and Restart come from outside. The link of StartLogin is requested
in the step that creates the session; two confirmations of different sessions
that overlap are not modelled (one ends before the next begins); transient retries inside a request, web
tokens, drive ids and nicknames are left out. That Logout also cancels running
transfers is `TransferQueue`'s Cancel.

### CloudScan

| Variable | Code |
|---|---|
| `document`, `jobs` | the settings document at the host, and `Engine.settings.Jobs` |
| `reload`, `edit` | locals of `reloadSettings` and of `UpsertJob` or `DeleteJob` |
| `queue` | `Engine.queue`: job, target, file, content, state of each row |
| `cloud`, `drive` | content of the two drives, by path |
| `scan` | the scan's snapshot of the jobs, the file it is at, the `driveCache`, the former directories to be checked |

Scan steps: StartScan, ScanDrives, ScanJob, ListTarget, Consider, CheckElsewhere or
ElsewhereUnread, Enqueue, JobWalked. Settings steps: TickReads, TickApplies,
EditReads, EditWrites, EditApplies, EditDrops, ModalWrites. Rows: Dispatch,
Deliver, EndsBadly, UserActs. FilesChange comes from outside. Filters, exclude
patterns and the directory tree are the set `Wanted` of files a definition
selects; disabled jobs are left out. Two contents of one size cannot be
told apart by the code and do not occur here. Rows that are complete and equal
in every field are one element of `queue`.

### QuotaClock

Operators, no state: a moment is a date and a minute of the day, and `Open`,
`NextOpen`, `PeriodStart`, `Day`, `NextReset` are the functions of
`settings.go` of the same names. Strings of the form 15:04 are the minutes
`minutesOfDay` makes of them; seconds, and days that are longer or shorter for
a change of clocks, are left out.

### TransferFaults, DownloadPool, SegmentUpload, FileTransfer

One row's attempts from end to end. `ChunkDownload` asks what happens to bytes,
`TransferQueue` what happens between goroutines; here it is what the calls of one
transfer do to each other and to the attempts.

| Variable | Code |
|---|---|
| `links`, `url`, `mu` | the signed links the drive has issued, with their life and whether `ossURLExpiry` can read it; `downloadURLState.url` and its lock, held across the request |
| `worker`, `left`, `results`, `ended` | the pool of `downloadChunks`: place, link and try of each worker; `pending` not handed out; errors sent; why its two contexts ended: a cancellation and the deadline of `Download` are different errors, and only the first is replaced by another one (`source_download.go:669`) |
| `fetched` | chunks the checkpoint has as done, over attempts |
| `size`, `step`, `todo`, `round`, `asked`, `position`, `uploaded` | `Item.Size`, the place in `upload`, `pending`, the loops of `upload` and `commit`, the offset of the file's handle, `Item.Uploaded` |
| `job`, `held` | the host's upload job and what it has of every segment |
| `phase`, `attempt`, `cancelled`, `faults` | the row, `Item.Attempts`, its context, the faults spent |
| `lost`, `slow` | history: an answer about the job was lost; the host was still storing after the last pause |

Pool: TakeChunk, BeginsTry, Current, Issued or AskFails, Served, Refused,
Breaks, Hopeless, Invalidate, and Ages for a link. Upload: Enter, Begin,
SendSegment, SegmentBreaks, AllSent, Commit, CommitRefused, PauseEnds, Resend,
Abort, Leave, and Stores for the host, which may lose a segment after its
stream was closed. `FileTransfer` adds Start, StageEnds, UploadEnds, Cancel and
TimesOut. A chunk arrives in one step; the write deadline of a stream is a
segment that breaks. `todo` is a set because `pending` is always ascending.

### FileDelivery

What one transfer promises: from no job to an open one to a published file, and an
outcome told only while nothing is open, "delivered" only of what is published.
`FileTransfer!Delivery` maps `job` to `Shown` and `told` to `Told`. A job left
open without its goroutine is shown as `"left"`, which no step of the abstract
specification reaches unless an answer was lost.

### TransferQueueProperties, MCTransferQueue, MCResources, MCCloudScan

Properties of the queue; symmetry, sizes and targets of the instances.

### Proof modules

`TransferQueueProofs` and, on top of it, `TransferCallsProofs`; `ChunkDownloadProofs`,
`FileTransferProofs`, `QuotaClockProofs` and, on top of it, `ResourcesProofs`;
`AccountProofs` and `CloudScanProofs`: see section 6.

## 4. Runs

| Run | Instance | Shows |
|---|---|---|
| `row_contention` | 1 row, 2 goroutines, 2 callers, 2 jobs, 2 attempts, every operation and fault | all safety and action properties of a row, and the refinement; 963k states |
| `multi_select` | 2 rows (one appended later), 1 goroutine, 2 callers, history limit 0, cancel and deleteStaged | marks of calls on several rows, the same ones or not, are counted exactly while history is trimmed, and the calls return; 327k states |
| `row_liveness` | 1 row, 1 goroutine, 2 callers, shutdown, failing writes | goroutines end, shutdown leaves nothing running; no orphan uploads and no aborted commits while aborts and answers arrive |
| `cancel_exit` | 1 row, 1 goroutine, 1 caller | finding 1 |
| `cancel_commit` | 1 row, 1 goroutine, 1 caller, answers may be lost | finding 3 |
| `chunk_download` | 2 chunks of 2 units, 2 workers, 2 tries, 2 revisions, 2 faults of any kind but a missing hash | claims are durable, the staged file is whole and is staged in the end, an error keeps every partial offset; 425k states |
| `resources` | 3 rows of size 2, 1, 3, daily limit 2, staging limit 2, download limit 1 or 2, one upload slot, 1 fault, a window closed for half the day | limits hold over day, crash and failing write, no counter leaks, no lost wake-up, every row is delivered and stays so, a closed window names its first open moment; 181k states |
| `account` | 2 accounts, 1 login, 2 probe goroutines, 2 events | refused tokens only are exchanged, a logout holds, everything agrees in the end; 367k states |
| `cancelled_login` | 1 account, 1 login, 1 event | finding 6 |
| `scan` | 1 job with two targets, one of them overwriting, 1 file of two contents, 2 events | rows follow their job, nothing is fetched twice, every file arrives; 150k states |
| `file_transfer` | a file of 0 or 3 bytes, segments of 2; 2 workers, 2 chunks, 3 tries, 2 attempts, 2 spent links, 3 faults, a cancellation | the whole file is committed or nothing, a good link is kept, the cause is reported, attempts go on failures only, the row ends, the promise of `FileDelivery`; 589k states |
| `hash_erased` | 2 chunks, 1 worker, answers without hash | finding 4 |

Findings 2 and 5 have configurations of their own, to be run by hand:
`MCPruneRace.cfg` (module `MCTransferQueue`; 1 new row, 1 goroutine, 1 caller) ends in a
violation of `PruneSparesQueue`, `MCForgottenChunk.cfg` (module `ChunkDownload`; 1
chunk, 1 worker, 1 kill) in one of `RecordedSurvives`.

Bounds. All conflicts of the code are about one row: maps are keyed by id and
nothing in a row depends on another but the list itself (multi-select, history
trimming, a Cancel that waits for one row with another marked), which `multi_select`
adds. Two goroutines beside two such calls, or Retry as a third operation, are more
than it can exhaust in minutes; a goroutine waits for no caller, so that a call
waiting for two of them waits for each as it does for one, and of the calls only
Cancel waits for a goroutine. Two goroutines are what a violation of
"one writer" takes, two callers what a clash of operations takes, two attempts
a budget that is neither first nor spent. `CHECK_DEADLOCK FALSE` is used where
the instance has too few operations to go on once its rows are done.

For the download: two chunks and two units a chunk are what "done", "partial"
and "not begun" take side by side; two workers are what a flush over another
worker's progress takes; two faults let a crash follow a failing write.

For the resources: with three rows, limit 2 and sizes 2, 1, 3 one row fills the
limit, one leaves room and one exceeds it alone; a third goroutine never runs, as
no more are dispatched than the larger limit. One fault already separates any two
writes (two faults, 826k states, were also checked by hand). For the account: two
events are a logout beside a refresh, or a login beside an expiry; a page's poll,
cancel and the ends of links and caches are not counted. Three events hold too for the
safety properties (5.8M states). For the scan: two definitions with
one event to edit and one to disturb; three events hold too (1.1M states), and so does
a second file for the safety properties.

For one transfer: an empty file has one empty segment, one of 3 bytes a full and
a shorter one. Commit asks twice and upload resends twice where the code does 6
and 3 times: the first, the last and one in between need no more. Three faults
are one more than two attempts forgive. The tries of a chunk outnumber the links
that may die, or expiring links alone could spend an attempt. Three chunks with two
faults hold too (732k states).

Type invariants are proved (section 6) and therefore in no run but
`row_contention`.

Fairness of the queue (`FairSpec`): weak fairness of each goroutine, of each call in
progress and of the scheduler noticing the end of its context. Goroutines are
scheduled by the runtime and every host, cloud and file call carries a timeout
(`transfer.go:661-666`, `engine.go:1207-1226`). Nothing is assumed about callers calling or
rows being dispatched.

Fairness of the download: its steps, each worker and the flusher's last flush go
on, and a failed attempt is followed by another. The queue does that while the
row has attempts left; `EventuallyStaged` says that a finite number of faults is
overcome, not that the row's budget suffices.

Fairness of the resources: goroutines, backoffs, minutes and the rolling of the
counter go on. A row's dispatch is strongly fair: the gate opens and closes while
other rows come and go, and a row that is put back waits 30 s from after the tick
that ran it (`transfer.go:190`, `engine.go:33`), so that one of the next ticks finds it first.

Fairness of a transfer: each worker, the start of a row, the upload and the two
ends go on; every call has a deadline. Nothing is assumed of the host: it may store a segment
late or never, and `commit` then runs out of pauses and rounds.

Fairness of the account: requests, a confirmation, a begun Logout or refresh and
the page's polls go on, cached answers grow old. Strong fairness only for the
request that follows a discarded probe: a page poll could otherwise slip between the two each
time, and each would discard the other for ever.

Fairness of the scan: ticks, begun edits, scans and dispatched rows go on.

## 5. Findings

1. *Cancel in the gap before the release* (`transfer.go:68`). The goroutine of a
   failed attempt decides not to discard, then releases its run. A Cancel in
   between counts the row as running, so it leaves the discarding to the
   goroutine (`engine.go:1466-1467`), which is past it. The cancelled row keeps
   its partial download, on the 下载文件 page and against the staging limit,
   until it is deleted or the history is cleared. Run `cancel_exit`.
2. *PruneStaged against a new row* (`downloads.go:264`). The live ids are read
   before the directories. A row appended in between that has begun to download
   is listed but not live, and its directory is removed under it. The attempt
   then fails and is retried. Shown by `MCPruneRace.cfg`.
3. *Cancel during the commit* (`transfer.go:489`). The comment at
   `transfer.go:477-479` asks that a cancellation must not abort a completed
   upload. The SDK's call returns when its context ends, so a Cancel during
   `CompleteUpload` yields an error although the host commits, and the goroutine
   aborts the job. The cloud copy is kept, since the row is not completed. Run
   `cancel_commit`.
4. *A hash left out once* (`source_checkpoint.go:136`, `:144`). The comment at
   `:38-40` wants every identity field to match before a chunk is skipped. A
   missing hash on either side passes, and the stored one is then erased, so the
   next answer is not compared either. With a replacement of the same size in
   between, the staged file mixes revisions. Run `hash_erased`.
5. *A chunk forgotten before it is marked* (`source_download.go:643`). The comment at
   `:75-77` says that an interruption costs the seconds since the last flush, the
   one at `:493` that `forget` drops a chunk the bitmap has taken. `forget` comes before
   `file.Sync` (`:648`) and `markDone` (`:657`): a tick flush in between takes the offset
   out of the sidecar, and a kill before the mark costs the whole chunk.
   `setPartials` drops a full offset in the same way (`source_checkpoint.go:290`).
   Shown by `MCForgottenChunk.cfg`.
6. *A cancelled login that succeeds* (`source_login.go:179`). The comment at
   `actions.go:45` says that CancelLogin discards an in-flight login. `ConfirmLogin` looks
   at its session once, at the start, so that a confirmation under way stores its
   tokens and sets the aborted session to done. Logout is overtaken in the same
   way (`LogoutHolds` leaves it out). Run `cancelled_login`.

Behaviour the models reach and the properties leave out, each by a named
history variable or condition:

* A `complete` that is rolled back after `rollQuota` has zeroed the counter leaves it
  negative (`debt`); rows delivered before `rollQuota` notices the new day are not charged
  to it (`erased`).
* Files that are reserved when the walk of `reserveStageRoom` begins and released
  before the comparison are in neither sum (`unseen`). A file that is empty passes
  every comparison, so the limits hold for one file that exceeds them and any number
  of empty ones beside it (`WithinLimit`).
* Two failed rows whose kept files together exceed the staging limit refuse each
  other for ever, although `ErrStageRoom` promises a retry once other transfers
  end (`Overfull`).
* A probe's late answer may name freshly logged-in credentials after the old account;
  if the token expires before the next answer, its exchange is refused for ever (`Stranded`).
* A login that fails at its last request empties the credentials in memory, and a
  restart brings the previous account back from the file; so does a restart after a
  Logout whose write of the file failed. `AccountSettles` and `LogoutHolds` leave
  both out.
* A worker that failed for good before a changed source was met, or a deadline that
  ended the pool, is reported in its place (`source_download.go:669`, `:680-681`). The row is
  then tried again, and the changed source is met by the next attempt (`CauseReported`).
* A mark that cannot be written (`markDone`), with nothing left for the last flush to
  write, leaves a chunk out of the sidecar; it is fetched again
  (`ErrorKeepsProgress` speaks of done chunks only where the last flush wrote).
* A row delivered between the listing of its directory and the look at the queue
  is queued again (`held` covers rows delivered before the walk).
* Edits of the settings document are read, changed and written as a whole: of two
  that overlap one is lost (`actions.go:110-131`).
* A late answer of `fetchDriveInfo` is cached after Logout has emptied the cache
  (`source_client.go:496-499`). Logout invalidates the probe twice (`actions.go:61-64`), so the
  probe with that answer is discarded, but the one after it reads the cache and shows
  the account as linked until cache and probe grow old (`stray`).
* A host that stores a segment more slowly than all pauses of `commit` costs an
  attempt without a fault (`slow`). A lost answer to BeginUpload or AbortUpload leaves
  a job open that only the host can end (`lost`).

Behaviour outside the models, met while reading:

* An edit of `ResetAt` moves `PeriodStart` and with it the name of the running period,
  so that the next `rollQuota` zeroes the counter at once (`settings.go:116`,
  `engine.go:699-702`).
* A source replaced by one of the same size while an attempt runs is not noticed
  by a range request (`source_download.go:859`).
* A queue document that cannot be read at start is taken for an empty one: no orphan
  directory is swept then, but the next write replaces the stored queue
  (`engine.go:223-227`, `:332-337`).

## 6. Proofs

`TransferQueueProofs` holds for any sets of rows, goroutines, callers and jobs,
any operations and faults, any attempt and history limits; the assumptions are
those of `TransferQueue` (`None` is none of the rows, goroutines or jobs;
`NewItems` and `DeleteAfter` are rows; at least one attempt).

* `TypeCorrect` and `BudgetKept` from `TypedInv`: typing alone is not
  inductive, because `Dispatch` adds an attempt. `TypedInv` adds that a waiting
  row has an attempt left and that a goroutine's position fits its row fields.
* `OneWriterPerRow`, `NoRowLeftRunning`, `RowFollows` from `Control`, the
  conjunction of `OneWriter`, `RowFollowsWorker` and `RunningIsServed` on top of
  `TypedInv`. None of the three is inductive alone: a row is not left running
  because the last goroutine position that can leave it running is known, and
  that needs the goroutine to be the registered one. `TransferEffect` says what a goroutine's step
  can do to its row, run and marks; `ControlTransfer`, `ControlFrame` and
  `ControlStep` use it once for all worker actions.
* `CancellationSticks`: the action property `CancelSticks`, from the same
  invariant.

`TransferCallsProofs` goes on from `TypedInv` and `Control`, for the same constants.

* `MarksAreCounted` and `CleanupIsExclusive` from `CallsInv`: what a call still has to
  undo it holds, and the row is in the state its operation left it in (`HeldInv`), and a
  row's count in `deleting` is the number of the calls that hold it, and one more while
  its completion is being written (`Marks`). Counting alone is not inductive: a call
  could unmark a row it does not hold.
* `RowsFollowLifecycle`: the refinement. A goroutine's or a caller's step changes at
  most the rows it names, each by a step of `RowLifecycle` or not at all.
* `OriginalIsKept` from `DeliveredInv`: a goroutine past its commit, and a row that is
  complete, have a file at the host, and a row without its original is complete and
  not being written, so that no roll-back can take its completion back.
* `AbortSparesCommitted` and `NoJobForgotten` from `JobsInv`: who holds which job, and
  which jobs of a row can be open. Both assume `"answerLost" \notin Faults`
  (finding 3, run `cancel_commit`, is the exception); `NoJobForgotten` also
  `"abortFails" \notin Faults`, for an abort nobody carries out leaves its job open.
  `row_liveness` checks both on an instance of these hypotheses.
* `RetryClosesUpload`: only `RetryStale` reopens a row that names a job, after its abort.
* `BytesKept` from `BytesInv`: a goroutine about to discard serves a row that is over
  for it (`Drops`), and what ClearFinished and PruneStaged sweep is out of the queue for
  good (`Gone`). It assumes `NoRowBetweenReads` of the behaviour: no scan appends a row
  between the two reads of a prune. Rows are appended and prunes run otherwise as they
  like. Finding 2 is the exception; `row_contention` is an instance of the
  hypothesis.

`ChunkDownloadProofs` holds for any number of chunks, units, workers, tries,
revisions and faults, provided `"noHash" \notin Faults` (finding 4).

* `DownloadTypes`: `TypeOK` is inductive.
* `ClaimsDurable`: `ClaimsAreDurable` is not inductive, for the sidecar is written
  from the record, the record from a snapshot, and the snapshot from offsets
  noted before any sync. `DurableInv` says of each of them what is in the page
  cache and what on the device (`SidecarInv`, `RecordInv`, `WorkerInv`,
  `FlusherInv`). `Grows` is what nearly every step has in common: no byte of the
  current revision is lost. It carries the four conjuncts over a step
  (`GrowthKeeps` and the frame lemmas), so that each action only has to show
  the one thing it adds.
* `StagedWhole`: from `DurableInv` and the fact that a record that leads to the
  rename is complete.
* `ErrorsKeepProgress` from `ProgressInv`, with or without hashes: no two workers have
  one chunk and none has a chunk that is done (`ApartInv`), an offset is noted only
  for a chunk that is not done, and the end of a chunk only until it is forgotten
  (`OffsetInv`), and a flusher that has nothing to write has written every offset, or
  is about to (`KeptInv`). `HealedInv`: after a last flush that wrote, the sidecar is
  the record.

`FileTransferProofs` holds for any workers, chunks, tries, sizes, segment sizes,
attempts, links and faults.

* `LinksKept`: `GoodLinkKept` says nothing of the lock or of `url`. `LinkInv` adds that
  a link in hand is the last one issued, that only the holder of the lock asks, and
  only when the link in hand is spent, and that a worker about to drop a link has
  seen it dead.
* `CommittedWhole`: `UploadInv` adds that every segment the host has is cut at its own
  offset (`HeldRight`), that an upload under way has its own job (`Attached`), and that
  the count is the file's size or, in the first round, what lies before the next
  segment (`Counts`). `Geometry` and `Covered` are the arithmetic: segments lie side by
  side and cover the file.
* `KeepsPromise`: the refinement of `FileDelivery`. `PromiseInv` says that a job open or
  committed without its goroutine is one whose answer was lost, and that an outcome
  is told only of an idle or sent upload; each step is then a `Move`, a `Tell` or a stutter.
* `CauseIsReported` from `CauseInv`: an error is sent only after a context has ended or
  ends one, that of a deadline only if the deadline ended the pool, and a pool that has ended itself has an error of its own among those sent.
  `FirstIsReported` is what `FirstError` computes.
* `AttemptsAreExplained` from `BudgetInv` on top of `LinkInv` and `UploadInv`: while
  nothing has been paid for the running attempt (`Unpaid`), a chunk has lost no more
  tries than links have died before the one it is at (`TriesSpent`), and every
  segment that is not to be sent has been (`UploadClean`). It assumes
  `MaxDeaths < Retry`: of as many dead links as a chunk has tries the attempt may
  die, and nothing else need have failed. `file_transfer` is an instance of it.

`QuotaClockProofs` holds for any length of the day, window and reset time.
`PeriodIsADay`: a period is one day from reset to reset. `TurnsAtReset`: its name
changes with the minute of the reset and at no other. `ClosedUntil`: the moment
`NextOpen` names is open and everything before it closed.

`ResourcesProofs` holds for any rows, sizes, limits, schedule and faults.

* `NobodySleeps` from `GatesInv`: the counters name exactly the
  goroutines inside the gates (`SlotsHeld`), without which a release could wake too few.
* `RoomIsKept` from `RoomInv`: `stageReserved` is the sum of what is reserved, so that what
  a walk has seen, what is reserved and `unseen` are all there is when a file is let in.
* `NothingLeaks`, `LedgerIsCovered` and `DayIsKept` from `DayInv` on top of `LedgerInv`: the
  rows in flight and those counted (`Claimed`) are together within the limit, and so
  is `Stored`, what a restart would make today's of the documents as they are;
  `reserved` is the sum of the rows in flight and `used` no less than that of those
  counted. The claim about today alone is not inductive: a charge, a roll-back or
  a restart moves rows between these sets.
* Sums of sizes: `Weight` is a fold, of which the provers know nothing. That a set's
  weight is that of the rest and of one row, whichever it is, is proved by induction
  over the size of the set, through `WFMin` of the well-founded order of the naturals
  (a least counterexample), which needs no theorem with an operator parameter.
* `DeliveredSticks` from `LedgerInv`: a saved completion is in the queue document
  (`DeliveredAt`), so that no crash takes it back.
* `WindowIsTold` from `ClosedUntil` and the range of `minute`.

`AccountProofs` holds for any accounts, logins and events and at least one prober.

* `TypeCorrect` and `RefreshesOnlyExpired` from `Typed`, which has a part for each
  actor (`TokensOK`, `CallsOK`, `LockOK`, `LoginOK`, `ProbesOK`, `HistoryOK`).
* `LogoutSticks` from `LogoutInv`: after a logout nobody is about to put a token back
  (`Cleared`), to cache an answer (`Quiet`) or to show an account, but for probes
  whose results will be discarded (`Overtaken`); an idle prober has no old answer
  in hand (`ProbersFresh`).

`CloudScanProofs` holds for any jobs, definitions, directories, files, contents,
edits and events.

* `RowsSayWhatJobsSay`: `RowsFollowJobs` is inductive with the types: the append looks
  at the job under the lock it appends under.
* `DeliveredStaysDelivered`: the action property `NotRefetched` from `HeldInv`. A file
  delivered before the walk, and still there, has its row in the queue, complete; its
  content is in the drive, in every listing the walk has taken since, and, while its
  file is looked at, its directory is one of those that are checked. Without the
  listings the property is lost at the first step between listing and look.
* `TypesAreKept`: `TypeOK`.

Only model-checked: what must eventually happen (`CallsReturn`, `WorkersDrain`,
`ShutdownLeavesNoneRunning`, `EventuallyStaged`, `EveryRowEnds`, `AccountSettles`,
`FilesArrive`, `TransferEnds`), which is out of the prover's reach, and the six
properties the code violates. No invariant and no action property of a passing
run is without a theorem.

## 7. Not modelled

The host adapter, the routes and the process start-up keep no state of their
own: they translate calls. The legacy command line is behind a build tag. The
vendored SDK is third-party. Backoff doubling and the normalisation of settings
are functions of one value with unit tests beside them. Pruning of orphan
directories at start happens before any goroutine runs. Progress figures of a
download, transient retries inside a request, directory trees and name filters of a
scan are abstracted as described in section 3.
