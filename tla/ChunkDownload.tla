---------------------------- MODULE ChunkDownload ----------------------------
(***************************************************************************)
(* The resumable download of one file (internal/aliyunpan): a pool of      *)
(* workers fetches chunks into the .part file, a flusher makes their       *)
(* progress durable, and the .progress sidecar says which bytes a later    *)
(* attempt need not fetch again.  Attempts follow one another (the queue   *)
(* runs one per row); between and inside them connections break, the       *)
(* context is cancelled, writes fail, the process is killed or the power   *)
(* goes.                                                                   *)
(*                                                                         *)
(* A chunk has Units units, each the size of one read.  A unit of the file *)
(* holds the number of the source revision it was fetched from, 0 if none: *)
(* in the page cache and, once synced, on the device.  Directory changes   *)
(* (create, rename, remove) are durable at once; data that was not synced, *)
(* the sidecar's included, may be lost with the power.                     *)
(*                                                                         *)
(* Abstracted: link expiry and HTTP errors are one "the attempt breaks";   *)
(* the progress figure is left out; the source changes only between        *)
(* attempts and keeps its id and size (another id or size ends the attempt *)
(* before it touches the files).  The last chunk is as long as the others. *)
(***************************************************************************)
EXTENDS Naturals, FiniteSets

CONSTANTS
  Chunks,     (* how many chunks the file has                               *)
  Units,      (* units of a chunk                                           *)
  Workers,    (* the pool, request.SliceParallel of them                    *)
  Retry,      (* request.Retry: attempts at one chunk                       *)
  Revisions,  (* how many revisions of the source there will be             *)
  Faults,     (* what can go wrong in this instance                         *)
  MaxFaults,  (* and how often (bound)                                      *)
  NoDoc

ASSUME SizeAssumption == Chunks \in Nat \ {0} /\ Units \in Nat \ {0}
ASSUME BoundAssumption == Retry \in Nat \ {0} /\ Revisions \in Nat \ {0} /\ MaxFaults \in Nat

Chunk == 0..(Chunks - 1)
Unit == 0..(Units - 1)
Revision == 1..Revisions
\* A checkpoint document; hash 0 is one the drive did not report.
Doc == [hash: Revision \cup {0}, done: SUBSET Chunk, partial: [Chunk -> Unit]]

ASSUME NoDocAssumption == NoDoc \notin Doc

VARIABLES
  source,    (* the revision of the cloud file                              *)
  place,     (* the local file: "none", "part", or under its "staged" name  *)
  page,      (* its content as a process reads it                           *)
  device,    (* its content on the device                                   *)
  sidecar,   (* the .progress file, NoDoc if absent or unreadable           *)
  record,    (* checkpointFile in memory                                    *)
  worker,    (* pool workers                                                *)
  flusher,   (* partialFlusher: offsets, changed, and a flush in progress   *)
  attempt,   (* Download: where it is, chunks not handed out, cancelled     *)
  faults     (* faults so far                                               *)

disk == <<place, page, device, sidecar>>
vars == <<source, disk, record, worker, flusher, attempt, faults>>

Content == [Chunk -> [Unit -> Revision \cup {0}]]
Offsets == [Chunk -> 0..Units]

Fetcher == [pc: {"take", "try", "fetch", "forget", "sync", "mark", "end"},
            chunk: Chunk, tries: 0..(Retry - 1), off: 0..Units]
FlushState == [pc: {"idle", "sync", "write"}, offsets: Offsets, changed: BOOLEAN,
               snapshot: Offsets]
AttemptState == [pc: {"idle", "save", "pool", "last", "flushed", "rename", "remove"},
                 todo: SUBSET Chunk, cancelled: BOOLEAN]

TypeOK ==
  /\ source \in Revision
  /\ place \in {"none", "part", "staged"}
  /\ page \in Content /\ device \in Content
  /\ sidecar \in Doc \cup {NoDoc}
  /\ record \in Doc
  /\ worker \in [Workers -> Fetcher]
  /\ flusher \in FlushState
  /\ attempt \in AttemptState
  /\ faults \in 0..MaxFaults

Zeros == [c \in Chunk |-> [u \in Unit |-> 0]]
NoOffsets == [c \in Chunk |-> 0]
NoFlush == [pc |-> "idle", offsets |-> NoOffsets, changed |-> FALSE,
            snapshot |-> NoOffsets]
NoAttempt == [pc |-> "idle", todo |-> {}, cancelled |-> FALSE]
IdleWorker == [pc |-> "end", chunk |-> 0, tries |-> 0, off |-> 0]
EmptyDoc(hash) == [hash |-> hash, done |-> {}, partial |-> NoOffsets]

Init ==
  /\ source = 1
  /\ place = "none" /\ page = Zeros /\ device = Zeros
  /\ sidecar = NoDoc
  /\ record = EmptyDoc(0)
  /\ worker = [w \in Workers |-> IdleWorker]
  /\ flusher = NoFlush
  /\ attempt = NoAttempt
  /\ faults = 0

\* A fault of this instance that still may happen.
Fault(kind) == kind \in Faults /\ faults < MaxFaults /\ faults' = faults + 1

----------------------------------------------------------------------------
(* The sidecar. *)

\* Mutant: two hashes that disagree pass.
HashIgnored(doc, hash) == doc # NoDoc
\* loadCheckpoint: only hashes present on both sides can disagree.
Matches(doc, hash) ==
  /\ doc # NoDoc
  /\ doc.hash # 0 /\ hash # 0 => doc.hash = hash

\* Writing the record may fail; every caller goes on.
Write(doc) == \/ sidecar' = doc /\ UNCHANGED faults
              \/ Fault("writeFails") /\ UNCHANGED sidecar

\* setPartials keeps what describes a chunk that is begun and not done.
Partials(doc, offsets) ==
  [doc EXCEPT !.partial = [c \in Chunk |->
     IF c \notin doc.done /\ offsets[c] < Units THEN offsets[c] ELSE 0]]

Marked(doc, c) == [doc EXCEPT !.done = @ \cup {c}, !.partial[c] = 0]

Pending(doc) == Chunk \ doc.done

----------------------------------------------------------------------------
(* Download up to the pool, and after it. *)

\* A finished copy of an earlier attempt is used as it is.
Reuse ==
  /\ attempt.pc = "idle"
  /\ place = "staged"
  /\ sidecar' = NoDoc
  /\ UNCHANGED <<source, place, page, device, record, worker, flusher, attempt, faults>>

\* The drive may leave the hash out.
Reported == {source} \cup (IF "noHash" \in Faults THEN {0} ELSE {})

Resume ==
  /\ attempt.pc = "idle"
  /\ place = "part"
  /\ \E hash \in Reported :
       /\ Matches(sidecar, hash)
       /\ record' = [sidecar EXCEPT !.hash = hash]
  /\ attempt' = [attempt EXCEPT !.pc = "save"]
  /\ UNCHANGED <<source, disk, worker, flusher, faults>>

StartOver ==
  /\ attempt.pc = "idle"
  /\ place # "staged"
  /\ \E hash \in Reported :
       /\ place = "part" => ~Matches(sidecar, hash)
       /\ record' = EmptyDoc(hash)
  /\ place' = "part" /\ page' = Zeros /\ device' = Zeros
  /\ attempt' = [attempt EXCEPT !.pc = "save"]
  /\ UNCHANGED <<source, sidecar, worker, flusher, faults>>

\* The first save, and the pool if anything is pending.
OpenPool ==
  /\ attempt.pc = "save"
  /\ Write(record)
  /\ IF Pending(record) = {}
     THEN /\ attempt' = [attempt EXCEPT !.pc = "rename"]
          /\ UNCHANGED <<worker, flusher>>
     ELSE /\ attempt' = [attempt EXCEPT !.pc = "pool", !.todo = Pending(record)]
          /\ worker' = [w \in Workers |-> [IdleWorker EXCEPT !.pc = "take"]]
          /\ flusher' = [NoFlush EXCEPT !.offsets = record.partial]
  /\ UNCHANGED <<source, place, page, device, record>>

\* workers.Wait, the flusher stopped; the last flush follows.
Drain ==
  /\ attempt.pc = "pool"
  /\ \A w \in Workers : worker[w].pc = "end"
  /\ flusher.pc = "idle"
  /\ attempt' = [attempt EXCEPT !.pc = "last"]
  /\ UNCHANGED <<source, disk, record, worker, flusher, faults>>

\* Mutant: no flush on the way out.
LeaveUnflushed ==
  /\ attempt.pc \in {"last", "flushed"}
  /\ flusher.pc = "idle"
  /\ flusher' = NoFlush
  /\ worker' = [w \in Workers |-> IdleWorker]
  /\ attempt' = IF attempt.cancelled \/ Pending(record) # {}
                THEN NoAttempt ELSE [NoAttempt EXCEPT !.pc = "rename"]
  /\ UNCHANGED <<source, disk, record, faults>>

\* workers gone and the progress flushed: an error, or on to the rename.
Leave ==
  /\ \/ attempt.pc = "last" /\ ~flusher.changed
     \/ attempt.pc = "flushed"
  /\ flusher.pc = "idle"
  /\ flusher' = NoFlush
  /\ worker' = [w \in Workers |-> IdleWorker]
  /\ attempt' = IF attempt.cancelled \/ Pending(record) # {}
                THEN NoAttempt ELSE [NoAttempt EXCEPT !.pc = "rename"]
  /\ UNCHANGED <<source, disk, record, faults>>

Rename ==
  /\ attempt.pc = "rename"
  /\ place' = "staged"
  /\ attempt' = [attempt EXCEPT !.pc = "remove"]
  /\ UNCHANGED <<source, page, device, sidecar, record, worker, flusher, faults>>

RemoveSidecar ==
  /\ attempt.pc = "remove"
  /\ sidecar' = NoDoc
  /\ attempt' = NoAttempt
  /\ UNCHANGED <<source, place, page, device, record, worker, flusher, faults>>

Download == \/ Reuse \/ Resume \/ StartOver \/ OpenPool \/ Drain \/ Leave \/ Rename
            \/ RemoveSidecar

----------------------------------------------------------------------------
(* One worker of the pool. *)

At(w, p) == attempt.pc = "pool" /\ worker[w].pc = p
Put(w, r) == worker' = [worker EXCEPT ![w] = r]
Goto(w, p) == Put(w, [worker[w] EXCEPT !.pc = p])

\* The worker reports an error and cancels the others.
GiveUp(w) == Goto(w, "end") /\ attempt' = [attempt EXCEPT !.cancelled = TRUE]


\* The feeder hands chunks out in file order until there are none or it sees
\* the cancellation.
Take(w) ==
  /\ At(w, "take")
  /\ \/ \E c \in attempt.todo :
          /\ \A d \in attempt.todo : c <= d
          /\ Put(w, [pc |-> "try", chunk |-> c, tries |-> 0, off |-> 0])
          /\ attempt' = [attempt EXCEPT !.todo = attempt.todo \ {c}]
     \/ /\ attempt.todo = {} \/ attempt.cancelled
        /\ Goto(w, "end")
        /\ UNCHANGED attempt
  /\ UNCHANGED <<source, disk, record, flusher, faults>>

\* An attempt at the chunk starts from the last durable offset.
Try(w) ==
  /\ At(w, "try")
  /\ IF attempt.cancelled
     THEN GiveUp(w)
     ELSE /\ Put(w, [worker[w] EXCEPT !.pc = "fetch",
                                      !.off = record.partial[worker[w].chunk]])
          /\ UNCHANGED attempt
  /\ UNCHANGED <<source, disk, record, flusher, faults>>

\* downloadRange reads a unit, writes it at its place and notes how far it got.
Receive(w) ==
  LET c == worker[w].chunk
      u == worker[w].off IN
  /\ At(w, "fetch")
  /\ u < Units
  /\ page' = [page EXCEPT ![c][u] = source]
  /\ Put(w, [worker[w] EXCEPT !.off = u + 1,
                              !.pc = IF u + 1 = Units THEN "forget" ELSE "fetch"])
  /\ flusher' = [flusher EXCEPT !.offsets[c] = u + 1,
                                !.changed = @ \/ flusher.offsets[c] # u + 1]
  /\ UNCHANGED <<source, place, device, sidecar, record, attempt, faults>>

\* The link, the connection or the context ends: another try, or none left.
Break(w) ==
  /\ At(w, "fetch")
  /\ \/ Fault("breaks")
     \/ attempt.cancelled /\ UNCHANGED faults
  /\ \/ /\ worker[w].tries + 1 < Retry
        /\ Put(w, [worker[w] EXCEPT !.pc = "try", !.tries = worker[w].tries + 1])
        /\ UNCHANGED attempt
     \/ GiveUp(w)
  /\ UNCHANGED <<source, disk, record, flusher>>

\* The bitmap is about to own the chunk.
Forget(w) ==
  LET c == worker[w].chunk IN
  /\ At(w, "forget")
  /\ flusher' = [flusher EXCEPT !.offsets[c] = 0,
                                !.changed = @ \/ flusher.offsets[c] # 0]
  /\ Goto(w, "sync")
  /\ UNCHANGED <<source, disk, record, attempt, faults>>

SyncChunk(w) ==
  /\ At(w, "sync")
  /\ \/ /\ device' = page
        /\ Goto(w, "mark")
        /\ UNCHANGED <<attempt, faults>>
     \/ /\ Fault("syncFails")
        /\ GiveUp(w)
        /\ UNCHANGED device
  /\ UNCHANGED <<source, place, page, sidecar, record, flusher>>

\* Mutant: the record in memory never learns of the chunk.
MarkDoneOnDisk(w) ==
  LET c == worker[w].chunk IN
  /\ At(w, "mark")
  /\ Write(Marked(record, c))
  /\ Goto(w, "take")
  /\ UNCHANGED <<source, place, page, device, record, flusher, attempt>>

MarkDone(w) ==
  LET c == worker[w].chunk IN
  /\ At(w, "mark")
  /\ record' = Marked(record, c)
  /\ Write(Marked(record, c))
  /\ Goto(w, "take")
  /\ UNCHANGED <<source, place, page, device, flusher, attempt>>

Fetch(w) == \/ Take(w) \/ Try(w) \/ Receive(w) \/ Break(w) \/ Forget(w)
            \/ SyncChunk(w) \/ MarkDone(w)

----------------------------------------------------------------------------
(* The flusher: snapshot, sync, then write. *)

FlushStart ==
  /\ attempt.pc \in {"pool", "last"}
  /\ flusher.pc = "idle" /\ flusher.changed
  /\ flusher' = [flusher EXCEPT !.pc = "sync", !.changed = FALSE,
                                !.snapshot = flusher.offsets]
  /\ attempt' = IF attempt.pc = "last" THEN [attempt EXCEPT !.pc = "flushed"] ELSE attempt
  /\ UNCHANGED <<source, disk, record, worker, faults>>

FlushEnd(again) ==
  flusher' = [flusher EXCEPT !.pc = "idle", !.snapshot = NoOffsets,
                             !.changed = again \/ @]

FlushSync ==
  /\ flusher.pc = "sync"
  /\ \/ /\ device' = page
        /\ flusher' = [flusher EXCEPT !.pc = "write"]
        /\ UNCHANGED faults
     \/ /\ Fault("syncFails")
        /\ FlushEnd(TRUE)
        /\ UNCHANGED device
  /\ UNCHANGED <<source, place, page, sidecar, record, worker, attempt>>

\* Mutant: what is written is how far the workers are by now.
FlushWriteLatest ==
  /\ flusher.pc = "write"
  /\ record' = Partials(record, flusher.offsets)
  /\ Write(Partials(record, flusher.offsets))
  /\ FlushEnd(FALSE)
  /\ UNCHANGED <<source, place, page, device, worker, attempt>>

FlushWrite ==
  /\ flusher.pc = "write"
  /\ record' = Partials(record, flusher.snapshot)
  /\ \/ /\ sidecar' = Partials(record, flusher.snapshot)
        /\ FlushEnd(FALSE)
        /\ UNCHANGED faults
     \/ /\ Fault("writeFails")
        /\ FlushEnd(TRUE)
        /\ UNCHANGED sidecar
  /\ UNCHANGED <<source, place, page, device, worker, attempt>>

Flush == FlushStart \/ FlushSync \/ FlushWrite

----------------------------------------------------------------------------
(* What happens to a download from outside. *)

\* The queue cancels the transfer, or its time is up.
Cancel ==
  /\ attempt.pc = "pool" /\ ~attempt.cancelled
  /\ Fault("cancel")
  /\ attempt' = [attempt EXCEPT !.cancelled = TRUE]
  /\ UNCHANGED <<source, disk, record, worker, flusher>>

\* The cloud file is replaced by one of the same size.
Replace ==
  /\ attempt.pc = "idle" /\ source < Revisions
  /\ Fault("replace")
  /\ source' = source + 1
  /\ UNCHANGED <<disk, record, worker, flusher, attempt>>

\* The queue discards the partial download, sidecar first; the process may be
\* killed before the file follows.
Discard ==
  /\ attempt.pc = "idle" /\ place # "none"
  /\ Fault("discard")
  /\ sidecar' = NoDoc
  /\ \/ place' = "none" /\ page' = Zeros /\ device' = Zeros
     \/ UNCHANGED <<place, page, device>>
  /\ UNCHANGED <<source, record, worker, flusher, attempt>>

Stopped ==
  /\ attempt' = NoAttempt
  /\ flusher' = NoFlush
  /\ worker' = [w \in Workers |-> IdleWorker]
  /\ record' = EmptyDoc(0)

Kill ==
  /\ attempt.pc # "idle"
  /\ Fault("kill")
  /\ Stopped
  /\ UNCHANGED <<source, disk>>

PowerLoss ==
  /\ Fault("powerLoss")
  /\ Stopped
  /\ \E lost \in SUBSET {x \in Chunk \X Unit : page[x[1]][x[2]] # device[x[1]][x[2]]} :
       page' = [c \in Chunk |-> [u \in Unit |->
                  IF <<c, u>> \in lost THEN device[c][u] ELSE page[c][u]]]
  /\ device' = page'
  /\ sidecar' \in {sidecar, NoDoc}
  /\ UNCHANGED <<source, place>>

----------------------------------------------------------------------------
Next ==
  \/ Download
  \/ \E w \in Workers : Fetch(w)
  \/ Flush
  \/ Cancel \/ Replace \/ Discard \/ Kill \/ PowerLoss

Spec == Init /\ [][Next]_vars

\* The queue keeps trying, workers and flusher run, connections deliver.
FairSpec ==
  /\ Spec
  /\ WF_vars(Download)
  /\ WF_vars(Flush)
  /\ \A w \in Workers : WF_vars(Fetch(w))

----------------------------------------------------------------------------
(* Properties. *)

Claims(doc, c, u) == c \in doc.done \/ u < doc.partial[c]

\* The sidecar never claims bytes the device does not have (source_checkpoint.go
\* 276-279): whatever dies, a resume of the same revision skips only what is there.
ClaimsAreDurable ==
  sidecar # NoDoc /\ sidecar.hash = source /\ place = "part" =>
    \A c \in Chunk, u \in Unit : Claims(sidecar, c, u) => device[c][u] = source

\* The file under its final name is one whole revision, without holes, also
\* after a power loss.
StagedIsWhole ==
  place = "staged" =>
    \E r \in Revision : page = [c \in Chunk |-> [u \in Unit |-> r]] /\ device = page

\* An attempt that ends in an error leaves in the sidecar every offset the workers had
\* reached in a chunk, whatever writes failed before the last flush: "exactly the moment
\* whose offsets the next attempt resumes from" (source_download.go:602-604).  If the
\* last flush had something to write, the chunks that were done are there too, those
\* whose own mark could not be written included (markDone).  Left out: a mark that
\* failed and a last flush with nothing to write (the chunk is fetched again), and a
\* last flush that fails itself.
ErrorKeepsProgress ==
  [][attempt.pc \in {"last", "flushed"} /\ attempt'.pc = "idle"
     /\ (attempt.pc = "flushed" => ~flusher.changed)
     /\ faults' = faults
     => /\ \A c \in Chunk : flusher.offsets[c] > 0 =>
             sidecar # NoDoc /\ sidecar.partial[c] = flusher.offsets[c]
        /\ attempt.pc = "flushed" => sidecar # NoDoc /\ sidecar.done = record.done]_vars

\* A chunk of which the sidecar had something is not begun again from nothing by a
\* later attempt: "an interruption costs the couple of seconds since the last flush
\* rather than every chunk that had been started" (source_download.go:75-77).
RecordedSurvives ==
  \A c \in Chunk :
    [](sidecar # NoDoc /\ Claims(sidecar, c, 0) =>
         [](attempt.pc = "save" => Claims(record, c, 0)))

\* After finitely many faults of any kind the file is staged for good.
EventuallyStaged == <>[](place = "staged")
=============================================================================
