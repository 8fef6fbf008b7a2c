--------------------------- MODULE TransferGates ---------------------------
(***************************************************************************)
(* What a transfer waits for between its dispatch and its commit: a        *)
(* download slot, room in the staging area, an upload slot.                *)
(*                                                                         *)
(* One action is one critical section of Engine.mu, or the directory walk  *)
(* between two of them.  A goroutine that finds no slot keeps the current  *)
(* slotChanged channel and sleeps on it: it is in waiting until somebody   *)
(* closes that channel.  The walk itself is one step.  A context that ends *)
(* while waiting is TransferQueue's business.                              *)
(***************************************************************************)
EXTENDS TransferRows

CONSTANTS
  DownloadLimits,  (* the values settings.DownloadConcurrency may be set to *)
  UploadLimit,     (* the host's upload concurrency                         *)
  StageLimit       (* bytes the staging area may hold                       *)

ASSUME GatesAssumption ==
  /\ DownloadLimits \subseteq Nat \ {0} /\ DownloadLimits # {}
  /\ UploadLimit \in Nat \ {0} /\ StageLimit \in Nat \ {0}

VARIABLES
  gate,            (* where each row's goroutine is in stage and transfer   *)
  waiting,         (* goroutines asleep on Engine.slotChanged               *)
  downloadLimit,   (* Engine.settings.DownloadConcurrency                   *)
  downloadActive,  (* Engine.downloadActive                                 *)
  uploadActive,    (* Engine.uploadActive                                   *)
  stageReserved,   (* Engine.stageReserved                                  *)
  reservations,    (* the keys of Engine.stageReservations                  *)
  look,            (* locals of reserveStageRoom: dirs skipped, files seen  *)
  onDisk,          (* rows with a file of full size under the staging root  *)
  unseen           (* history: files the last admission could not count     *)

gateVars == <<gate, waiting, downloadLimit, downloadActive, uploadActive,
              stageReserved, reservations, look, onDisk, unseen>>

----------------------------------------------------------------------------
NoLook == [skip |-> {}, saw |-> {}]

HoldsDownload == {"room", "walk", "check", "download"}

GatesTypeOK ==
  /\ gate \in [Row -> {"out", "slot", "push", "upload", "sent", "broken"} \cup HoldsDownload]
  /\ waiting \subseteq Row
  /\ downloadLimit \in DownloadLimits
  /\ downloadActive \in Nat /\ uploadActive \in Nat
  /\ stageReserved \in Nat
  /\ reservations \subseteq Row
  /\ look \in [Row -> [skip: SUBSET Row, saw: SUBSET Row]]
  /\ onDisk \subseteq Row /\ unseen \subseteq Row

GatesInit ==
  /\ gate = [r \in Row |-> "out"]
  /\ waiting = {} /\ downloadLimit \in DownloadLimits
  /\ downloadActive = 0 /\ uploadActive = 0
  /\ stageReserved = 0 /\ reservations = {}
  /\ look = [r \in Row |-> NoLook]
  /\ onDisk = {} /\ unseen = {}

----------------------------------------------------------------------------
Go(r, from, to) == gate[r] = from /\ gate' = [gate EXCEPT ![r] = to]

\* signalTransferSlotChangeLocked: the channel everybody sleeps on is closed.
Signal == waiting' = {}

EnterGates(r) ==
  /\ Go(r, "out", "slot")
  /\ UNCHANGED <<waiting, downloadLimit, downloadActive, uploadActive, stageReserved,
                 reservations, look, onDisk, unseen>>

\* acquireDownloadSlot: the channel is taken under the lock that found no slot.
AcquireDownloadSlot(r) ==
  /\ gate[r] = "slot" /\ r \notin waiting
  /\ \/ /\ downloadActive < downloadLimit
        /\ Go(r, "slot", "room")
        /\ downloadActive' = downloadActive + 1
        /\ UNCHANGED waiting
     \/ /\ downloadActive >= downloadLimit
        /\ waiting' = waiting \cup {r}
        /\ UNCHANGED <<gate, downloadActive>>
  /\ UNCHANGED <<downloadLimit, uploadActive, stageReserved, reservations, look,
                 onDisk, unseen>>

\* reserveStageRoom, first section: whose directories the walk is to skip.
NoteReservations(r) ==
  /\ Go(r, "room", "walk")
  /\ look' = [look EXCEPT ![r].skip = reservations \cup {r}]
  /\ UNCHANGED <<waiting, downloadLimit, downloadActive, uploadActive, stageReserved,
                 reservations, onDisk, unseen>>

\* Mutant: the directories of reserved rows are counted too.
WalkEverything(r) ==
  /\ Go(r, "walk", "check")
  /\ look' = [look EXCEPT ![r].saw = onDisk]
  /\ UNCHANGED <<waiting, downloadLimit, downloadActive, uploadActive, stageReserved,
                 reservations, onDisk, unseen>>
\* stagedBytesExcluding, outside the lock.
WalkStaging(r) ==
  /\ Go(r, "walk", "check")
  /\ look' = [look EXCEPT ![r].saw = onDisk \ look[r].skip]
  /\ UNCHANGED <<waiting, downloadLimit, downloadActive, uploadActive, stageReserved,
                 reservations, onDisk, unseen>>

\* Mutant: other transfers' reservations are left out of the sum.
RoomOnDisk(r) == LET taken == Weight(look[r].saw) IN
  taken + Size[r] <= StageLimit \/ taken = 0
\* The lone file: one that is larger than the limit may come in alone.
RoomFor(r) == LET taken == Weight(look[r].saw) + stageReserved IN
  taken + Size[r] <= StageLimit \/ taken = 0

\* reserveStageRoom, second section.  unseen is what is on disk and is neither
\* reserved now nor was there for the walk to count.
ReserveRoom(r) ==
  /\ RoomFor(r)
  /\ Go(r, "check", "download")
  /\ stageReserved' = stageReserved + Size[r]
  /\ reservations' = reservations \cup {r}
  /\ unseen' = onDisk \ (reservations \cup look[r].saw \cup {r})
  /\ look' = [look EXCEPT ![r] = NoLook]
  /\ UNCHANGED <<waiting, downloadLimit, downloadActive, uploadActive, onDisk>>

\* The deferred releaseDownload of stage.
ReleaseDownloadSlot == downloadActive' = downloadActive - 1 /\ Signal

\* ErrStageRoom: the row is put back to wait for room.
RefuseRoom(r) ==
  /\ ~RoomFor(r)
  /\ Go(r, "check", "broken") /\ ReleaseDownloadSlot
  /\ look' = [look EXCEPT ![r] = NoLook]
  /\ UNCHANGED <<downloadLimit, uploadActive, stageReserved, reservations, onDisk, unseen>>

\* A download sets its .part file to full size before the first byte arrives.
Preallocate(r) ==
  /\ gate[r] = "download" /\ r \notin onDisk
  /\ onDisk' = onDisk \cup {r}
  /\ UNCHANGED <<gate, waiting, downloadLimit, downloadActive, uploadActive,
                 stageReserved, reservations, look, unseen>>

\* The function reserveStageRoom returned, called by stage on every way out.
ReleaseRoom(r) ==
  /\ stageReserved' = stageReserved - Size[r]
  /\ reservations' = reservations \ {r}

\* stage returns: the room and then the slot are given back.
StageEnds(r, next) ==
  /\ Go(r, "download", next)
  /\ ReleaseRoom(r) /\ ReleaseDownloadSlot
  /\ UNCHANGED <<downloadLimit, uploadActive, look, onDisk, unseen>>

Downloaded(r) == r \in onDisk /\ StageEnds(r, "push")
DownloadFails(r) == StageEnds(r, "broken")

AcquireUploadSlot(r) ==
  /\ gate[r] = "push" /\ r \notin waiting
  /\ \/ /\ uploadActive < UploadLimit
        /\ Go(r, "push", "upload")
        /\ uploadActive' = uploadActive + 1
        /\ UNCHANGED waiting
     \/ /\ uploadActive >= UploadLimit
        /\ waiting' = waiting \cup {r}
        /\ UNCHANGED <<gate, uploadActive>>
  /\ UNCHANGED <<downloadLimit, downloadActive, stageReserved, reservations, look, onDisk,
                 unseen>>

\* Mutant: the slot is given back and nobody is told.
UploadEndsQuietly(r, outcome) ==
  /\ Go(r, "upload", outcome)
  /\ uploadActive' = uploadActive - 1
  /\ UNCHANGED <<waiting, downloadLimit, downloadActive, stageReserved, reservations, look,
                 onDisk, unseen>>
\* upload returned, and releaseUpload was called.
UploadEnds(r, outcome) ==
  /\ Go(r, "upload", outcome)
  /\ uploadActive' = uploadActive - 1
  /\ Signal
  /\ UNCHANGED <<downloadLimit, downloadActive, stageReserved, reservations, look, onDisk,
                 unseen>>

\* applySettings: a new limit wakes the sleepers as a free slot does.
SetDownloadLimit(n) ==
  /\ n \in DownloadLimits /\ n # downloadLimit
  /\ downloadLimit' = n
  /\ Signal
  /\ UNCHANGED <<gate, downloadActive, uploadActive, stageReserved, reservations, look,
                 onDisk, unseen>>

\* The deferred ends of transfer; a delivered row's copy is discarded.
LeaveGates(r, discard) ==
  /\ gate[r] \in {"sent", "broken"}
  /\ gate' = [gate EXCEPT ![r] = "out"]
  /\ onDisk' = IF discard THEN onDisk \ {r} ELSE onDisk
  /\ unseen' = unseen \cap onDisk'
  /\ UNCHANGED <<waiting, downloadLimit, downloadActive, uploadActive, stageReserved,
                 reservations, look>>

\* A restart: counters and goroutines are gone, the files of rows that are not
\* complete stay.
ResetGates(complete) ==
  /\ gate' = [r \in Row |-> "out"]
  /\ waiting' = {} /\ UNCHANGED downloadLimit
  /\ downloadActive' = 0 /\ uploadActive' = 0
  /\ stageReserved' = 0 /\ reservations' = {}
  /\ look' = [r \in Row |-> NoLook]
  /\ onDisk' = onDisk \ complete
  /\ unseen' = unseen \cap onDisk'

----------------------------------------------------------------------------
\* The counters are those of the goroutines that hold something.
SlotsCounted ==
  /\ downloadActive = Cardinality({r \in Row : gate[r] \in HoldsDownload})
  /\ uploadActive = Cardinality({r \in Row : gate[r] = "upload"})
  /\ uploadActive <= UploadLimit
  /\ reservations = {r \in Row : gate[r] = "download"}
  /\ stageReserved = Weight(reservations)

\* Nobody sleeps beside a free slot: the broadcast channel loses no wake-up,
\* although the limit may be raised and slots of both kinds share the channel
\* (acquireDownloadSlot, acquireUploadSlot, applySettings).
NoneSleepsBesideFreeSlot == \A r \in waiting :
  \/ gate[r] = "slot" /\ downloadActive >= downloadLimit
  \/ gate[r] = "push" /\ uploadActive >= UploadLimit

\* The staging area holds what its limit allows, or one file beside empty ones, but
\* for the files that were reserved when a walk began and unreserved when it was
\* compared (reserveStageRoom gives the lock up in between).
StageWithinLimit == WithinLimit((reservations \cup onDisk) \ unseen, StageLimit)
=============================================================================
