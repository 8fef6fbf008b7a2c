---------------------------- MODULE QuotaLedger ----------------------------
(***************************************************************************)
(* The daily quota: what is reserved for rows in flight, what is charged   *)
(* when a row is delivered, the two documents they are kept in, and what a *)
(* restart makes of them.                                                  *)
(*                                                                         *)
(* A period is only told from the ones before it.  A row delivered in the  *)
(* present period is "today", before it "done"; Turn is the moment named   *)
(* by ResetAt, which the counter notices with the next Roll.               *)
(***************************************************************************)
EXTENDS TransferRows

CONSTANTS
  DailyLimit,      (* settings.Quota.DailyBytes; 0 is unlimited             *)
  MaxFaults        (* faults in one behaviour                               *)

ASSUME QuotaAssumption == DailyLimit \in Nat /\ MaxFaults \in Nat

VARIABLES
  row,             (* Item.State and Stage, and when FinishedAt was         *)
  work,            (* where the row's goroutine is around transfer          *)
  reserved,        (* Engine.reserved                                       *)
  used,            (* Engine.quota.UsedBytes                                *)
  current,         (* Engine.quota.Day names the present period             *)
  quotaDirty,      (* Engine.quotaDirty                                     *)
  disk,            (* the documents under queueKey and quotaKey             *)
  erased,          (* history: rows of today a Roll took from the counter   *)
  debt,            (* history: a roll-back took out what a Roll had         *)
  faults

quotaVars == <<row, work, reserved, used, current, quotaDirty, disk, erased, debt, faults>>

----------------------------------------------------------------------------
RowStates == {"pending", "held", "running", "finishing", "today", "done"}
Complete == {r \in Row : row[r] \in {"today", "done"}}
Today == {r \in Row : row[r] = "today"}
InFlight == {r \in Row : work[r] # "idle"}

QuotaTypeOK ==
  /\ row \in [Row -> RowStates]
  /\ work \in [Row -> {"idle", "transfer", "commit", "charged", "saved", "rollback",
                       "requeue", "leave"}]
  /\ reserved \in Nat /\ used \in Int
  /\ current \in BOOLEAN /\ quotaDirty \in BOOLEAN
  /\ disk \in [row: [Row -> RowStates], used: Int, current: BOOLEAN]
  /\ erased \subseteq Row /\ debt \in BOOLEAN
  /\ faults \in 0..MaxFaults

QuotaInit ==
  /\ row = [r \in Row |-> "pending"] /\ work = [r \in Row |-> "idle"]
  /\ reserved = 0 /\ used = 0 /\ current = TRUE /\ quotaDirty = FALSE
  /\ disk = [row |-> row, used |-> 0, current |-> TRUE]
  /\ erased = {} /\ debt = FALSE /\ faults = 0

----------------------------------------------------------------------------
WorkGoes(r, from, to) == work[r] = from /\ work' = [work EXCEPT ![r] = to]

\* A write of a document: it succeeds, or at the cost of a fault it fails, with
\* the document written (only the answer was lost) or not.
Saves(ok, wrote) ==
  /\ ok => wrote
  /\ ok \/ faults < MaxFaults
  /\ faults' = IF ok THEN faults ELSE faults + 1

PersistQueue(wrote) == disk' = IF wrote THEN [disk EXCEPT !.row = row'] ELSE disk
PersistQuota(wrote) ==
  disk' = IF wrote THEN [disk EXCEPT !.used = used', !.current = current'] ELSE disk

\* Mutant: only what has been committed counts.
AllowsUsed(size) ==
  \/ DailyLimit = 0
  \/ used + size <= DailyLimit
  \/ size > DailyLimit /\ used = 0 /\ reserved = 0
\* quotaAllowsLocked: a file larger than the limit goes alone, on an untouched day.
Allows(size) ==
  \/ DailyLimit = 0
  \/ used + reserved + size <= DailyLimit
  \/ size > DailyLimit /\ used = 0 /\ reserved = 0

Eligible(r) == row[r] = "pending" /\ work[r] = "idle"

\* takeNextWithRun: the first eligible row is taken, or blocks those behind it.
Take(r) ==
  /\ Eligible(r) /\ \A p \in Row : Eligible(p) => r <= p
  /\ Allows(Size[r])
  /\ row' = [row EXCEPT ![r] = "running"]
  /\ WorkGoes(r, "idle", "transfer")
  /\ reserved' = reserved + Size[r]
  /\ UNCHANGED <<used, current, quotaDirty, disk, erased, debt, faults>>

\* setStage(StageFinishing): the host has committed the file.
Commit(r) ==
  /\ row' = [row EXCEPT ![r] = "finishing"]
  /\ WorkGoes(r, "transfer", "commit")
  /\ UNCHANGED <<reserved, used, current, quotaDirty, disk, erased, debt, faults>>

\* complete, first section.
Charge(r) ==
  /\ row' = [row EXCEPT ![r] = "today"]
  /\ WorkGoes(r, "commit", "charged")
  /\ used' = used + Size[r] /\ quotaDirty' = TRUE
  /\ UNCHANGED <<reserved, current, disk, erased, debt, faults>>

\* Mutant: the completed row is left to the next flush.
SaveQueueLater(r) ==
  /\ WorkGoes(r, "charged", "saved")
  /\ UNCHANGED <<row, reserved, used, current, quotaDirty, disk, erased, debt, faults>>
\* The queue is persisted first; its failure takes the completion back.
SaveQueue(r) == \E ok, wrote \in BOOLEAN :
  /\ Saves(ok, wrote)
  /\ WorkGoes(r, "charged", IF ok THEN "saved" ELSE "rollback")
  /\ UNCHANGED <<row, reserved, used, current, quotaDirty, erased, debt>>
  /\ PersistQueue(wrote)

\* The size is subtracted whatever period it was added in.
RollBack(r) ==
  /\ row' = [row EXCEPT ![r] = "finishing"]
  /\ WorkGoes(r, "rollback", "requeue")
  /\ used' = used - Size[r] /\ quotaDirty' = TRUE
  /\ debt' = (debt \/ r \in erased) /\ erased' = erased \ {r}
  /\ UNCHANGED <<reserved, current, disk, faults>>

SaveQuota(r) == \E ok, wrote \in BOOLEAN :
  /\ Saves(ok, wrote)
  /\ WorkGoes(r, "saved", "leave")
  /\ UNCHANGED <<row, reserved, used, current, erased, debt>>
  /\ quotaDirty' = (quotaDirty /\ ~ok)
  /\ PersistQuota(wrote)

\* deferUntilLogin, deferUntilResource, deferUntilRestart and retryLater.
Requeue(r) == \E ok, wrote \in BOOLEAN :
  /\ Saves(ok, wrote)
  /\ row' = [row EXCEPT ![r] = "held"]
  /\ WorkGoes(r, "requeue", "leave") \/ WorkGoes(r, "transfer", "leave")
  /\ UNCHANGED <<reserved, used, current, quotaDirty, erased, debt>>
  /\ PersistQueue(wrote)

\* Mutant: only a delivered row gives its allowance back.
LeaveReserved(r) ==
  /\ WorkGoes(r, "leave", "idle")
  /\ reserved' = IF r \in Complete THEN reserved - Size[r] ELSE reserved
  /\ UNCHANGED <<row, used, current, quotaDirty, disk, erased, debt, faults>>
\* The deferred releaseReservation.
Leave(r) ==
  /\ WorkGoes(r, "leave", "idle")
  /\ reserved' = IF reserved < Size[r] THEN 0 ELSE reserved - Size[r]
  /\ UNCHANGED <<row, used, current, quotaDirty, disk, erased, debt, faults>>

\* NextAttemptAt has passed, seconds after the goroutine has gone.
BackoffEnds(r) ==
  /\ row[r] = "held" /\ work[r] = "idle"
  /\ row' = [row EXCEPT ![r] = "pending"]
  /\ UNCHANGED <<work, reserved, used, current, quotaDirty, disk, erased, debt, faults>>

----------------------------------------------------------------------------
\* flushIfDue and the other calls that persist whatever there is.
FlushQueue ==
  /\ disk.row # row
  /\ UNCHANGED <<row, work, reserved, used, current, quotaDirty, erased, debt, faults>>
  /\ PersistQueue(TRUE)

FlushQuota ==
  /\ quotaDirty /\ quotaDirty' = FALSE
  /\ UNCHANGED <<row, work, reserved, used, current, erased, debt, faults>>
  /\ PersistQuota(TRUE)

Yesterday(rows) == [r \in Row |-> IF rows[r] = "today" THEN "done" ELSE rows[r]]

\* The clock passes ResetAt.
Turn ==
  /\ row' = Yesterday(row)
  /\ current' = FALSE
  /\ disk' = [disk EXCEPT !.row = Yesterday(disk.row), !.current = FALSE]
  /\ erased' = {r \in erased : work[r] \in {"charged", "rollback"}}
  /\ UNCHANGED <<work, reserved, used, quotaDirty, debt, faults>>

\* rollQuota, with the write that follows it.
Roll == \E ok, wrote \in BOOLEAN :
  /\ ~current /\ current' = TRUE /\ used' = 0
  /\ Saves(ok, wrote)
  /\ erased' = erased \cup Today \cup {r \in Row : work[r] \in {"charged", "rollback"}}
  /\ quotaDirty' = ~ok
  /\ UNCHANGED <<row, work, reserved, debt>>
  /\ PersistQuota(wrote)

----------------------------------------------------------------------------
\* What Load makes of the queue: a row that was running starts again, unless it
\* had reached StageFinishing.
Recovered == [r \in Row |->
  CASE disk.row[r] = "running" -> "pending"
    [] disk.row[r] = "finishing" -> "today"
    [] OTHER -> disk.row[r]]

\* Mutant: the document is believed.
StoredUsed == disk.used + Weight({r \in Row : disk.row[r] = "finishing"})
\* ... and of the counter: never less than the rows of today make out.
HealedUsed ==
  LET finishing == {r \in Row : disk.row[r] = "finishing"}
      today == {r \in Row : Recovered[r] = "today"}
      charged == disk.used + Weight(finishing)
  IN IF Weight(today) > charged THEN Weight(today) ELSE charged

\* The process dies and Load runs.  When it has changed something it persists
\* both documents and does not look at the result; they are written or not.
CrashAndLoad == \E queueToo, quotaToo \in BOOLEAN :
  /\ faults < MaxFaults /\ faults' = faults + 1
  /\ row' = Recovered /\ used' = HealedUsed /\ current' = disk.current
  /\ LET changed == used' # disk.used \/ \E r \in Row : disk.row[r] = "finishing" IN
       /\ (queueToo \/ quotaToo) => changed
       /\ disk' = [row     |-> IF queueToo THEN row' ELSE disk.row,
                   used    |-> IF quotaToo THEN used' ELSE disk.used,
                   current |-> disk.current]
  /\ work' = [r \in Row |-> "idle"] /\ reserved' = 0 /\ quotaDirty' = FALSE
  /\ erased' = {r \in erased : row'[r] = "today"} /\ UNCHANGED debt
=============================================================================
