------------------------- MODULE TransferResources -------------------------
(***************************************************************************)
(* Everything rows of the queue compete for: the quota they are dispatched *)
(* under, the slots and the staging room they wait for, and the quota they *)
(* are charged to.  QuotaLedger and TransferGates share nothing but the    *)
(* rows; the steps here are theirs, joined where a goroutine goes from one *)
(* to the other.  Both hang on the clock: files are started while the      *)
(* window is open, and a period ends at ResetAt.  Of the clock only the    *)
(* minute is kept.  Rows neither fail for good nor leave the queue here.   *)
(***************************************************************************)
EXTENDS QuotaLedger, TransferGates, QuotaClock

CONSTANTS
  Schedule,        (* settings.Schedule                                     *)
  ResetAt          (* settings.Quota.ResetAt                                *)

ASSUME SettingsAssumption == Schedule \in Schedules /\ ResetAt \in Fields

VARIABLE minute    (* of time.Now()                                         *)

vars == <<quotaVars, gateVars, minute>>

Now == [date |-> 0, minute |-> minute]

Init == QuotaInit /\ GatesInit /\ minute \in 0..(DayLength - 1)

----------------------------------------------------------------------------
\* tick and dispatch: while the window is open, as many goroutines as the larger
\* of the two limits.
Dispatch(r) ==
  /\ Open(Schedule, Now) /\ UNCHANGED minute
  /\ Cardinality(InFlight) < Max({downloadLimit, UploadLimit})
  /\ Take(r) /\ EnterGates(r)

SpendFault ==
  /\ faults < MaxFaults /\ faults' = faults + 1
  /\ UNCHANGED <<row, work, reserved, used, current, quotaDirty, disk, erased, debt>>

AtGate(r) ==
  \/ /\ UNCHANGED quotaVars
     /\ \/ AcquireDownloadSlot(r) \/ AcquireUploadSlot(r) \/ NoteReservations(r)
        \/ WalkStaging(r) \/ ReserveRoom(r) \/ RefuseRoom(r) \/ Preallocate(r)
        \/ Downloaded(r)
  \/ SpendFault /\ (DownloadFails(r) \/ UploadEnds(r, "broken"))
  \/ Commit(r) /\ UploadEnds(r, "sent")

InLedger(r) ==
  \/ /\ UNCHANGED gateVars
     /\ Charge(r) \/ SaveQueue(r) \/ RollBack(r) \/ SaveQuota(r)
  \/ gate[r] \in {"sent", "broken"} /\ Requeue(r) /\ UNCHANGED gateVars
  \/ Leave(r) /\ LeaveGates(r, r \in Complete)

Transfer(r) == AtGate(r) \/ InLedger(r)

Restart == CrashAndLoad /\ ResetGates({r \in Row : Recovered[r] \in {"today", "done"}})

Background ==
  \/ UNCHANGED gateVars /\ (FlushQueue \/ FlushQuota \/ Roll)
  \/ UNCHANGED quotaVars /\ \E n \in DownloadLimits : SetDownloadLimit(n)

\* A minute passes; the next one may belong to another period.
Passes ==
  /\ minute' = Later(Now).minute
  /\ IF Day(ResetAt, Later(Now)) # Day(ResetAt, Now) THEN Turn ELSE UNCHANGED quotaVars
  /\ UNCHANGED gateVars

Continues(r) ==
  /\ Transfer(r) \/ (BackoffEnds(r) /\ UNCHANGED gateVars)
  /\ UNCHANGED minute

Next ==
  \/ \E r \in Row : Dispatch(r) \/ Continues(r)
  \/ (Background \/ Restart) /\ UNCHANGED minute
  \/ Passes

Spec == Init /\ [][Next]_vars

\* The scheduler ticks, goroutines run and calls end, backoffs and minutes pass.
FairSpec ==
  /\ Spec
  /\ \A r \in Row : WF_vars(Continues(r)) /\ SF_vars(Dispatch(r))
  /\ WF_vars(Passes) /\ WF_vars(Roll /\ UNCHANGED <<gateVars, minute>>)

----------------------------------------------------------------------------
TypeOK == QuotaTypeOK /\ GatesTypeOK /\ minute \in 0..(DayLength - 1)

\* Every counter is what is held by the goroutines there are, across a day that
\* turns over and every way a goroutine can end: no allowance, slot or room
\* leaks, and none is given back twice.
CountersExact == reserved = Weight(InFlight) /\ SlotsCounted

\* A day's deliveries keep to DailyBytes, or are one file that alone exceeds it,
\* although rows in flight are charged later, persisting fails and the process
\* restarts (quotaAllowsLocked, complete, Load).  Left out: rows delivered
\* before rollQuota noticed the new day, and a roll-back of one of those.
DayWithinLimit == DailyLimit > 0 /\ ~debt => WithinLimit(Today \ erased, DailyLimit)

\* The counter never shows less than what was delivered, after a crash neither,
\* whatever of the two documents was written before (complete, Load).
LedgerCovers == current /\ ~debt => used >= Weight(Today \ erased)

\* A delivered row whose completion was saved is never transferred again, even
\* if the process dies before anything else is written (complete).
CompletedStays == [][\A r \in Row :
  r \in Complete /\ work[r] \in {"saved", "leave", "idle"} => r \in Complete']_vars

\* Every row is delivered in the end: neither the quota, a file above it, a full
\* staging area nor a lost wake-up stops the queue for good.  Left out: failed
\* rows that keep more bytes than the staging area may hold refuse each other.
Overfull == StageLimit > 0 /\ Weight(onDisk) > StageLimit /\ Cardinality(onDisk) > 1
EveryRowEnds == <>[]Overfull \/ \A r \in Row : <>[](r \in Complete)

\* The moment named for a closed window is the first at which rows are dispatched
\* again, for windows that wrap past midnight too, and none is named while the
\* window is open or the schedule off (Schedule.Open, NextOpen).
WindowTold ==
  LET next == NextOpen(Schedule, Now) IN
  IF Schedule.enabled /\ ~Open(Schedule, Now)
  THEN /\ Before(Now, next) /\ AtMost(next, Days(Now, 1)) /\ Open(Schedule, next)
       /\ \A t \in [date: {0, next.date}, minute: 0..(DayLength - 1)] :
            AtMost(Now, t) /\ Before(t, next) => ~Open(Schedule, t)
  ELSE next = Never
=============================================================================
