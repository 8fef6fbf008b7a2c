-------------------------- MODULE ResourcesProofs --------------------------
(***************************************************************************)
(* Proofs about TransferResources: every counter is exact, nobody sleeps   *)
(* beside a free slot, the staging area and the day keep to their limits,  *)
(* the counter covers what was delivered, a delivered row stays delivered, *)
(* and the page tells when the window opens, for any number of rows,       *)
(* sizes, limits, faults and minutes.                                      *)
(***************************************************************************)
EXTENDS TransferResources, QuotaClockProofs, FiniteSetTheorems, WellFoundedInduction

----------------------------------------------------------------------------
(* The gates: who is where, and how many.                                   *)
GateNames == {"out", "slot", "push", "upload", "sent", "broken"} \cup HoldsDownload

Holding(where) == {r \in Row : gate[r] \in where}

GatesTyped ==
  /\ gate \in [Row -> GateNames] /\ waiting \subseteq Row
  /\ downloadLimit \in DownloadLimits

SlotsHeld ==
  /\ downloadActive = Cardinality(Holding(HoldsDownload))
  /\ uploadActive = Cardinality(Holding({"upload"}))
  /\ uploadActive <= UploadLimit
  /\ reservations = Holding({"download"})

GatesInv == GatesTyped /\ SlotsHeld /\ NoneSleepsBesideFreeSlot

LEMMA RowsFinite == IsFiniteSet(Row)
  BY RowsAssumption, FS_Interval DEF Row

LEMMA HoldingFinite ==
  ASSUME NEW where  PROVE IsFiniteSet(Holding(where)) /\ Cardinality(Holding(where)) \in Nat
  BY RowsFinite, FS_Subset, FS_CardinalityType DEF Holding

\* A row moves from one place to another: what a count of places makes of it.
LEMMA HoldingMoves ==
  ASSUME GatesTyped, NEW r \in Row, NEW to, gate' = [gate EXCEPT ![r] = to], NEW where
  PROVE  /\ gate[r] \in where /\ to \in where => Holding(where)' = Holding(where)
         /\ gate[r] \notin where /\ to \notin where => Holding(where)' = Holding(where)
         /\ gate[r] \notin where /\ to \in where =>
              /\ Holding(where)' = Holding(where) \cup {r}
              /\ Cardinality(Holding(where)') = Cardinality(Holding(where)) + 1
         /\ gate[r] \in where /\ to \notin where =>
              /\ Holding(where)' = Holding(where) \ {r}
              /\ Cardinality(Holding(where)') = Cardinality(Holding(where)) - 1
  <1>1. \A s \in Row : gate'[s] = IF s = r THEN to ELSE gate[s] BY DEF GatesTyped
  <1>2. CASE (gate[r] \in where) <=> (to \in where)
    BY <1>1, <1>2 DEF Holding
  <1>3. CASE gate[r] \notin where /\ to \in where
    <2>1. Holding(where)' = Holding(where) \cup {r} /\ r \notin Holding(where)
      BY <1>1, <1>3 DEF Holding
    <2> QED BY <1>3, <2>1, HoldingFinite, FS_AddElement
  <1>4. CASE gate[r] \in where /\ to \notin where
    <2>1. Holding(where)' = Holding(where) \ {r} /\ r \in Holding(where)
      BY <1>1, <1>4 DEF Holding
    <2> QED BY <1>4, <2>1, HoldingFinite, FS_RemoveElement
  <1> QED BY <1>2, <1>3, <1>4

LEMMA Uncounted ==
  ASSUME GatesTyped, NEW r \in Row, NEW to, gate' = [gate EXCEPT ![r] = to], NEW where,
         gate[r] \in where <=> to \in where
  PROVE  Holding(where)' = Holding(where)
  BY HoldingMoves

\* Nobody asleep is moved.
LEMMA SleepersStay ==
  ASSUME GatesInv, NEW r \in Row, NEW to, gate' = [gate EXCEPT ![r] = to], r \notin waiting,
         waiting' = waiting, downloadLimit' = downloadLimit,
         downloadActive' \in Nat, uploadActive' \in Nat,
         downloadActive' >= downloadActive, uploadActive' >= uploadActive
  PROVE  NoneSleepsBesideFreeSlot'
  <1>1. \A s \in waiting' : gate'[s] = gate[s] BY DEF GatesInv, GatesTyped
  <1>2. downloadActive \in Nat /\ uploadActive \in Nat
    BY HoldingFinite DEF GatesInv, SlotsHeld
  <1>3. downloadLimit \in Nat /\ UploadLimit \in Nat
    BY GatesAssumption DEF GatesInv, GatesTyped
  <1>4. ASSUME NEW s \in waiting'
        PROVE  \/ gate'[s] = "slot" /\ downloadActive' >= downloadLimit'
               \/ gate'[s] = "push" /\ uploadActive' >= UploadLimit
    <2>1. \/ gate[s] = "slot" /\ downloadActive >= downloadLimit
          \/ gate[s] = "push" /\ uploadActive >= UploadLimit
      BY DEF GatesInv, NoneSleepsBesideFreeSlot
    <2>2. downloadActive >= downloadLimit => downloadActive' >= downloadLimit'
      BY <1>2, <1>3
    <2>3. uploadActive >= UploadLimit => uploadActive' >= UploadLimit BY <1>2, <1>3
    <2> QED BY <1>1, <2>1, <2>2, <2>3
  <1> QED BY <1>4 DEF NoneSleepsBesideFreeSlot

LEMMA SleepersAt == GatesInv => \A r \in waiting : gate[r] \in {"slot", "push"}
  BY DEF GatesInv, NoneSleepsBesideFreeSlot

\* A step within a slot, or outside of any: nobody is counted differently.
LEMMA CountsStay ==
  ASSUME GatesInv, NEW r \in Row, NEW to \in GateNames, gate' = [gate EXCEPT ![r] = to],
         gate[r] \in HoldsDownload <=> to \in HoldsDownload,
         gate[r] = "upload" <=> to = "upload", gate[r] = "download" <=> to = "download",
         UNCHANGED <<downloadActive, uploadActive, reservations>>
  PROVE  SlotsHeld'
  <1>1. Holding(HoldsDownload)' = Holding(HoldsDownload) BY Uncounted DEF GatesInv
  <1>2. Holding({"upload"})' = Holding({"upload"}) BY Uncounted DEF GatesInv
  <1>3. Holding({"download"})' = Holding({"download"}) BY Uncounted DEF GatesInv
  <1> QED BY <1>1, <1>2, <1>3 DEF GatesInv, SlotsHeld

LEMMA TypedMoves ==
  ASSUME GatesTyped, NEW r \in Row, NEW to \in GateNames, gate' = [gate EXCEPT ![r] = to],
         waiting' \subseteq Row, downloadLimit' = downloadLimit
  PROVE  GatesTyped'
  BY DEF GatesTyped

LEMMA MoveGates ==
  ASSUME GatesInv, NEW r \in Row, r \notin waiting, NEW to \in GateNames,
         gate' = [gate EXCEPT ![r] = to],
         gate[r] \in HoldsDownload <=> to \in HoldsDownload,
         gate[r] = "upload" <=> to = "upload", gate[r] = "download" <=> to = "download",
         UNCHANGED <<waiting, downloadLimit, downloadActive, uploadActive, reservations>>
  PROVE  GatesInv'
  <1>1. /\ downloadActive' >= downloadActive /\ uploadActive' >= uploadActive
        /\ downloadActive' \in Nat /\ uploadActive' \in Nat
    BY HoldingFinite DEF GatesInv, SlotsHeld
  <1>2. NoneSleepsBesideFreeSlot' BY <1>1, SleepersStay
  <1>3. SlotsHeld' BY CountsStay
  <1>4. GatesTyped' BY TypedMoves DEF GatesInv, GatesTyped
  <1> QED BY <1>2, <1>3, <1>4 DEF GatesInv

LEMMA InitGates == Init => GatesInv
  <1> SUFFICES ASSUME Init PROVE GatesInv OBVIOUS
  <1>1. GatesTyped BY DEF Init, GatesInit, GatesTyped, GateNames
  <1>2. \A r \in Row : gate[r] = "out" BY DEF Init, GatesInit
  <1>3. Holding(HoldsDownload) = {} /\ Holding({"upload"}) = {} /\ Holding({"download"}) = {}
    BY <1>2 DEF Holding, HoldsDownload
  <1>4. SlotsHeld
    BY <1>3, FS_EmptySet, GatesAssumption DEF Init, GatesInit, SlotsHeld
  <1>5. NoneSleepsBesideFreeSlot BY DEF Init, GatesInit, NoneSleepsBesideFreeSlot
  <1> QED BY <1>1, <1>4, <1>5 DEF GatesInv

LEMMA EnterGatesInv == ASSUME GatesInv, NEW r \in Row, EnterGates(r)  PROVE GatesInv'
  <1>1. gate[r] = "out" /\ gate' = [gate EXCEPT ![r] = "slot"] BY DEF EnterGates, Go
  <1>2. r \notin waiting BY <1>1, SleepersAt
  <1>3. "slot" \in GateNames BY DEF GateNames
  <1> QED BY <1>1, <1>2, <1>3, MoveGates DEF EnterGates, HoldsDownload

\* Falling asleep: only when there is no slot.
LEMMA SleepsInv ==
  ASSUME GatesInv, NEW r \in Row,
         \/ gate[r] = "slot" /\ downloadActive >= downloadLimit
         \/ gate[r] = "push" /\ uploadActive >= UploadLimit,
         waiting' = waiting \cup {r},
         UNCHANGED <<gate, downloadLimit, downloadActive, uploadActive, reservations>>
  PROVE  GatesInv'
  <1>1. GatesTyped' BY DEF GatesInv, GatesTyped
  <1>2. SlotsHeld' BY DEF GatesInv, SlotsHeld, Holding
  <1>3. NoneSleepsBesideFreeSlot' BY DEF GatesInv, NoneSleepsBesideFreeSlot
  <1> QED BY <1>1, <1>2, <1>3 DEF GatesInv

LEMMA AcquireDownloadInv ==
  ASSUME GatesInv, NEW r \in Row, AcquireDownloadSlot(r)  PROVE GatesInv'
  <1>1. CASE /\ downloadActive < downloadLimit
             /\ Go(r, "slot", "room")
             /\ downloadActive' = downloadActive + 1
             /\ UNCHANGED waiting
    <2>1. gate[r] = "slot" /\ gate' = [gate EXCEPT ![r] = "room"] /\ r \notin waiting
      BY <1>1 DEF Go, AcquireDownloadSlot
    <2>2. "room" \in GateNames /\ "room" \in HoldsDownload /\ "slot" \notin HoldsDownload
      BY DEF GateNames, HoldsDownload
    <2>3. downloadActive \in Nat /\ uploadActive \in Nat
      BY HoldingFinite DEF GatesInv, SlotsHeld
    <2>4. UNCHANGED <<downloadLimit, uploadActive, reservations, waiting>>
      BY <1>1 DEF AcquireDownloadSlot
    <2>5. GatesTyped' BY <2>1, <2>2, <2>4, TypedMoves DEF GatesInv, GatesTyped
    <2>6. /\ downloadActive' >= downloadActive /\ uploadActive' >= uploadActive
          /\ downloadActive' \in Nat /\ uploadActive' \in Nat
      BY <1>1, <2>3, <2>4
    <2>7. NoneSleepsBesideFreeSlot' BY <2>1, <2>4, <2>6, SleepersStay
    <2>8. Cardinality(Holding(HoldsDownload)') = Cardinality(Holding(HoldsDownload)) + 1
      <3>1. gate[r] \notin HoldsDownload /\ "room" \in HoldsDownload /\ GatesTyped
        BY <2>1, <2>2 DEF GatesInv
      <3> QED BY <2>1, <3>1, HoldingMoves
    <2>9. /\ Holding({"upload"})' = Holding({"upload"})
          /\ Holding({"download"})' = Holding({"download"})
      <3>1. gate[r] \notin {"upload"} /\ "room" \notin {"upload"} BY <2>1
      <3>2. gate[r] \notin {"download"} /\ "room" \notin {"download"} BY <2>1
      <3>3. Holding({"upload"})' = Holding({"upload"}) BY <2>1, <3>1, Uncounted DEF GatesInv
      <3>4. Holding({"download"})' = Holding({"download"})
        BY <2>1, <3>2, Uncounted DEF GatesInv
      <3> QED BY <3>3, <3>4
    <2>10. SlotsHeld' BY <1>1, <2>4, <2>8, <2>9 DEF GatesInv, SlotsHeld
    <2> QED BY <2>5, <2>7, <2>10 DEF GatesInv
  <1>2. CASE /\ downloadActive >= downloadLimit
             /\ waiting' = waiting \cup {r}
             /\ UNCHANGED <<gate, downloadActive>>
    BY <1>2, SleepsInv DEF AcquireDownloadSlot
  <1> QED BY <1>1, <1>2 DEF AcquireDownloadSlot

LEMMA AcquireUploadInv ==
  ASSUME GatesInv, NEW r \in Row, AcquireUploadSlot(r)  PROVE GatesInv'
  <1>1. CASE /\ uploadActive < UploadLimit
             /\ Go(r, "push", "upload")
             /\ uploadActive' = uploadActive + 1
             /\ UNCHANGED waiting
    <2>1. gate[r] = "push" /\ gate' = [gate EXCEPT ![r] = "upload"] /\ r \notin waiting
      BY <1>1 DEF Go, AcquireUploadSlot
    <2>2. "upload" \in GateNames /\ "upload" \notin HoldsDownload /\ "push" \notin HoldsDownload
      BY DEF GateNames, HoldsDownload
    <2>3. downloadActive \in Nat /\ uploadActive \in Nat
      BY HoldingFinite DEF GatesInv, SlotsHeld
    <2>4. UNCHANGED <<downloadLimit, downloadActive, reservations, waiting>>
      BY <1>1 DEF AcquireUploadSlot
    <2>5. GatesTyped' BY <2>1, <2>2, <2>4, TypedMoves DEF GatesInv, GatesTyped
    <2>6. /\ downloadActive' >= downloadActive /\ uploadActive' >= uploadActive
          /\ downloadActive' \in Nat /\ uploadActive' \in Nat
      BY <1>1, <2>3, <2>4
    <2>7. NoneSleepsBesideFreeSlot' BY <2>1, <2>4, <2>6, SleepersStay
    <2>8. Cardinality(Holding({"upload"})') = Cardinality(Holding({"upload"})) + 1
      BY <2>1, HoldingMoves DEF GatesInv
    <2>9. /\ Holding(HoldsDownload)' = Holding(HoldsDownload)
          /\ Holding({"download"})' = Holding({"download"})
      <3>1. gate[r] \notin HoldsDownload BY <2>1, <2>2
      <3>2. gate[r] \notin {"download"} /\ "upload" \notin {"download"} BY <2>1
      <3>3. Holding(HoldsDownload)' = Holding(HoldsDownload)
        BY <2>1, <2>2, <3>1, Uncounted DEF GatesInv
      <3>4. Holding({"download"})' = Holding({"download"})
        BY <2>1, <3>2, Uncounted DEF GatesInv
      <3> QED BY <3>3, <3>4
    <2>10. uploadActive' <= UploadLimit BY <1>1, <2>3, GatesAssumption
    <2>11. SlotsHeld' BY <1>1, <2>4, <2>8, <2>9, <2>10 DEF GatesInv, SlotsHeld
    <2> QED BY <2>5, <2>7, <2>11 DEF GatesInv
  <1>2. CASE /\ uploadActive >= UploadLimit
             /\ waiting' = waiting \cup {r}
             /\ UNCHANGED <<gate, uploadActive>>
    BY <1>2, SleepsInv DEF AcquireUploadSlot
  <1> QED BY <1>1, <1>2 DEF AcquireUploadSlot

LEMMA LookInv ==
  ASSUME GatesInv, NEW r \in Row, NoteReservations(r) \/ WalkStaging(r)  PROVE GatesInv'
  <1>1. PICK to \in {"walk", "check"} :
          gate[r] \in {"room", "walk"} /\ gate' = [gate EXCEPT ![r] = to]
    BY DEF NoteReservations, WalkStaging, Go
  <1>2. r \notin waiting BY <1>1, SleepersAt
  <1>3. to \in GateNames BY DEF GateNames, HoldsDownload
  <1> QED BY <1>1, <1>2, <1>3, MoveGates DEF NoteReservations, WalkStaging, HoldsDownload

LEMMA ReserveRoomInv == ASSUME GatesInv, NEW r \in Row, ReserveRoom(r)  PROVE GatesInv'
  <1>1. gate[r] = "check" /\ gate' = [gate EXCEPT ![r] = "download"] BY DEF ReserveRoom, Go
  <1>2. r \notin waiting BY <1>1, SleepersAt
  <1>3. /\ "download" \in GateNames /\ "download" \in HoldsDownload /\ "check" \in HoldsDownload
    BY DEF GateNames, HoldsDownload
  <1>4. /\ UNCHANGED <<waiting, downloadLimit, downloadActive, uploadActive>>
        /\ reservations' = reservations \cup {r}
    BY DEF ReserveRoom
  <1>5. GatesTyped' BY <1>1, <1>3, <1>4, TypedMoves DEF GatesInv, GatesTyped
  <1>6. /\ downloadActive' >= downloadActive /\ uploadActive' >= uploadActive
        /\ downloadActive' \in Nat /\ uploadActive' \in Nat
    BY <1>4, HoldingFinite DEF GatesInv, SlotsHeld
  <1>7. NoneSleepsBesideFreeSlot' BY <1>1, <1>2, <1>4, <1>6, SleepersStay
  <1>8. /\ Holding(HoldsDownload)' = Holding(HoldsDownload)
        /\ Holding({"upload"})' = Holding({"upload"})
        /\ Holding({"download"})' = Holding({"download"}) \cup {r}
    <2>1. Holding(HoldsDownload)' = Holding(HoldsDownload)
      BY <1>1, <1>3, Uncounted DEF GatesInv
    <2>5. gate[r] \notin {"upload"} /\ "download" \notin {"upload"} BY <1>1
    <2>2. Holding({"upload"})' = Holding({"upload"}) BY <1>1, <2>5, Uncounted DEF GatesInv
    <2>3. gate[r] \notin {"download"} /\ "download" \in {"download"} BY <1>1
    <2>4. Holding({"download"})' = Holding({"download"}) \cup {r}
      BY <1>1, <2>3, HoldingMoves DEF GatesInv
    <2> QED BY <2>1, <2>2, <2>4
  <1>9. SlotsHeld' BY <1>4, <1>8 DEF GatesInv, SlotsHeld
  <1> QED BY <1>5, <1>7, <1>9 DEF GatesInv

\* A download slot is given back, with the room or without one: all wake up.
LEMMA ReleaseInv ==
  ASSUME GatesInv, NEW r \in Row, gate[r] \in {"check", "download"},
         NEW to \in {"push", "broken"}, gate' = [gate EXCEPT ![r] = to],
         ReleaseDownloadSlot, UNCHANGED <<downloadLimit, uploadActive>>,
         reservations' = IF gate[r] = "download" THEN reservations \ {r} ELSE reservations
  PROVE  GatesInv'
  <1>1. /\ to \in GateNames /\ to \notin HoldsDownload /\ gate[r] \in HoldsDownload
    BY DEF GateNames, HoldsDownload
  <1>2. GatesTyped' BY <1>1, TypedMoves DEF ReleaseDownloadSlot, Signal, GatesInv
  <1>3. NoneSleepsBesideFreeSlot' BY DEF ReleaseDownloadSlot, Signal, NoneSleepsBesideFreeSlot
  <1>4. /\ Cardinality(Holding(HoldsDownload)') = Cardinality(Holding(HoldsDownload)) - 1
        /\ Holding({"upload"})' = Holding({"upload"})
    BY <1>1, HoldingMoves DEF GatesInv
  <1>5. reservations' = Holding({"download"})' BY HoldingMoves DEF GatesInv, SlotsHeld
  <1>6. SlotsHeld' BY <1>4, <1>5 DEF ReleaseDownloadSlot, GatesInv, SlotsHeld
  <1> QED BY <1>2, <1>3, <1>6 DEF GatesInv

LEMMA StageInv ==
  ASSUME GatesInv, NEW r \in Row, RefuseRoom(r) \/ Downloaded(r) \/ DownloadFails(r)
  PROVE  GatesInv'
  <1>1. CASE RefuseRoom(r)
    <2>1. /\ gate[r] = "check" /\ gate' = [gate EXCEPT ![r] = "broken"] /\ ReleaseDownloadSlot
          /\ UNCHANGED <<downloadLimit, uploadActive, reservations>>
      BY <1>1 DEF RefuseRoom, Go
    <2> QED BY <2>1, ReleaseInv
  <1>2. ASSUME NEW to \in {"push", "broken"}, StageEnds(r, to)  PROVE GatesInv'
    <2>1. /\ gate[r] = "download" /\ gate' = [gate EXCEPT ![r] = to] /\ ReleaseDownloadSlot
          /\ UNCHANGED <<downloadLimit, uploadActive>> /\ reservations' = reservations \ {r}
      BY <1>2 DEF StageEnds, Go, ReleaseRoom
    <2> QED BY <2>1, ReleaseInv
  <1> QED BY <1>1, <1>2 DEF Downloaded, DownloadFails

LEMMA UploadEndsInv ==
  ASSUME GatesInv, NEW r \in Row, NEW to \in {"sent", "broken"}, UploadEnds(r, to)
  PROVE  GatesInv'
  <1>1. /\ gate[r] = "upload" /\ gate' = [gate EXCEPT ![r] = to] /\ waiting' = {}
        /\ uploadActive' = uploadActive - 1
        /\ UNCHANGED <<downloadLimit, downloadActive, reservations>>
    BY DEF UploadEnds, Go, Signal
  <1>2. to \in GateNames /\ to \notin HoldsDownload /\ "upload" \notin HoldsDownload
    BY DEF GateNames, HoldsDownload
  <1>3. GatesTyped' BY <1>1, <1>2, TypedMoves DEF GatesInv
  <1>4. NoneSleepsBesideFreeSlot' BY <1>1 DEF NoneSleepsBesideFreeSlot
  <1>5. /\ Cardinality(Holding({"upload"})') = Cardinality(Holding({"upload"})) - 1
        /\ Holding(HoldsDownload)' = Holding(HoldsDownload)
        /\ Holding({"download"})' = Holding({"download"})
    <2>1. gate[r] \in {"upload"} /\ to \notin {"upload"} BY <1>1
    <2>2. Cardinality(Holding({"upload"})') = Cardinality(Holding({"upload"})) - 1
      BY <1>1, <2>1, HoldingMoves DEF GatesInv
    <2>3. Holding(HoldsDownload)' = Holding(HoldsDownload)
      BY <1>1, <1>2, Uncounted DEF GatesInv
    <2>4. Holding({"download"})' = Holding({"download"}) BY <1>1, Uncounted DEF GatesInv
    <2> QED BY <2>2, <2>3, <2>4
  <1>6. uploadActive \in Nat /\ UploadLimit \in Nat /\ uploadActive <= UploadLimit
    BY HoldingFinite, GatesAssumption DEF GatesInv, SlotsHeld
  <1>7. uploadActive' <= UploadLimit BY <1>1, <1>6
  <1>8. SlotsHeld' BY <1>1, <1>5, <1>7 DEF GatesInv, SlotsHeld
  <1> QED BY <1>3, <1>4, <1>8 DEF GatesInv

LEMMA LeaveGatesInv ==
  ASSUME GatesInv, NEW r \in Row, NEW discard, LeaveGates(r, discard)  PROVE GatesInv'
  <1>1. gate[r] \in {"sent", "broken"} /\ gate' = [gate EXCEPT ![r] = "out"] BY DEF LeaveGates
  <1>2. r \notin waiting BY <1>1, SleepersAt
  <1>3. "out" \in GateNames BY DEF GateNames
  <1> QED BY <1>1, <1>2, <1>3, MoveGates DEF LeaveGates, HoldsDownload

LEMMA SetLimitInv ==
  ASSUME GatesInv, NEW n \in DownloadLimits, SetDownloadLimit(n)  PROVE GatesInv'
  <1>1. GatesTyped' BY DEF SetDownloadLimit, Signal, GatesInv, GatesTyped
  <1>2. SlotsHeld' BY DEF SetDownloadLimit, GatesInv, SlotsHeld, Holding
  <1>3. NoneSleepsBesideFreeSlot' BY DEF SetDownloadLimit, Signal, NoneSleepsBesideFreeSlot
  <1> QED BY <1>1, <1>2, <1>3 DEF GatesInv

LEMMA ResetGatesInv ==
  ASSUME GatesInv, NEW complete, ResetGates(complete)  PROVE GatesInv'
  <1>1. GatesTyped' BY DEF ResetGates, GatesInv, GatesTyped, GateNames
  <1>2. /\ Holding(HoldsDownload)' = {} /\ Holding({"upload"})' = {}
        /\ Holding({"download"})' = {}
    BY DEF ResetGates, Holding, HoldsDownload
  <1>3. SlotsHeld' BY <1>2, FS_EmptySet, GatesAssumption DEF ResetGates, SlotsHeld
  <1>4. NoneSleepsBesideFreeSlot' BY DEF ResetGates, NoneSleepsBesideFreeSlot
  <1> QED BY <1>1, <1>3, <1>4 DEF GatesInv

LEMMA GatesStay ==
  ASSUME GatesInv, UNCHANGED <<gate, waiting, downloadLimit, downloadActive, uploadActive,
                               reservations>>
  PROVE  GatesInv'
  BY DEF GatesInv, GatesTyped, SlotsHeld, NoneSleepsBesideFreeSlot, Holding

gateLocals == <<gate, waiting, downloadLimit, downloadActive, uploadActive, reservations>>

LEMMA NextGates == ASSUME GatesInv, [Next]_vars  PROVE GatesInv'
  <1>1. ASSUME NEW r \in Row, Dispatch(r)  PROVE GatesInv'
    BY <1>1, EnterGatesInv DEF Dispatch
  <1>2. ASSUME NEW r \in Row, AtGate(r)  PROVE GatesInv'
    <2>1. CASE AcquireDownloadSlot(r) BY <2>1, AcquireDownloadInv
    <2>2. CASE AcquireUploadSlot(r) BY <2>2, AcquireUploadInv
    <2>3. CASE NoteReservations(r) \/ WalkStaging(r) BY <2>3, LookInv
    <2>4. CASE ReserveRoom(r) BY <2>4, ReserveRoomInv
    <2>5. CASE RefuseRoom(r) \/ Downloaded(r) \/ DownloadFails(r) BY <2>5, StageInv
    <2>6. CASE Preallocate(r) BY <2>6, GatesStay DEF Preallocate
    <2>7. CASE UploadEnds(r, "broken") \/ UploadEnds(r, "sent") BY <2>7, UploadEndsInv
    <2> QED BY <1>2, <2>1, <2>2, <2>3, <2>4, <2>5, <2>6, <2>7 DEF AtGate
  <1>3. ASSUME NEW r \in Row, InLedger(r)  PROVE GatesInv'
    <2>1. CASE UNCHANGED gateVars BY <2>1, GatesStay DEF gateVars
    <2>2. CASE LeaveGates(r, r \in Complete) BY <2>2, LeaveGatesInv
    <2> QED BY <1>3, <2>1, <2>2 DEF InLedger
  <1>4. CASE Background
    <2>1. CASE UNCHANGED gateVars BY <2>1, GatesStay DEF gateVars
    <2>2. ASSUME NEW n \in DownloadLimits, SetDownloadLimit(n)  PROVE GatesInv'
      BY <2>2, SetLimitInv
    <2> QED BY <1>4, <2>1, <2>2 DEF Background
  <1>5. CASE Restart BY <1>5, ResetGatesInv DEF Restart
  <1>6. CASE UNCHANGED gateVars BY <1>6, GatesStay DEF gateVars
  <1>7. UNCHANGED vars => UNCHANGED gateVars BY DEF vars
  <1>8. Passes => UNCHANGED gateVars BY DEF Passes
  <1> QED BY <1>1, <1>2, <1>3, <1>4, <1>5, <1>6, <1>7, <1>8 DEF Next, Continues, Transfer

LEMMA GatesHold == Spec => []GatesInv
  <1>1. Init => GatesInv BY InitGates
  <1>2. GatesInv /\ [Next]_vars => GatesInv' BY NextGates
  <1> QED BY <1>1, <1>2, PTL DEF Spec

\* A goroutine asleep on slotChanged has no free slot of its kind: whatever is
\* released, raised or reset, no wake-up is lost (acquireDownloadSlot,
\* acquireUploadSlot, applySettings, releaseDownload, releaseUpload).
THEOREM NobodySleeps == Spec => []NoneSleepsBesideFreeSlot
  <1>1. GatesInv => NoneSleepsBesideFreeSlot BY DEF GatesInv
  <1> QED BY <1>1, GatesHold, PTL

----------------------------------------------------------------------------
(* Delivered rows.  A row is shown as delivered before its completion is     *)
(* written; once the goroutine is past that write the document has it.       *)
Works == {"idle", "transfer", "commit", "charged", "saved", "rollback", "requeue", "leave"}

LedgerTyped ==
  /\ row \in [Row -> RowStates] /\ work \in [Row -> Works]
  /\ disk = [row |-> disk.row, used |-> disk.used, current |-> disk.current]
  /\ disk.row \in [Row -> RowStates]

Kept == {"finishing", "today", "done"}

DeliveredAt(r) == row[r] \in {"today", "done"} =>
  /\ work[r] \in {"idle", "charged", "saved", "rollback", "leave"}
  /\ work[r] \in {"idle", "saved", "leave"} => disk.row[r] \in Kept

LedgerInv == LedgerTyped /\ \A r \in Row : DeliveredAt(r)

Settled(r) == row[r] \in {"today", "done"} /\ work[r] \in {"saved", "leave", "idle"}

LedgerStep == LedgerInv' /\ \A r \in Row : Settled(r) => row'[r] \in {"today", "done"}

\* Both documents as a write leaves them.
LEMMA Written ==
  ASSUME LedgerTyped, NEW wrote \in BOOLEAN, PersistQueue(wrote), row' \in [Row -> RowStates]
  PROVE  /\ disk' = [row |-> disk'.row, used |-> disk'.used, current |-> disk'.current]
         /\ disk'.row = IF wrote THEN row' ELSE disk.row
  <1>1. PICK a, b, c : disk = [row |-> a, used |-> b, current |-> c] BY DEF LedgerTyped
  <1> QED BY <1>1 DEF PersistQueue

LEMMA QuotaWritten ==
  ASSUME LedgerTyped, NEW wrote \in BOOLEAN, PersistQuota(wrote)
  PROVE  /\ disk' = [row |-> disk'.row, used |-> disk'.used, current |-> disk'.current]
         /\ disk'.row = disk.row
  <1>1. PICK a, b, c : disk = [row |-> a, used |-> b, current |-> c] BY DEF LedgerTyped
  <1> QED BY <1>1 DEF PersistQuota

\* A row that is not settled goes its way; nothing is written.
LEMMA RowGoes ==
  ASSUME LedgerInv, NEW r \in Row, NEW state \in RowStates, NEW at \in Works,
         row' = [row EXCEPT ![r] = state], work' = [work EXCEPT ![r] = at], disk' = disk,
         ~Settled(r), state \in {"today", "done"} => at = "charged"
  PROVE  LedgerStep
  <1>1. LedgerTyped' BY DEF LedgerInv, LedgerTyped
  <1>2. \A s \in Row : row'[s] = IF s = r THEN state ELSE row[s]
    BY DEF LedgerInv, LedgerTyped
  <1>3. \A s \in Row : work'[s] = IF s = r THEN at ELSE work[s]
    BY DEF LedgerInv, LedgerTyped
  <1>4. \A s \in Row : DeliveredAt(s)' BY <1>2, <1>3 DEF LedgerInv, DeliveredAt
  <1>5. \A s \in Row : Settled(s) => row'[s] \in {"today", "done"} BY <1>2 DEF Settled
  <1> QED BY <1>1, <1>4, <1>5 DEF LedgerInv, LedgerStep

\* The queue document is written, or not, with the rows as they are now.
LEMMA QueueGoes ==
  ASSUME LedgerInv, NEW r \in Row, NEW state \in RowStates, NEW at \in Works,
         row' = [row EXCEPT ![r] = state], work' = [work EXCEPT ![r] = at],
         NEW wrote \in BOOLEAN, PersistQueue(wrote),
         ~Settled(r),
         state \in {"today", "done"} =>
           at \in {"charged", "saved", "rollback"} /\ (at = "saved" => wrote)
  PROVE  LedgerStep
  <1>1. row' \in [Row -> RowStates] /\ work' \in [Row -> Works]
    BY DEF LedgerInv, LedgerTyped
  <1>2. /\ disk' = [row |-> disk'.row, used |-> disk'.used, current |-> disk'.current]
        /\ disk'.row = IF wrote THEN row' ELSE disk.row
    BY <1>1, Written DEF LedgerInv
  <1>3. LedgerTyped' BY <1>1, <1>2 DEF LedgerInv, LedgerTyped
  <1>4. \A s \in Row : row'[s] = IF s = r THEN state ELSE row[s]
    BY DEF LedgerInv, LedgerTyped
  <1>5. \A s \in Row : work'[s] = IF s = r THEN at ELSE work[s]
    BY DEF LedgerInv, LedgerTyped
  <1>6. ASSUME NEW s \in Row  PROVE DeliveredAt(s)'
    <2>1. disk'.row[s] = IF wrote THEN row'[s] ELSE disk.row[s] BY <1>2
    <2> HIDE DEF PersistQueue
    <2> QED BY <1>4, <1>5, <2>1 DEF LedgerInv, DeliveredAt, Kept
  <1>7. \A s \in Row : Settled(s) => row'[s] \in {"today", "done"} BY <1>4 DEF Settled
  <1> QED BY <1>3, <1>6, <1>7 DEF LedgerInv, LedgerStep

\* Only the goroutine moves, from one settled place to the next.
LEMMA WorkGoesInv ==
  ASSUME LedgerInv, NEW r \in Row, NEW at \in {"leave", "idle"}, row' = row,
         work[r] \in {"saved", "leave"}, work' = [work EXCEPT ![r] = at],
         disk' = [row |-> disk'.row, used |-> disk'.used, current |-> disk'.current],
         disk'.row = disk.row
  PROVE  LedgerStep
  <1>1. LedgerTyped' BY DEF LedgerInv, LedgerTyped, Works
  <1>2. \A s \in Row : work'[s] = IF s = r THEN at ELSE work[s]
    BY DEF LedgerInv, LedgerTyped
  <1>3. \A s \in Row : DeliveredAt(s)' BY <1>2 DEF LedgerInv, DeliveredAt
  <1>4. \A s \in Row : Settled(s) => row'[s] \in {"today", "done"} BY DEF Settled
  <1> QED BY <1>1, <1>3, <1>4 DEF LedgerInv, LedgerStep

\* Nothing the proof speaks of changes, but for the quota in its document.
LEMMA LedgerStays ==
  ASSUME LedgerInv, UNCHANGED <<row, work>>,
         disk' = [row |-> disk'.row, used |-> disk'.used, current |-> disk'.current],
         disk'.row = disk.row
  PROVE  LedgerStep
  BY DEF LedgerInv, LedgerTyped, LedgerStep, DeliveredAt, Settled

LEMMA TransferStep ==
  ASSUME LedgerInv, NEW r \in Row,
         Take(r) \/ Commit(r) \/ Charge(r) \/ RollBack(r) \/ Requeue(r) \/ BackoffEnds(r)
  PROVE  LedgerStep
  <1>1. CASE Take(r)
    BY <1>1, RowGoes DEF Take, WorkGoes, Eligible, Settled, RowStates, Works
  <1>2. CASE Commit(r)
    BY <1>2, RowGoes DEF Commit, WorkGoes, Settled, RowStates, Works
  <1>3. CASE Charge(r)
    BY <1>3, RowGoes DEF Charge, WorkGoes, Settled, RowStates, Works
  <1>4. CASE RollBack(r)
    BY <1>4, RowGoes DEF RollBack, WorkGoes, Settled, RowStates, Works
  <1>5. CASE Requeue(r)
    <2>1. PICK wrote \in BOOLEAN : PersistQueue(wrote) /\ row' = [row EXCEPT ![r] = "held"]
      BY <1>5 DEF Requeue
    <2>2. work[r] \in {"requeue", "transfer"} /\ work' = [work EXCEPT ![r] = "leave"]
      BY <1>5 DEF Requeue, WorkGoes
    <2>3. "held" \in RowStates /\ "leave" \in Works /\ ~Settled(r)
      BY <2>2 DEF RowStates, Works, Settled
    <2> QED BY <2>1, <2>2, <2>3, QueueGoes
  <1>6. CASE BackoffEnds(r)
    <2>1. row' = [row EXCEPT ![r] = "pending"] /\ ~Settled(r) /\ disk' = disk
      BY <1>6 DEF BackoffEnds, Settled
    <2>2. work' = [work EXCEPT ![r] = work[r]] /\ work[r] \in Works
      BY <1>6 DEF BackoffEnds, LedgerInv, LedgerTyped
    <2>3. "pending" \in RowStates BY DEF RowStates
    <2> QED BY <2>1, <2>2, <2>3, RowGoes
  <1> QED BY <1>1, <1>2, <1>3, <1>4, <1>5, <1>6

LEMMA SaveQueueStep == ASSUME LedgerInv, NEW r \in Row, SaveQueue(r)  PROVE LedgerStep
  <1>1. PICK ok, wrote \in BOOLEAN :
          /\ Saves(ok, wrote) /\ PersistQueue(wrote) /\ row' = row
          /\ WorkGoes(r, "charged", IF ok THEN "saved" ELSE "rollback")
    BY DEF SaveQueue
  <1> DEFINE at == IF ok THEN "saved" ELSE "rollback"
  <1>2. at \in {"saved", "rollback"} /\ (at = "saved" => wrote) BY <1>1 DEF Saves
  <1>3. work[r] = "charged" /\ work' = [work EXCEPT ![r] = at] BY <1>1 DEF WorkGoes
  <1> HIDE DEF at
  <1>4. row' = [row EXCEPT ![r] = row[r]] /\ row[r] \in RowStates
    BY <1>1 DEF LedgerInv, LedgerTyped
  <1>5. at \in Works /\ ~Settled(r) BY <1>2, <1>3 DEF Works, Settled
  <1> QED BY <1>1, <1>2, <1>3, <1>4, <1>5, QueueGoes

LEMMA LeaveStep ==
  ASSUME LedgerInv, NEW r \in Row, SaveQuota(r) \/ Leave(r)  PROVE LedgerStep
  <1>1. CASE SaveQuota(r)
    <2>1. PICK wrote \in BOOLEAN : PersistQuota(wrote) BY <1>1 DEF SaveQuota
    <2>2. row' = row /\ work[r] = "saved" /\ work' = [work EXCEPT ![r] = "leave"]
      BY <1>1 DEF SaveQuota, WorkGoes
    <2> QED BY <2>1, <2>2, QuotaWritten, WorkGoesInv DEF LedgerInv
  <1>2. CASE Leave(r)
    <2>1. /\ row' = row /\ work[r] = "leave" /\ work' = [work EXCEPT ![r] = "idle"]
          /\ disk' = disk
      BY <1>2 DEF Leave, WorkGoes
    <2> QED BY <2>1, WorkGoesInv DEF LedgerInv, LedgerTyped
  <1> QED BY <1>1, <1>2

LEMMA FlushStep ==
  ASSUME LedgerInv, FlushQueue \/ FlushQuota \/ Roll  PROVE LedgerStep
  <1>1. CASE FlushQueue
    <2>1. row' = row /\ work' = work /\ PersistQueue(TRUE) BY <1>1 DEF FlushQueue
    <2>2. /\ disk' = [row |-> disk'.row, used |-> disk'.used, current |-> disk'.current]
          /\ disk'.row = row
      BY <2>1, Written DEF LedgerInv, LedgerTyped
    <2>3. LedgerTyped' BY <2>1, <2>2 DEF LedgerInv, LedgerTyped
    <2>4. \A s \in Row : DeliveredAt(s)'
      BY <2>1, <2>2 DEF LedgerInv, DeliveredAt, Kept
    <2> QED BY <2>1, <2>3, <2>4 DEF LedgerInv, LedgerStep, Settled
  <1>2. CASE FlushQuota \/ Roll
    <2>1. PICK wrote \in BOOLEAN : PersistQuota(wrote) BY <1>2 DEF FlushQuota, Roll
    <2>2. UNCHANGED <<row, work>> BY <1>2 DEF FlushQuota, Roll
    <2> QED BY <2>1, <2>2, QuotaWritten, LedgerStays DEF LedgerInv
  <1> QED BY <1>1, <1>2

LEMMA TurnStep == ASSUME LedgerInv, Turn  PROVE LedgerStep
  <1>1. PICK a, b, c : disk = [row |-> a, used |-> b, current |-> c]
    BY DEF LedgerInv, LedgerTyped
  <1>2. /\ disk' = [row |-> Yesterday(a), used |-> b, current |-> FALSE]
        /\ row' = Yesterday(row) /\ work' = work
    BY <1>1 DEF Turn
  <1>3. disk.row = a /\ a \in [Row -> RowStates] BY <1>1 DEF LedgerInv, LedgerTyped
  <1>4. ASSUME NEW f \in [Row -> RowStates]
        PROVE  /\ Yesterday(f) \in [Row -> RowStates]
               /\ \A s \in Row : Yesterday(f)[s] = IF f[s] = "today" THEN "done" ELSE f[s]
    BY DEF Yesterday, RowStates
  <1>5. row \in [Row -> RowStates] BY DEF LedgerInv, LedgerTyped
  <1>6. LedgerTyped' BY <1>2, <1>3, <1>4, <1>5 DEF LedgerInv, LedgerTyped
  <1>7. \A s \in Row : /\ row'[s] = IF row[s] = "today" THEN "done" ELSE row[s]
                       /\ disk'.row[s] = IF disk.row[s] = "today" THEN "done"
                                                                  ELSE disk.row[s]
    BY <1>2, <1>3, <1>4, <1>5
  <1>8. \A s \in Row : DeliveredAt(s)' BY <1>2, <1>7 DEF LedgerInv, DeliveredAt, Kept
  <1>9. \A s \in Row : Settled(s) => row'[s] \in {"today", "done"} BY <1>7 DEF Settled
  <1> QED BY <1>6, <1>8, <1>9 DEF LedgerInv, LedgerStep

\* What a settled row has in the document, Load takes for delivered.
LEMMA LoadStep == ASSUME LedgerInv, CrashAndLoad  PROVE LedgerStep
  <1>1. \A s \in Row : Recovered[s] = IF disk.row[s] = "running" THEN "pending" ELSE
                         IF disk.row[s] = "finishing" THEN "today" ELSE disk.row[s]
    BY DEF Recovered
  <1>2. Recovered \in [Row -> RowStates]
    BY <1>1 DEF Recovered, LedgerInv, LedgerTyped, RowStates
  <1>3. row' = Recovered /\ work' = [r \in Row |-> "idle"] BY DEF CrashAndLoad
  <1>4. PICK a, b, c : /\ disk' = [row |-> a, used |-> b, current |-> c]
                       /\ a = row' \/ a = disk.row
    BY DEF CrashAndLoad
  <1>5. LedgerTyped' BY <1>2, <1>3, <1>4 DEF LedgerInv, LedgerTyped, Works
  <1>6. \A s \in Row : DeliveredAt(s)' BY <1>1, <1>3, <1>4 DEF DeliveredAt, Kept
  <1>7. \A s \in Row : Settled(s) => row'[s] \in {"today", "done"}
    BY <1>1, <1>3 DEF LedgerInv, DeliveredAt, Settled, Kept
  <1> QED BY <1>5, <1>6, <1>7 DEF LedgerInv, LedgerStep

LEMMA NextLedger == ASSUME LedgerInv, [Next]_vars  PROVE LedgerStep
  <1>1. ASSUME NEW r \in Row, Dispatch(r)  PROVE LedgerStep
    BY <1>1, TransferStep DEF Dispatch
  <1>2. CASE UNCHANGED <<row, work, disk>>
    BY <1>2, LedgerStays DEF LedgerInv, LedgerTyped
  <1>3. ASSUME NEW r \in Row, AtGate(r)  PROVE LedgerStep
    <2>1. UNCHANGED quotaVars \/ SpendFault \/ Commit(r) BY <1>3 DEF AtGate
    <2> QED BY <1>2, <2>1, TransferStep DEF quotaVars, SpendFault
  <1>4. ASSUME NEW r \in Row, InLedger(r)  PROVE LedgerStep
    <2>1. Charge(r) \/ SaveQueue(r) \/ RollBack(r) \/ SaveQuota(r) \/ Requeue(r) \/ Leave(r)
      BY <1>4 DEF InLedger
    <2> QED BY <2>1, TransferStep, SaveQueueStep, LeaveStep
  <1>5. CASE Background
    <2>1. FlushQueue \/ FlushQuota \/ Roll \/ UNCHANGED quotaVars
      BY <1>5 DEF Background
    <2> QED BY <1>2, <2>1, FlushStep DEF quotaVars
  <1>6. ASSUME NEW r \in Row, BackoffEnds(r)  PROVE LedgerStep BY <1>6, TransferStep
  <1>7. CASE Restart BY <1>7, LoadStep DEF Restart
  <1>8. CASE UNCHANGED vars BY <1>2, <1>8 DEF vars, quotaVars
  <1>9. CASE Passes BY <1>2, <1>9, TurnStep DEF Passes, quotaVars
  <1> QED BY <1>1, <1>3, <1>4, <1>5, <1>6, <1>7, <1>8, <1>9 DEF Next, Continues, Transfer

LEMMA LedgerHolds == Spec => []LedgerInv
  <1>1. Init => LedgerInv
    <2> SUFFICES ASSUME Init PROVE LedgerInv OBVIOUS
    <2>1. /\ row = [r \in Row |-> "pending"] /\ work = [r \in Row |-> "idle"]
          /\ disk = [row |-> row, used |-> 0, current |-> TRUE]
      BY DEF Init, QuotaInit
    <2>2. LedgerTyped BY <2>1 DEF LedgerTyped, RowStates, Works
    <2>3. \A r \in Row : DeliveredAt(r) BY <2>1 DEF DeliveredAt
    <2> QED BY <2>2, <2>3 DEF LedgerInv
  <1>2. LedgerInv /\ [Next]_vars => LedgerInv' BY NextLedger DEF LedgerStep
  <1> QED BY <1>1, <1>2, PTL DEF Spec

\* A delivered row whose completion was saved stays delivered through every
\* crash, failed write and turn of the day, for any number of rows (complete,
\* Load).
THEOREM DeliveredSticks == Spec => CompletedStays
  <1> DEFINE Stays == \A r \in Row :
        r \in Complete /\ work[r] \in {"saved", "leave", "idle"} => r \in Complete'
  <1>1. LedgerInv /\ [Next]_vars => [Stays]_vars
    BY NextLedger DEF LedgerStep, Settled, Complete
  <1>2. Spec => [][Stays]_vars BY <1>1, LedgerHolds, PTL DEF Spec
  <1> QED BY <1>2 DEF CompletedStays

----------------------------------------------------------------------------
(* Sums of sizes.  Weight adds the rows of a set up in the order CHOOSE has   *)
(* them in; the sum is the same in any order.                                 *)
\* Induction on a set of numbers, from the order being well-founded.
LEMMA SetInduction ==
  ASSUME NEW S \in SUBSET Nat, 0 \in S, \A n \in S : n + 1 \in S
  PROVE  S = Nat
  <1> DEFINE rest == Nat \ S
             R == {ss \in Nat \X Nat : ss[1] < ss[2]}
  <1>1. IsWellFoundedOn(R, Nat) BY NatLessThanWellFounded DEF OpToRel
  <1>2. ASSUME rest # {} PROVE FALSE
    <2>1. rest \subseteq Nat OBVIOUS
    <2>2. PICK x \in rest : \A y \in rest : ~(<<y, x>> \in R)
      <3> HIDE DEF R, rest
      <3> QED BY <1>1, <1>2, <2>1, WFMin
    <2>3. x \in Nat /\ x # 0 /\ x - 1 \in Nat /\ x - 1 < x BY <2>2
    <2>4. x - 1 \notin rest BY <2>2, <2>3
    <2>5. (x - 1) + 1 = x BY <2>3
    <2> QED BY <2>2, <2>3, <2>4, <2>5
  <1> QED BY <1>2

\* One step of that sum, and the function Weight takes for the subsets of S.
Step(f, T) == IF T = {} THEN 0 ELSE LET x == CHOOSE x \in T : TRUE IN Size[x] + f[T \ {x}]
Sums(S) == CHOOSE f : f = [T \in SUBSET S |-> Step(f, T)]

LEMMA WeightIs == ASSUME NEW S \in SUBSET Row  PROVE Weight(S) = Sums(S)[S]
  <1>1. MapThenSumSet(LAMBDA r : Size[r], S) = Sums(S)[S]
    BY DEF MapThenSumSet, MapThenFoldSet, Sums, Step
  <1> QED BY <1>1 DEF Weight, Weights

LEMMA Counts ==
  ASSUME NEW T \in SUBSET Row
  PROVE  /\ Cardinality(T) \in Nat
         /\ Cardinality(T) = 0 <=> T = {}
         /\ \A x \in T : T \ {x} \in SUBSET Row /\ Cardinality(T \ {x}) = Cardinality(T) - 1
  <1>1. IsFiniteSet(T) BY RowsFinite, FS_Subset
  <1> QED BY <1>1, FS_CardinalityType, FS_EmptySet, FS_RemoveElement

\* Where the sum begins.
LEMMA Chosen == ASSUME NEW T, T # {}  PROVE (CHOOSE x \in T : TRUE) \in T
  OBVIOUS

\* The sets for which a sum has been found after n steps.
Upto(n) == {T \in SUBSET Row : Cardinality(T) <= n}

LEMMA SumsUpto ==
  ASSUME NEW n \in Nat
  PROVE  \E f \in [Upto(n) -> Nat] : \A T \in Upto(n) : f[T] = Step(f, T)
  <1> DEFINE Good(k) == \E f \in [Upto(k) -> Nat] : \A T \in Upto(k) : f[T] = Step(f, T)
             S == {k \in Nat : Good(k)}
  <1>1. Good(0)
    <2> DEFINE f == [T \in Upto(0) |-> 0]
    <2>1. \A T \in Upto(0) : T = {} BY Counts DEF Upto
    <2>2. f \in [Upto(0) -> Nat] OBVIOUS
    <2>3. \A T \in Upto(0) : f[T] = Step(f, T) BY <2>1 DEF Step
    <2> QED BY <2>2, <2>3
  <1>2. ASSUME NEW k \in Nat, Good(k) PROVE Good(k + 1)
    <2>1. PICK f \in [Upto(k) -> Nat] : \A T \in Upto(k) : f[T] = Step(f, T) BY <1>2
    <2> DEFINE g == [T \in Upto(k + 1) |-> Step(f, T)]
    <2>2. ASSUME NEW T \in Upto(k + 1), T # {}, NEW x, x = CHOOSE y \in T : TRUE
          PROVE  x \in Row /\ T \ {x} \in Upto(k)
      <3>1. x \in T /\ T \in SUBSET Row /\ Cardinality(T) <= k + 1 BY <2>2, Chosen DEF Upto
      <3> QED BY <3>1, Counts DEF Upto
    <2>3. ASSUME NEW T \in Upto(k + 1) PROVE Step(f, T) \in Nat /\ Step(f, T) = Step(g, T)
      <3>1. CASE T = {} BY <3>1 DEF Step
      <3>2. CASE T # {}
        <4>1. PICK x : x = CHOOSE y \in T : TRUE OBVIOUS
        <4>2. x \in Row /\ T \ {x} \in Upto(k) BY <2>2, <3>2, <4>1
        <4>3. T \ {x} \in Upto(k + 1) BY <4>2, Counts DEF Upto
        <4>4. g[T \ {x}] = f[T \ {x}]
          <5>1. g[T \ {x}] = Step(f, T \ {x}) BY <4>3
          <5> HIDE DEF g
          <5> QED BY <2>1, <4>2, <5>1
        <4>5. f[T \ {x}] \in Nat /\ Size[x] \in Nat BY <2>1, <4>2, RowsAssumption
        <4>6. Step(f, T) = Size[x] + f[T \ {x}] BY <3>2, <4>1 DEF Step
        <4>7. Step(g, T) = Size[x] + g[T \ {x}]
          <5> HIDE DEF g
          <5> QED BY <3>2, <4>1 DEF Step
        <4> QED BY <4>4, <4>5, <4>6, <4>7
      <3> QED BY <3>1, <3>2
    <2>4. g \in [Upto(k + 1) -> Nat] BY <2>3
    <2>5. \A T \in Upto(k + 1) : g[T] = Step(g, T) BY <2>3
    <2> HIDE DEF g
    <2> QED BY <2>4, <2>5
  <1> HIDE DEF Good
  <1>3. 0 \in S /\ S \in SUBSET Nat BY <1>1
  <1>4. \A k \in S : k + 1 \in S BY <1>2
  <1>5. S = Nat
    <2> HIDE DEF S
    <2> QED BY <1>3, <1>4, SetInduction
  <1>6. Good(n) BY <1>5
  <1> QED BY <1>6 DEF Good

LEMMA SumsAll ==
  \E f \in [SUBSET Row -> Nat] : \A T \in SUBSET Row : f[T] = Step(f, T)
  <1>1. Cardinality(Row) = Rows /\ Rows \in Nat
    BY RowsAssumption, FS_Interval DEF Row
  <1>2. \A T \in SUBSET Row : Cardinality(T) <= Rows BY <1>1, RowsFinite, FS_Subset
  <1>3. Upto(Rows) = SUBSET Row BY <1>2 DEF Upto
  <1> QED BY <1>1, <1>3, SumsUpto

\* Whatever set it is asked for, Weight is this one function.
LEMMA WeightSums ==
  ASSUME NEW f \in [SUBSET Row -> Nat], \A T \in SUBSET Row : f[T] = Step(f, T),
         NEW S \in SUBSET Row
  PROVE  Weight(S) = f[S]
  <1> DEFINE g == Sums(S)
             h == [T \in SUBSET S |-> f[T]]
             A == {k \in Nat : \A T \in SUBSET S : Cardinality(T) <= k => g[T] = f[T]}
  <1>1. g = [T \in SUBSET S |-> Step(g, T)]
    <2>1. ASSUME NEW T \in SUBSET S PROVE Step(f, T) = Step(h, T)
      <3>1. CASE T = {} BY <3>1 DEF Step
      <3>2. CASE T # {}
        <4>1. PICK x : x = CHOOSE y \in T : TRUE OBVIOUS
        <4>2. x \in T BY <3>2, <4>1, Chosen
        <4>3. h[T \ {x}] = f[T \ {x}] BY <4>2
        <4> HIDE DEF h
        <4> QED BY <3>2, <4>1, <4>3 DEF Step
      <3> QED BY <3>1, <3>2
    <2>2. \A T \in SUBSET S : f[T] = Step(h, T) BY <2>1
    <2>3. h = [T \in SUBSET S |-> Step(h, T)] BY <2>2
    <2>4. \E u : u = [T \in SUBSET S |-> Step(u, T)]
      <3> HIDE DEF h
      <3> QED BY <2>3
    <2> QED BY <2>4 DEF Sums
  <1> HIDE DEF g, h
  <1>2. ASSUME NEW T \in SUBSET S, \A x \in T : g[T \ {x}] = f[T \ {x}]
        PROVE  g[T] = f[T]
    <2>1. g[T] = Step(g, T)
      <3>1. \A U \in SUBSET S : [V \in SUBSET S |-> Step(g, V)][U] = Step(g, U) OBVIOUS
      <3> QED BY <1>1, <3>1
    <2>2. f[T] = Step(f, T) OBVIOUS
    <2>3. CASE T = {} BY <2>1, <2>2, <2>3 DEF Step
    <2>4. CASE T # {}
      <3>1. PICK x : x = CHOOSE y \in T : TRUE OBVIOUS
      <3>2. x \in T BY <2>4, <3>1, Chosen
      <3> QED BY <1>2, <2>1, <2>2, <2>4, <3>1, <3>2 DEF Step
    <2> QED BY <2>3, <2>4
  <1>3. 0 \in A
    <2>1. ASSUME NEW T \in SUBSET S, Cardinality(T) <= 0 PROVE T = {}
      BY <2>1, Counts
    <2> QED BY <1>2, <2>1
  <1>4. ASSUME NEW k \in A PROVE k + 1 \in A
    <2>1. ASSUME NEW T \in SUBSET S, Cardinality(T) <= k + 1 PROVE g[T] = f[T]
      <3>1. ASSUME NEW x \in T
            PROVE  T \ {x} \in SUBSET S /\ Cardinality(T \ {x}) <= k
        BY <2>1, Counts
      <3> QED BY <1>2, <1>4, <3>1
    <2> QED BY <1>4, <2>1
  <1> HIDE DEF A
  <1>5. A = Nat BY <1>3, <1>4, SetInduction DEF A
  <1>6. Cardinality(S) \in A /\ Cardinality(S) <= Cardinality(S) BY <1>5, Counts
  <1>7. g[S] = f[S] BY <1>6 DEF A
  <1> QED BY <1>7, WeightIs DEF g

LEMMA WeightFirst ==
  ASSUME NEW S \in SUBSET Row
  PROVE  /\ Weight(S) \in Nat
         /\ S = {} => Weight(S) = 0
         /\ S # {} => \E x \in S : /\ x = CHOOSE y \in S : TRUE
                                   /\ Weight(S) = Size[x] + Weight(S \ {x})
  <1>1. PICK f \in [SUBSET Row -> Nat] : \A T \in SUBSET Row : f[T] = Step(f, T)
    BY SumsAll
  <1>2. \A T \in SUBSET Row : Weight(T) = f[T] BY <1>1, WeightSums
  <1>3. Weight(S) \in Nat /\ Weight(S) = Step(f, S) BY <1>1, <1>2
  <1>4. S = {} => Weight(S) = 0 BY <1>3 DEF Step
  <1>5. ASSUME S # {} PROVE \E x \in S : /\ x = CHOOSE y \in S : TRUE
                                        /\ Weight(S) = Size[x] + Weight(S \ {x})
    <2>1. PICK x : x = CHOOSE y \in S : TRUE OBVIOUS
    <2>2. x \in S BY <1>5, <2>1, Chosen
    <2>3. Weight(S \ {x}) = f[S \ {x}] BY <1>2
    <2>4. Weight(S) = Size[x] + f[S \ {x}] BY <1>3, <1>5, <2>1 DEF Step
    <2> QED BY <2>1, <2>2, <2>3, <2>4
  <1> QED BY <1>3, <1>4, <1>5

\* Any row may be the first to be taken out.
LEMMA WeightWithout ==
  ASSUME NEW S \in SUBSET Row, NEW r \in S
  PROVE  Weight(S) = Size[r] + Weight(S \ {r})
  <1> DEFINE Right(T) == \A q \in T : Weight(T) = Size[q] + Weight(T \ {q})
             A == {k \in Nat : \A T \in SUBSET Row : Cardinality(T) <= k => Right(T)}
  <1>1. 0 \in A
    <2>1. ASSUME NEW T \in SUBSET Row, Cardinality(T) <= 0 PROVE T = {}
      BY <2>1, Counts
    <2> QED BY <2>1
  <1>2. ASSUME NEW k \in A PROVE k + 1 \in A
    <2>1. ASSUME NEW T \in SUBSET Row, Cardinality(T) <= k + 1, NEW q \in T
          PROVE  Weight(T) = Size[q] + Weight(T \ {q})
      <3>1. PICK x \in T : x = (CHOOSE y \in T : TRUE) /\ Weight(T) = Size[x] + Weight(T \ {x})
        BY WeightFirst
      <3>2. CASE x = q BY <3>1, <3>2
      <3>3. CASE x # q
        <4>1. /\ T \ {x} \in SUBSET Row /\ Cardinality(T \ {x}) <= k /\ q \in T \ {x}
              /\ T \ {q} \in SUBSET Row /\ Cardinality(T \ {q}) <= k /\ x \in T \ {q}
          BY <1>2, <2>1, <3>3, Counts
        <4>2. Right(T \ {x}) /\ Right(T \ {q}) BY <1>2, <4>1
        <4>3. Weight(T \ {x}) = Size[q] + Weight((T \ {x}) \ {q}) BY <4>1, <4>2
        <4>4. Weight(T \ {q}) = Size[x] + Weight((T \ {q}) \ {x}) BY <4>1, <4>2
        <4>5. (T \ {x}) \ {q} = (T \ {q}) \ {x} OBVIOUS
        <4>6. /\ Size[x] \in Nat /\ Size[q] \in Nat
              /\ Weight((T \ {x}) \ {q}) \in Nat
          BY <3>1, <4>1, WeightFirst, RowsAssumption
        <4> QED BY <3>1, <4>3, <4>4, <4>5, <4>6
      <3> QED BY <3>2, <3>3
    <2> QED BY <1>2, <2>1
  <1> HIDE DEF A
  <1>3. A = Nat BY <1>1, <1>2, SetInduction DEF A
  <1>4. Cardinality(S) \in A /\ Cardinality(S) <= Cardinality(S) BY <1>3, Counts
  <1>5. Right(S) BY <1>4 DEF A
  <1> QED BY <1>5

LEMMA WeightWith ==
  ASSUME NEW S \in SUBSET Row, NEW r \in Row
  PROVE  /\ r \in S => Weight(S \cup {r}) = Weight(S)
         /\ r \notin S => Weight(S \cup {r}) = Weight(S) + Size[r]
         /\ Weight(S \cup {r}) <= Weight(S) + Size[r]
  <1>1. Weight(S) \in Nat /\ Size[r] \in Nat BY WeightFirst, RowsAssumption
  <1>2. ASSUME r \in S PROVE Weight(S \cup {r}) = Weight(S)
    <2>1. S \cup {r} = S BY <1>2
    <2> QED BY <2>1
  <1>3. ASSUME r \notin S PROVE Weight(S \cup {r}) = Weight(S) + Size[r]
    <2>1. (S \cup {r}) \ {r} = S /\ r \in S \cup {r} /\ S \cup {r} \in SUBSET Row BY <1>3
    <2>2. Weight(S \cup {r}) = Size[r] + Weight((S \cup {r}) \ {r})
      BY <2>1, WeightWithout
    <2>3. Weight((S \cup {r}) \ {r}) = Weight(S) BY <2>1
    <2> QED BY <1>1, <2>2, <2>3
  <1> QED BY <1>1, <1>2, <1>3

\* A part weighs no more than the whole, and two sets together no more than the sum.
LEMMA WeightUnion ==
  ASSUME NEW S \in SUBSET Row, NEW T \in SUBSET Row
  PROVE  Weight(S) <= Weight(S \cup T) /\ Weight(S \cup T) <= Weight(S) + Weight(T)
  <1> DEFINE Right(U) == Weight(S) <= Weight(S \cup U) /\ Weight(S \cup U) <= Weight(S) + Weight(U)
             A == {k \in Nat : \A U \in SUBSET Row : Cardinality(U) <= k => Right(U)}
  <1>1. 0 \in A
    <2>1. ASSUME NEW U \in SUBSET Row, Cardinality(U) <= 0 PROVE Right(U)
      <3>1. U = {} /\ S \cup U = S BY <2>1, Counts
      <3>2. Weight(U) = 0 /\ Weight(S) \in Nat BY <3>1, WeightFirst
      <3>3. Weight(S \cup U) = Weight(S) BY <3>1
      <3> QED BY <3>2, <3>3
    <2> QED BY <2>1
  <1>2. ASSUME NEW k \in A PROVE k + 1 \in A
    <2>1. ASSUME NEW U \in SUBSET Row, Cardinality(U) <= k + 1 PROVE Right(U)
      <3>1. CASE Cardinality(U) <= k BY <1>2, <3>1
      <3>2. CASE Cardinality(U) > k
        <4>1. U # {} BY <1>2, <3>2, Counts
        <4>2. PICK r \in U : TRUE BY <4>1
        <4> DEFINE V == U \ {r}
        <4>3. V \in SUBSET Row /\ Cardinality(V) <= k /\ r \in Row BY <1>2, <2>1, <4>2, Counts
        <4>4. Right(V) BY <1>2, <4>3
        <4>5. Weight(U) = Size[r] + Weight(V) BY <4>2, WeightWithout
        <4>6. S \cup U = (S \cup V) \cup {r} BY <4>2
        <4> HIDE DEF V
        <4>7. S \cup V \in SUBSET Row BY <4>3
        <4>8. /\ Weight((S \cup V) \cup {r}) = Weight(S \cup V)
                   \/ Weight((S \cup V) \cup {r}) = Weight(S \cup V) + Size[r]
          BY <4>3, <4>7, WeightWith
        <4>9. /\ Weight(S) \in Nat /\ Weight(V) \in Nat /\ Weight(S \cup V) \in Nat
              /\ Size[r] \in Nat
          BY <4>3, <4>7, WeightFirst, RowsAssumption
        <4>10. Weight(S \cup U) = Weight((S \cup V) \cup {r}) BY <4>6
        <4> QED BY <4>4, <4>5, <4>8, <4>9, <4>10
      <3> QED BY <1>2, <2>1, <3>1, <3>2, Counts
    <2> HIDE DEF Right
    <2> QED BY <1>2, <2>1
  <1> HIDE DEF A
  <1>3. A = Nat BY <1>1, <1>2, SetInduction DEF A
  <1>4. Cardinality(T) \in A /\ Cardinality(T) <= Cardinality(T) BY <1>3, Counts
  <1>5. Right(T)
    <2> HIDE DEF Right
    <2> QED BY <1>4 DEF A
  <1> QED BY <1>5

LEMMA WeightPart ==
  ASSUME NEW T \in SUBSET Row, NEW S \in SUBSET T
  PROVE  Weight(S) <= Weight(T)
  <1>1. S \cup T = T /\ S \in SUBSET Row OBVIOUS
  <1>2. Weight(S) <= Weight(S \cup T) BY <1>1, WeightUnion
  <1>3. Weight(S \cup T) = Weight(T) BY <1>1
  <1> QED BY <1>2, <1>3

LEMMA PartWithinLimit ==
  ASSUME NEW T \in SUBSET Row, NEW S \in SUBSET T, NEW limit \in Nat, WithinLimit(T, limit)
  PROVE  WithinLimit(S, limit)
  <1>1. Weight(S) \in Nat /\ Weight(T) \in Nat /\ Weight(S) <= Weight(T)
    BY WeightFirst, WeightPart
  <1> QED BY <1>1 DEF WithinLimit

\* What an admission has looked at: it fits with the new row, or there is nothing.
LEMMA Admitted ==
  ASSUME NEW S \in SUBSET Row, NEW r \in Row, NEW limit \in Nat, NEW taken \in Int,
         Weight(S) <= taken, taken + Size[r] <= limit \/ taken <= 0
  PROVE  WithinLimit(S \cup {r}, limit)
  <1>1. Weight(S) \in Nat /\ Size[r] \in Nat /\ S \cup {r} \in SUBSET Row
    BY WeightFirst, RowsAssumption
  <1>2. Weight(S \cup {r}) \in Nat /\ Weight(S \cup {r}) <= Weight(S) + Size[r]
    BY <1>1, WeightFirst, WeightWith
  <1>3. CASE taken + Size[r] <= limit BY <1>1, <1>2, <1>3 DEF WithinLimit
  <1>4. CASE taken <= 0
    <2>1. Weight(S) = 0 BY <1>1, <1>4
    <2>2. ASSUME NEW q \in S PROVE Size[q] = 0
      <3>1. {q} \in SUBSET Row /\ Weight({q}) = Size[q] + Weight({q} \ {q})
        BY WeightWithout
      <3>2. Weight({q} \ {q}) \in Nat /\ Weight({q}) <= Weight(S)
        BY <3>1, WeightFirst, WeightPart
      <3>3. Size[q] \in Nat BY RowsAssumption
      <3> QED BY <2>1, <3>1, <3>2, <3>3
    <2>3. \A q, s \in S \cup {r} : Size[q] > 0 /\ Size[s] > 0 => q = s BY <2>2
    <2> QED BY <2>3 DEF WithinLimit
  <1> QED BY <1>3, <1>4

----------------------------------------------------------------------------
(* Room.  Held rows weigh what stageReserved says; what an admission could    *)
(* count fits below the limit together with the row it lets in.               *)
RoomTyped ==
  /\ look \in [Row -> [skip: SUBSET Row, saw: SUBSET Row]]
  /\ onDisk \subseteq Row /\ unseen \subseteq onDisk

RoomInv == RoomTyped /\ stageReserved = Weight(reservations) /\ StageWithinLimit

LEMMA ReservationsAreRows == GatesInv => reservations \in SUBSET Row
  BY DEF GatesInv, SlotsHeld, Holding

\* No more is held, and no more reserved, than before.
LEMMA RoomShrinks ==
  ASSUME GatesInv, RoomInv, RoomTyped',
         stageReserved' = Weight(reservations'),
         (reservations' \cup onDisk') \ unseen' \subseteq (reservations \cup onDisk) \ unseen
  PROVE  RoomInv'
  <1> DEFINE S == (reservations' \cup onDisk') \ unseen'
             T == (reservations \cup onDisk) \ unseen
  <1>1. T \in SUBSET Row BY ReservationsAreRows DEF RoomInv, RoomTyped
  <1>2. WithinLimit(T, StageLimit) BY DEF RoomInv, StageWithinLimit
  <1>3. S \in SUBSET T /\ StageLimit \in Nat BY GatesAssumption
  <1>4. WithinLimit(S, StageLimit)
    <2> HIDE DEF S, T
    <2> QED BY <1>1, <1>2, <1>3, PartWithinLimit
  <1>5. StageWithinLimit' BY <1>4 DEF StageWithinLimit, WithinLimit, Weight
  <1>6. (stageReserved = Weight(reservations))' BY DEF Weight
  <1> QED BY <1>5, <1>6 DEF RoomInv

LEMMA LookRoom ==
  ASSUME GatesInv, RoomInv, NEW r \in Row,
         NoteReservations(r) \/ WalkStaging(r) \/ RefuseRoom(r)
  PROVE  RoomInv'
  <1>1. look \in [Row -> [skip: SUBSET Row, saw: SUBSET Row]] BY DEF RoomInv, RoomTyped
  <1>2. UNCHANGED <<stageReserved, reservations, onDisk, unseen>>
    BY DEF NoteReservations, WalkStaging, RefuseRoom
  <1>3. reservations \in SUBSET Row /\ onDisk \in SUBSET Row
    BY ReservationsAreRows DEF RoomInv, RoomTyped
  <1>4. look' \in [Row -> [skip: SUBSET Row, saw: SUBSET Row]]
    <2>1. CASE NoteReservations(r)
      <3>1. PICK S \in SUBSET Row : look' = [look EXCEPT ![r].skip = S]
        BY <1>3, <2>1 DEF NoteReservations
      <3> QED BY <1>1, <3>1
    <2>2. CASE WalkStaging(r)
      <3>1. PICK S \in SUBSET Row : look' = [look EXCEPT ![r].saw = S]
        BY <1>3, <2>2 DEF WalkStaging
      <3> QED BY <1>1, <3>1
    <2>3. CASE RefuseRoom(r) BY <1>1, <2>3 DEF RefuseRoom, NoLook
    <2> QED BY <2>1, <2>2, <2>3
  <1>5. RoomTyped' BY <1>2, <1>4 DEF RoomInv, RoomTyped
  <1>6. stageReserved' = Weight(reservations') BY <1>2 DEF RoomInv
  <1> QED BY <1>2, <1>5, <1>6, RoomShrinks

LEMMA ReserveRoomRoom ==
  ASSUME GatesInv, RoomInv, NEW r \in Row, ReserveRoom(r)
  PROVE  RoomInv'
  <1>1. look \in [Row -> [skip: SUBSET Row, saw: SUBSET Row]] BY DEF RoomInv, RoomTyped
  <1> DEFINE saw == look[r].saw
             S == (reservations \cup saw) \cup {r}
             T == (reservations' \cup onDisk') \ unseen'
             taken == Weight(saw) + stageReserved
  <1>2. reservations \in SUBSET Row /\ onDisk \in SUBSET Row /\ saw \in SUBSET Row
    BY <1>1, ReservationsAreRows DEF RoomInv, RoomTyped
  <1>3. /\ gate[r] = "check" /\ stageReserved' = stageReserved + Size[r]
        /\ reservations' = reservations \cup {r} /\ onDisk' = onDisk
        /\ unseen' = onDisk \ (reservations \cup saw \cup {r})
        /\ taken + Size[r] <= StageLimit \/ taken = 0
    BY DEF ReserveRoom, Go, RoomFor
  <1>4. r \notin reservations BY <1>3 DEF GatesInv, SlotsHeld, Holding
  <1>5. Weight(reservations \cup {r}) = Weight(reservations) + Size[r]
    BY <1>2, <1>4, WeightWith
  <1>6. stageReserved' = Weight(reservations')
    <2>1. stageReserved' = Weight(reservations) + Size[r] BY <1>3 DEF RoomInv
    <2> QED BY <1>3, <1>5, <2>1
  <1>7. Weight(reservations \cup saw) <= taken /\ taken \in Nat
    <2>1. Weight(reservations \cup saw) <= Weight(reservations) + Weight(saw)
      BY <1>2, WeightUnion
    <2>2. Weight(reservations) \in Nat /\ Weight(saw) \in Nat
          /\ Weight(reservations \cup saw) \in Nat
      BY <1>2, WeightFirst
    <2>3. stageReserved = Weight(reservations) BY DEF RoomInv
    <2> HIDE DEF saw
    <2> QED BY <2>1, <2>2, <2>3
  <1>8. WithinLimit(S, StageLimit)
    <2>1. taken + Size[r] <= StageLimit \/ taken <= 0 BY <1>3, <1>7
    <2>2. reservations \cup saw \in SUBSET Row /\ StageLimit \in Nat /\ taken \in Int
      BY <1>2, <1>7, GatesAssumption
    <2> HIDE DEF taken, saw
    <2> QED BY <1>7, <2>1, <2>2, Admitted
  <1>9. T \in SUBSET S /\ S \in SUBSET Row
    <2> HIDE DEF saw
    <2> QED BY <1>2, <1>3
  <1>10. WithinLimit(T, StageLimit)
    <2> HIDE DEF S, T
    <2> QED BY <1>8, <1>9, PartWithinLimit, GatesAssumption
  <1>11. StageWithinLimit' BY <1>10 DEF StageWithinLimit, WithinLimit, Weight
  <1>12. RoomTyped'
    <2>1. look' = [look EXCEPT ![r] = NoLook] BY DEF ReserveRoom
    <2>2. NoLook \in [skip: SUBSET Row, saw: SUBSET Row] BY DEF NoLook
    <2>3. look' \in [Row -> [skip: SUBSET Row, saw: SUBSET Row]] BY <1>1, <2>1, <2>2
    <2> HIDE DEF saw
    <2> QED BY <1>2, <1>3, <2>3 DEF RoomTyped
  <1>13. (stageReserved = Weight(reservations))' BY <1>6 DEF Weight
  <1> QED BY <1>11, <1>12, <1>13 DEF RoomInv

LEMMA StageEndsRoom ==
  ASSUME GatesInv, RoomInv, NEW r \in Row, NEW to, StageEnds(r, to)
  PROVE  RoomInv'
  <1>1. /\ gate[r] = "download" /\ stageReserved' = stageReserved - Size[r]
        /\ reservations' = reservations \ {r} /\ UNCHANGED <<look, onDisk, unseen>>
    BY DEF StageEnds, Go, ReleaseRoom
  <1>2. r \in reservations /\ reservations \in SUBSET Row
    BY <1>1, ReservationsAreRows DEF GatesInv, SlotsHeld, Holding
  <1>3. Weight(reservations) = Size[r] + Weight(reservations \ {r})
    BY <1>2, WeightWithout
  <1>4. Weight(reservations \ {r}) \in Nat /\ Size[r] \in Nat
    BY <1>2, WeightFirst, RowsAssumption
  <1>5. stageReserved' = Weight(reservations \ {r}) BY <1>1, <1>3, <1>4 DEF RoomInv
  <1>6. stageReserved' = Weight(reservations') BY <1>1, <1>5
  <1>7. RoomTyped' BY <1>1 DEF RoomInv, RoomTyped
  <1> QED BY <1>1, <1>6, <1>7, RoomShrinks

LEMMA DiskRoom ==
  ASSUME GatesInv, RoomInv, NEW r \in Row,
         Preallocate(r) \/ \E discard \in BOOLEAN : LeaveGates(r, discard)
  PROVE  RoomInv'
  <1>1. UNCHANGED <<look, stageReserved, reservations>> BY DEF Preallocate, LeaveGates
  <1>2. stageReserved' = Weight(reservations') BY <1>1 DEF RoomInv
  <1>3. CASE Preallocate(r)
    <2>1. onDisk' = onDisk \cup {r} /\ unseen' = unseen /\ r \in reservations
      BY <1>3 DEF Preallocate, GatesInv, SlotsHeld, Holding
    <2>2. RoomTyped' BY <1>1, <2>1 DEF RoomInv, RoomTyped
    <2> QED BY <1>1, <1>2, <2>1, <2>2, RoomShrinks
  <1>4. CASE \E discard \in BOOLEAN : LeaveGates(r, discard)
    <2>1. /\ onDisk' \subseteq onDisk /\ onDisk \ onDisk' \subseteq {r}
          /\ unseen' = unseen \cap onDisk' /\ gate[r] \in {"sent", "broken"}
      BY <1>4 DEF LeaveGates
    <2>2. r \notin reservations BY <2>1 DEF GatesInv, SlotsHeld, Holding
    <2>3. RoomTyped' BY <1>1, <2>1 DEF RoomInv, RoomTyped
    <2>4. (reservations' \cup onDisk') \ unseen' \subseteq (reservations \cup onDisk) \ unseen
      BY <1>1, <2>1, <2>2 DEF RoomInv, RoomTyped
    <2> QED BY <1>2, <2>3, <2>4, RoomShrinks
  <1> QED BY <1>3, <1>4

LEMMA ResetRoom ==
  ASSUME GatesInv, RoomInv, NEW complete, ResetGates(complete)
  PROVE  RoomInv'
  <1>1. /\ stageReserved' = 0 /\ reservations' = {} /\ look' = [r \in Row |-> NoLook]
        /\ onDisk' = onDisk \ complete /\ unseen' = unseen \cap onDisk'
    BY DEF ResetGates
  <1>2. stageReserved' = Weight(reservations') BY <1>1, WeightFirst
  <1>3. RoomTyped' BY <1>1 DEF RoomInv, RoomTyped, NoLook
  <1>4. (reservations' \cup onDisk') \ unseen' \subseteq (reservations \cup onDisk) \ unseen
    BY <1>1 DEF RoomInv, RoomTyped
  <1> QED BY <1>2, <1>3, <1>4, RoomShrinks

LEMMA RoomStays ==
  ASSUME GatesInv, RoomInv, UNCHANGED <<look, stageReserved, reservations, onDisk, unseen>>
  PROVE  RoomInv'
  <1>1. stageReserved' = Weight(reservations') BY DEF RoomInv
  <1>2. RoomTyped' BY DEF RoomInv, RoomTyped
  <1> QED BY <1>1, <1>2, RoomShrinks

LEMMA NextRoom == ASSUME GatesInv, RoomInv, [Next]_vars  PROVE RoomInv'
  <1>1. ASSUME NEW r \in Row, AtGate(r)  PROVE RoomInv'
    <2>1. CASE NoteReservations(r) \/ WalkStaging(r) \/ RefuseRoom(r) BY <2>1, LookRoom
    <2>2. CASE ReserveRoom(r) BY <2>2, ReserveRoomRoom
    <2>3. CASE Downloaded(r) \/ DownloadFails(r)
      BY <2>3, StageEndsRoom DEF Downloaded, DownloadFails
    <2>4. CASE Preallocate(r) BY <2>4, DiskRoom
    <2>5. CASE \/ AcquireDownloadSlot(r) \/ AcquireUploadSlot(r)
               \/ UploadEnds(r, "broken") \/ UploadEnds(r, "sent")
      BY <2>5, RoomStays DEF AcquireDownloadSlot, AcquireUploadSlot, UploadEnds
    <2> QED BY <1>1, <2>1, <2>2, <2>3, <2>4, <2>5 DEF AtGate
  <1>2. CASE UNCHANGED gateVars BY <1>2, RoomStays DEF gateVars
  <1>3. ASSUME NEW r \in Row, InLedger(r)  PROVE RoomInv'
    <2>1. (r \in Complete) \in BOOLEAN OBVIOUS
    <2>2. LeaveGates(r, r \in Complete) \/ UNCHANGED gateVars BY <1>3 DEF InLedger
    <2> QED BY <1>2, <2>1, <2>2, DiskRoom
  <1>4. ASSUME NEW r \in Row, Dispatch(r)  PROVE RoomInv'
    BY <1>4, RoomStays DEF Dispatch, EnterGates
  <1>5. CASE Background
    BY <1>2, <1>5, RoomStays DEF Background, SetDownloadLimit
  <1>6. CASE Restart BY <1>6, ResetRoom DEF Restart
  <1>7. (UNCHANGED vars \/ Passes) => UNCHANGED gateVars BY DEF vars, Passes
  <1>8. ASSUME NEW r \in Row, Continues(r)  PROVE RoomInv'
    BY <1>1, <1>2, <1>3, <1>8 DEF Continues, Transfer
  <1> QED BY <1>2, <1>4, <1>5, <1>6, <1>7, <1>8 DEF Next

LEMMA InitRoom == Init => RoomInv
  <1> SUFFICES ASSUME Init PROVE RoomInv OBVIOUS
  <1>1. /\ stageReserved = 0 /\ reservations = {} /\ onDisk = {} /\ unseen = {}
        /\ look = [r \in Row |-> NoLook]
    BY DEF Init, GatesInit
  <1>2. Weight({}) = 0 /\ StageLimit \in Nat BY WeightFirst, GatesAssumption
  <1>3. WithinLimit({}, StageLimit) BY <1>2 DEF WithinLimit
  <1>4. (reservations \cup onDisk) \ unseen = {} BY <1>1
  <1>5. StageWithinLimit BY <1>3, <1>4 DEF StageWithinLimit
  <1> QED BY <1>1, <1>2, <1>5 DEF RoomInv, RoomTyped, NoLook

LEMMA RoomHolds == Spec => [](GatesInv /\ RoomInv)
  <1>1. Init => GatesInv /\ RoomInv BY InitGates, InitRoom
  <1>2. GatesInv /\ RoomInv /\ [Next]_vars => (GatesInv /\ RoomInv)' BY NextGates, NextRoom
  <1> QED BY <1>1, <1>2, PTL DEF Spec

\* However many transfers look for room at once, the staging area keeps to its limit,
\* or holds one file beside empty ones, but for files whose reservation was given back
\* between the walk and the comparison (reserveStageRoom).
THEOREM RoomIsKept == Spec => []StageWithinLimit
  <1>1. RoomInv => StageWithinLimit BY DEF RoomInv
  <1> QED BY <1>1, RoomHolds, PTL

----------------------------------------------------------------------------
(* The day.  Whatever may still be charged to it was let in together.         *)

\* What the counter has been charged for and may still be asked to give back.
Counted == (Today \cup {r \in Row : work[r] \in {"charged", "rollback"}}) \ erased
Claimed == Counted \cup InFlight

\* What a restart would make today's.
Stored == {r \in Row : disk.row[r] = "finishing" \/ (disk.row[r] = "today" /\ r \notin erased)}

DayTyped ==
  /\ used \in Int /\ disk.used \in Int /\ erased \subseteq Row /\ debt \in BOOLEAN
  /\ \A r \in Row : row[r] = "finishing" => work[r] \in {"commit", "requeue"}

ReservedExact == reserved = Weight(InFlight)
Covered == ~debt => Weight(Counted) <= used
DayOK == DailyLimit > 0 /\ ~debt =>
  WithinLimit(Claimed, DailyLimit) /\ WithinLimit(Stored, DailyLimit)

DayInv == DayTyped /\ ReservedExact /\ Covered /\ DayOK

LEMMA DaySets ==
  ASSUME DayTyped
  PROVE  /\ InFlight \in SUBSET Row /\ Counted \in SUBSET Row
         /\ Claimed \in SUBSET Row /\ Stored \in SUBSET Row
  BY DEF DayTyped, InFlight, Counted, Claimed, Stored, Today

\* The sums of a next state are those of its sets.
LEMMA DayPrimes ==
  ASSUME reserved' = Weight(InFlight'), ~debt' => Weight(Counted') <= used',
         DailyLimit > 0 /\ ~debt' => WithinLimit(Claimed', DailyLimit) /\ WithinLimit(Stored', DailyLimit),
         DayTyped'
  PROVE  DayInv'
  <1>1. ReservedExact' BY DEF ReservedExact, Weight
  <1>2. Covered' BY DEF Covered, Weight
  <1>3. DayOK' BY DEF DayOK, WithinLimit, Weight
  <1> QED BY <1>1, <1>2, <1>3 DEF DayInv

\* Nothing new is claimed: less may be, and some of it is on disk.
LEMMA DayShrinks ==
  ASSUME DayInv, DayTyped', debt' = FALSE => debt = FALSE,
         reserved' = Weight(InFlight'), ~debt' => Weight(Counted') <= used',
         ~debt' => Claimed' \subseteq Claimed \/ Claimed' \subseteq Stored,
         ~debt' => Stored' \subseteq Stored \/ Stored' \subseteq Claimed
  PROVE  DayInv'
  <1>1. DailyLimit \in Nat BY QuotaAssumption
  <1>2. ASSUME DailyLimit > 0, ~debt'
        PROVE  WithinLimit(Claimed', DailyLimit) /\ WithinLimit(Stored', DailyLimit)
    <2>1. debt = FALSE BY <1>2 DEF DayInv, DayTyped
    <2>2. WithinLimit(Claimed, DailyLimit) /\ WithinLimit(Stored, DailyLimit)
      BY <1>2, <2>1 DEF DayInv, DayOK
    <2>3. Claimed \in SUBSET Row /\ Stored \in SUBSET Row BY DaySets DEF DayInv
    <2>4. WithinLimit(Claimed', DailyLimit)
      BY <1>1, <1>2, <2>2, <2>3, PartWithinLimit
    <2>5. WithinLimit(Stored', DailyLimit)
      BY <1>1, <1>2, <2>2, <2>3, PartWithinLimit
    <2> QED BY <2>4, <2>5
  <1> QED BY <1>2, DayPrimes

\* The same, with the counter and everything it was charged for left alone.
LEMMA DayStays ==
  ASSUME DayInv, DayTyped', UNCHANGED <<debt, used, reserved>>,
         InFlight' = InFlight, Counted' \subseteq Counted, Claimed' \subseteq Claimed,
         Stored' \subseteq Stored \/ Stored' \subseteq Claimed
  PROVE  DayInv'
  <1>1. reserved' = Weight(InFlight') BY DEF DayInv, ReservedExact
  <1>2. ASSUME ~debt' PROVE Weight(Counted') <= used'
    <2>1. Counted \in SUBSET Row /\ Counted' \in SUBSET Counted BY DaySets DEF DayInv
    <2>2. Weight(Counted') <= Weight(Counted) BY <2>1, WeightPart
    <2>3. Weight(Counted) \in Nat /\ Weight(Counted') \in Nat /\ used \in Int
      BY <2>1, WeightFirst DEF DayInv, DayTyped
    <2>4. Weight(Counted) <= used BY <1>2 DEF DayInv, Covered
    <2> QED BY <2>2, <2>3, <2>4
  <1> QED BY <1>1, <1>2, DayShrinks

LEMMA UsedWritten ==
  ASSUME LedgerTyped, DayTyped, NEW wrote \in BOOLEAN, used' \in Int,
         PersistQueue(wrote) \/ PersistQuota(wrote)
  PROVE  disk'.used \in Int
  <1>1. PICK a, b, c : disk = [row |-> a, used |-> b, current |-> c] BY DEF LedgerTyped
  <1>2. b \in Int BY <1>1 DEF DayTyped
  <1>3. CASE PersistQueue(wrote) BY <1>1, <1>2, <1>3 DEF PersistQueue
  <1>4. CASE PersistQuota(wrote) BY <1>1, <1>2, <1>4 DEF PersistQuota
  <1> QED BY <1>3, <1>4

\* A goroutine takes its row from one place to another and nothing is charged.
LEMMA RowDay ==
  ASSUME LedgerTyped, DayInv, NEW r \in Row, NEW state \in RowStates, NEW at \in Works,
         row' = [row EXCEPT ![r] = state], work' = [work EXCEPT ![r] = at],
         work[r] = "idle" <=> at = "idle",
         state = "today" => row[r] = "today",
         at \in {"charged", "rollback"} => work[r] \in {"charged", "rollback"},
         state = "finishing" => at \in {"commit", "requeue"},
         UNCHANGED <<used, reserved, erased, debt>>,
         disk'.used \in Int, disk'.row = disk.row \/ disk'.row = row'
  PROVE  DayInv'
  <1>1. \A s \in Row : /\ row'[s] = IF s = r THEN state ELSE row[s]
                       /\ work'[s] = IF s = r THEN at ELSE work[s]
    BY DEF LedgerTyped
  <1>2. DayTyped' BY <1>1 DEF DayInv, DayTyped
  <1>3. InFlight' = InFlight BY <1>1 DEF InFlight
  <1>4. Counted' \subseteq Counted BY <1>1 DEF Counted, Today
  <1>5. Claimed' \subseteq Claimed BY <1>3, <1>4 DEF Claimed
  <1>6. disk'.row = disk.row => Stored' = Stored BY DEF Stored
  <1>7. disk'.row = row' => Stored' \subseteq Claimed'
    BY <1>2 DEF DayTyped, Stored, Claimed, Counted, InFlight, Today
  <1> QED BY <1>2, <1>3, <1>4, <1>5, <1>6, <1>7, DayStays

LEMMA TakeDay == ASSUME LedgerTyped, DayInv, NEW r \in Row, Take(r)  PROVE DayInv'
  <1>1. /\ row[r] = "pending" /\ work[r] = "idle" /\ Allows(Size[r])
        /\ row' = [row EXCEPT ![r] = "running"] /\ work' = [work EXCEPT ![r] = "transfer"]
        /\ reserved' = reserved + Size[r] /\ UNCHANGED <<used, disk, erased, debt>>
    BY DEF Take, Eligible, WorkGoes
  <1>2. \A s \in Row : /\ row'[s] = IF s = r THEN "running" ELSE row[s]
                       /\ work'[s] = IF s = r THEN "transfer" ELSE work[s]
    BY <1>1 DEF LedgerTyped
  <1>3. DayTyped' BY <1>1, <1>2 DEF DayInv, DayTyped
  <1>4. InFlight' = InFlight \cup {r} /\ r \notin InFlight BY <1>1, <1>2 DEF InFlight
  <1>5. Counted' = Counted BY <1>1, <1>2 DEF Counted, Today
  <1>6. Claimed' = Claimed \cup {r} /\ Stored' = Stored
    BY <1>1, <1>4, <1>5 DEF Claimed, Stored
  <1>7. /\ InFlight \in SUBSET Row /\ Counted \in SUBSET Row /\ Claimed \in SUBSET Row
        /\ Claimed = Counted \cup InFlight
    BY DaySets DEF DayInv, Claimed
  <1>8. reserved = Weight(InFlight) BY DEF DayInv, ReservedExact
  <1>9. reserved' = Weight(InFlight')
    <2>1. Weight(InFlight \cup {r}) = Weight(InFlight) + Size[r] BY <1>4, <1>7, WeightWith
    <2> QED BY <1>1, <1>4, <1>8, <2>1
  <1>10. ~debt' => Weight(Counted') <= used' BY <1>1, <1>5 DEF DayInv, Covered
  <1>11. ASSUME DailyLimit > 0, ~debt'
         PROVE  WithinLimit(Claimed', DailyLimit) /\ WithinLimit(Stored', DailyLimit)
    <2>1. ~debt BY <1>1, <1>11
    <2>2. WithinLimit(Stored', DailyLimit) BY <1>6, <1>11, <2>1 DEF DayInv, DayOK
    <2>3. Weight(Counted) <= used BY <2>1 DEF DayInv, Covered
    <2>4. Weight(Claimed) <= Weight(Counted) + Weight(InFlight) BY <1>7, WeightUnion
    <2>5. /\ Weight(Claimed) \in Nat /\ Weight(Counted) \in Nat /\ Weight(InFlight) \in Nat
          /\ used \in Int /\ DailyLimit \in Nat
      BY <1>7, WeightFirst, QuotaAssumption DEF DayInv, DayTyped
    <2>6. used + reserved + Size[r] <= DailyLimit \/ (used = 0 /\ reserved = 0)
      BY <1>1, <1>11, <2>5 DEF Allows
    <2>7. /\ used + reserved \in Int /\ Weight(Claimed) <= used + reserved
          /\ (used + reserved) + Size[r] <= DailyLimit \/ used + reserved <= 0
      BY <1>8, <2>3, <2>4, <2>5, <2>6
    <2>8. WithinLimit(Claimed \cup {r}, DailyLimit) BY <1>7, <2>5, <2>7, Admitted
    <2> QED BY <1>6, <2>2, <2>8
  <1> QED BY <1>3, <1>9, <1>10, <1>11, DayPrimes

LEMMA ChargeDay == ASSUME LedgerTyped, DayInv, NEW r \in Row, Charge(r)  PROVE DayInv'
  <1>1. /\ work[r] = "commit" /\ row' = [row EXCEPT ![r] = "today"]
        /\ work' = [work EXCEPT ![r] = "charged"] /\ used' = used + Size[r]
        /\ UNCHANGED <<reserved, disk, erased, debt>>
    BY DEF Charge, WorkGoes
  <1>2. \A s \in Row : /\ row'[s] = IF s = r THEN "today" ELSE row[s]
                       /\ work'[s] = IF s = r THEN "charged" ELSE work[s]
    BY <1>1 DEF LedgerTyped
  <1>3. used \in Int /\ Size[r] \in Nat BY RowsAssumption DEF DayInv, DayTyped
  <1>4. DayTyped' BY <1>1, <1>2, <1>3 DEF DayInv, DayTyped
  <1>5. InFlight' = InFlight /\ r \in InFlight BY <1>1, <1>2 DEF InFlight
  <1>6. Counted' \subseteq Counted \cup {r} BY <1>1, <1>2 DEF Counted, Today
  <1>7. Claimed' \subseteq Claimed /\ Stored' = Stored
    BY <1>1, <1>5, <1>6 DEF Claimed, Stored
  <1>8. reserved' = Weight(InFlight') BY <1>1, <1>5 DEF DayInv, ReservedExact
  <1>9. ASSUME ~debt' PROVE Weight(Counted') <= used'
    <2>1. Counted \in SUBSET Row /\ Counted \cup {r} \in SUBSET Row
      BY DaySets DEF DayInv
    <2>2. Weight(Counted') <= Weight(Counted \cup {r}) BY <1>6, <2>1, WeightPart
    <2>3. Weight(Counted \cup {r}) <= Weight(Counted) + Size[r] BY <2>1, WeightWith
    <2>4. /\ Weight(Counted') \in Nat /\ Weight(Counted \cup {r}) \in Nat
          /\ Weight(Counted) \in Nat
      BY <1>6, <2>1, WeightFirst
    <2>5. Weight(Counted) <= used BY <1>1, <1>9 DEF DayInv, Covered
    <2> QED BY <1>1, <1>3, <2>2, <2>3, <2>4, <2>5
  <1> QED BY <1>1, <1>4, <1>7, <1>8, <1>9, DayShrinks

LEMMA RollBackDay == ASSUME LedgerTyped, DayInv, NEW r \in Row, RollBack(r)  PROVE DayInv'
  <1>1. /\ work[r] = "rollback" /\ row' = [row EXCEPT ![r] = "finishing"]
        /\ work' = [work EXCEPT ![r] = "requeue"] /\ used' = used - Size[r]
        /\ debt' = (debt \/ r \in erased) /\ erased' = erased \ {r}
        /\ UNCHANGED <<reserved, disk>>
    BY DEF RollBack, WorkGoes
  <1>2. \A s \in Row : /\ row'[s] = IF s = r THEN "finishing" ELSE row[s]
                       /\ work'[s] = IF s = r THEN "requeue" ELSE work[s]
    BY <1>1 DEF LedgerTyped
  <1>3. used \in Int /\ Size[r] \in Nat /\ debt \in BOOLEAN
    BY RowsAssumption DEF DayInv, DayTyped
  <1>4. DayTyped'
    <2>1. debt' \in BOOLEAN BY <1>1
    <2>2. used' \in Int /\ disk'.used \in Int BY <1>1, <1>3 DEF DayInv, DayTyped
    <2> QED BY <1>1, <1>2, <2>1, <2>2 DEF DayInv, DayTyped
  <1>5. InFlight' = InFlight BY <1>1, <1>2 DEF InFlight
  <1>6. ASSUME ~debt'
        PROVE  /\ ~debt /\ erased' = erased /\ r \in Counted
               /\ Counted' \subseteq Counted \ {r}
    <2>1. ~debt /\ r \notin erased /\ erased' = erased BY <1>1, <1>6
    <2> QED BY <1>1, <1>2, <2>1 DEF Counted, Today
  <1>7. ~debt' => Claimed' \subseteq Claimed /\ Stored' = Stored
    BY <1>1, <1>5, <1>6 DEF Claimed, Stored
  <1>8. reserved' = Weight(InFlight') BY <1>1, <1>5 DEF DayInv, ReservedExact
  <1>9. ASSUME ~debt' PROVE Weight(Counted') <= used'
    <2>1. Counted \in SUBSET Row /\ Counted \ {r} \in SUBSET Row BY DaySets DEF DayInv
    <2>2. Weight(Counted') <= Weight(Counted \ {r}) BY <1>6, <1>9, <2>1, WeightPart
    <2>3. Weight(Counted) = Size[r] + Weight(Counted \ {r})
      BY <1>6, <1>9, <2>1, WeightWithout
    <2>4. Weight(Counted') \in Nat /\ Weight(Counted \ {r}) \in Nat
      BY <1>6, <1>9, <2>1, WeightFirst
    <2>5. Weight(Counted) <= used BY <1>6, <1>9 DEF DayInv, Covered
    <2> QED BY <1>1, <1>3, <2>2, <2>3, <2>4, <2>5
  <1>10. debt' = FALSE => debt = FALSE BY <1>1, <1>3
  <1> QED BY <1>4, <1>7, <1>8, <1>9, <1>10, DayShrinks

LEMMA LeaveDay == ASSUME LedgerTyped, DayInv, NEW r \in Row, Leave(r)  PROVE DayInv'
  <1>1. /\ work[r] = "leave" /\ work' = [work EXCEPT ![r] = "idle"]
        /\ reserved' = IF reserved < Size[r] THEN 0 ELSE reserved - Size[r]
        /\ UNCHANGED <<row, used, disk, erased, debt>>
    BY DEF Leave, WorkGoes
  <1>2. \A s \in Row : work'[s] = IF s = r THEN "idle" ELSE work[s]
    BY <1>1 DEF LedgerTyped
  <1>3. DayTyped' BY <1>1, <1>2 DEF DayInv, DayTyped
  <1>4. InFlight' = InFlight \ {r} /\ r \in InFlight BY <1>1, <1>2 DEF InFlight
  <1>5. Counted' = Counted BY <1>1, <1>2 DEF Counted, Today
  <1>6. Claimed' \subseteq Claimed /\ Stored' = Stored
    BY <1>1, <1>4, <1>5 DEF Claimed, Stored
  <1>7. reserved' = Weight(InFlight')
    <2>1. InFlight \in SUBSET Row /\ InFlight \ {r} \in SUBSET Row BY DaySets DEF DayInv
    <2>2. Weight(InFlight) = Size[r] + Weight(InFlight \ {r}) BY <1>4, <2>1, WeightWithout
    <2>3. Weight(InFlight \ {r}) \in Nat /\ Size[r] \in Nat
      BY <2>1, WeightFirst, RowsAssumption
    <2>4. reserved = Weight(InFlight) BY DEF DayInv, ReservedExact
    <2>5. reserved' = Weight(InFlight \ {r}) BY <1>1, <2>2, <2>3, <2>4
    <2> QED BY <1>4, <2>5
  <1>8. ~debt' => Weight(Counted') <= used' BY <1>1, <1>5 DEF DayInv, Covered
  <1> QED BY <1>1, <1>3, <1>6, <1>7, <1>8, DayShrinks

LEMMA WorkDay ==
  ASSUME LedgerInv, DayInv, NEW r \in Row,
         \/ Commit(r) \/ SaveQueue(r) \/ SaveQuota(r) \/ Requeue(r) \/ BackoffEnds(r)
  PROVE  DayInv'
  <1>1. LedgerTyped /\ DayTyped /\ row[r] \in RowStates /\ work[r] \in Works /\ used \in Int
    BY DEF LedgerInv, LedgerTyped, DayInv, DayTyped
  <1>2. /\ row' = [row EXCEPT ![r] = row[r]] <=> row' = row
        /\ work' = [work EXCEPT ![r] = work[r]] <=> work' = work
    BY <1>1 DEF LedgerTyped
  <1>3. CASE Commit(r)
    <2>1. /\ work[r] = "transfer" /\ row' = [row EXCEPT ![r] = "finishing"]
          /\ work' = [work EXCEPT ![r] = "commit"]
          /\ UNCHANGED <<used, reserved, erased, debt, disk>>
      BY <1>3 DEF Commit, WorkGoes
    <2>2. "finishing" \in RowStates /\ "commit" \in Works BY DEF RowStates, Works
    <2>3. disk'.used \in Int /\ disk'.row = disk.row BY <1>1, <2>1 DEF DayTyped
    <2> QED BY <1>1, <2>1, <2>2, <2>3, RowDay
  <1>4. CASE SaveQueue(r)
    <2>1. PICK ok, wrote \in BOOLEAN :
            /\ PersistQueue(wrote) /\ UNCHANGED <<row, used, reserved, erased, debt>>
            /\ WorkGoes(r, "charged", IF ok THEN "saved" ELSE "rollback")
      BY <1>4 DEF SaveQueue
    <2>2. PICK at : at = IF ok THEN "saved" ELSE "rollback" OBVIOUS
    <2>3. /\ work[r] = "charged" /\ work' = [work EXCEPT ![r] = at]
          /\ at \in {"saved", "rollback"} /\ at \in Works
      BY <2>1, <2>2 DEF WorkGoes, Works
    <2>4. disk'.used \in Int BY <1>1, <2>1, UsedWritten
    <2>5. disk'.row = disk.row \/ disk'.row = row'
      <3>1. row' \in [Row -> RowStates] BY <1>1, <2>1 DEF LedgerTyped
      <3> QED BY <1>1, <2>1, <3>1, Written
    <2>6. row[r] # "finishing"
      BY <1>1, <2>3 DEF DayTyped
    <2> QED BY <1>1, <1>2, <2>1, <2>3, <2>4, <2>5, <2>6, RowDay
  <1>5. CASE SaveQuota(r)
    <2>1. PICK wrote \in BOOLEAN :
            /\ PersistQuota(wrote) /\ UNCHANGED <<row, used, reserved, erased, debt>>
            /\ WorkGoes(r, "saved", "leave")
      BY <1>5 DEF SaveQuota
    <2>2. work[r] = "saved" /\ work' = [work EXCEPT ![r] = "leave"] /\ "leave" \in Works
      BY <2>1 DEF WorkGoes, Works
    <2>3. disk'.used \in Int BY <1>1, <2>1, UsedWritten
    <2>4. disk'.row = disk.row BY <1>1, <2>1, QuotaWritten
    <2>5. row[r] # "finishing" BY <1>1, <2>2 DEF DayTyped
    <2> QED BY <1>1, <1>2, <2>1, <2>2, <2>3, <2>4, <2>5, RowDay
  <1>6. CASE Requeue(r)
    <2>1. PICK wrote \in BOOLEAN :
            /\ PersistQueue(wrote) /\ UNCHANGED <<used, reserved, erased, debt>>
            /\ row' = [row EXCEPT ![r] = "held"]
      BY <1>6 DEF Requeue
    <2>2. /\ work[r] \in {"requeue", "transfer"} /\ work' = [work EXCEPT ![r] = "leave"]
          /\ "leave" \in Works /\ "held" \in RowStates
      BY <1>6 DEF Requeue, WorkGoes, Works, RowStates
    <2>3. disk'.used \in Int BY <1>1, <2>1, UsedWritten
    <2>4. disk'.row = disk.row \/ disk'.row = row'
      <3>1. row' \in [Row -> RowStates] BY <1>1, <2>1, <2>2 DEF LedgerTyped
      <3> QED BY <1>1, <2>1, <3>1, Written
    <2> QED BY <1>1, <2>1, <2>2, <2>3, <2>4, RowDay
  <1>7. CASE BackoffEnds(r)
    <2>1. /\ row' = [row EXCEPT ![r] = "pending"] /\ work[r] = "idle"
          /\ UNCHANGED <<work, used, reserved, erased, debt, disk>> /\ "pending" \in RowStates
      BY <1>7 DEF BackoffEnds, RowStates
    <2>2. disk'.used \in Int /\ disk'.row = disk.row BY <1>1, <2>1 DEF DayTyped
    <2> QED BY <1>1, <1>2, <2>1, <2>2, RowDay
  <1> QED BY <1>3, <1>4, <1>5, <1>6, <1>7

LEMMA FlushDay == ASSUME LedgerTyped, DayInv, FlushQueue \/ FlushQuota  PROVE DayInv'
  <1>1. PICK wrote \in BOOLEAN : PersistQueue(wrote) \/ PersistQuota(wrote)
    BY DEF FlushQueue, FlushQuota
  <1>2. UNCHANGED <<row, work, reserved, used, erased, debt>> BY DEF FlushQueue, FlushQuota
  <1>3. used \in Int /\ DayTyped BY DEF DayInv, DayTyped
  <1>4. disk'.used \in Int BY <1>1, <1>2, <1>3, UsedWritten
  <1>5. DayTyped' BY <1>2, <1>4 DEF DayInv, DayTyped
  <1>6. disk'.row = row' \/ disk'.row = disk.row
    <2>1. row' \in [Row -> RowStates] BY <1>2 DEF LedgerTyped
    <2> QED BY <1>1, <2>1, Written, QuotaWritten
  <1>7. InFlight' = InFlight /\ Counted' = Counted BY <1>2 DEF InFlight, Counted, Today
  <1>8. Claimed' = Claimed BY <1>7 DEF Claimed
  <1>9. disk'.row = disk.row => Stored' = Stored BY <1>2 DEF Stored
  <1>10. disk'.row = row' => Stored' \subseteq Claimed'
    BY <1>5 DEF DayTyped, Stored, Claimed, Counted, InFlight, Today
  <1> QED BY <1>2, <1>5, <1>6, <1>7, <1>8, <1>9, <1>10, DayStays

LEMMA TurnDay == ASSUME LedgerTyped, DayInv, Turn  PROVE DayInv'
  <1>1. PICK a, b, c : disk = [row |-> a, used |-> b, current |-> c]
    BY DEF LedgerTyped
  <1>2. /\ disk' = [row |-> Yesterday(a), used |-> b, current |-> FALSE]
        /\ row' = Yesterday(row) /\ erased' = {r \in erased : work[r] \in {"charged", "rollback"}}
        /\ UNCHANGED <<work, reserved, used, debt>>
    BY <1>1 DEF Turn
  <1>3. disk.row = a /\ disk.used = b /\ disk'.row = Yesterday(a) /\ disk'.used = b
    BY <1>1, <1>2
  <1>4. ASSUME NEW f
        PROVE  \A s \in Row : Yesterday(f)[s] = IF f[s] = "today" THEN "done" ELSE f[s]
    BY DEF Yesterday
  <1>5. \A s \in Row : /\ row'[s] = IF row[s] = "today" THEN "done" ELSE row[s]
                       /\ disk'.row[s] = IF disk.row[s] = "today" THEN "done" ELSE disk.row[s]
    BY <1>2, <1>3, <1>4
  <1>6. DayTyped' BY <1>2, <1>3, <1>5 DEF DayInv, DayTyped
  <1>7. InFlight' = InFlight BY <1>2 DEF InFlight
  <1>8. Counted' \subseteq Counted BY <1>2, <1>5 DEF Counted, Today
  <1>9. Claimed' \subseteq Claimed BY <1>7, <1>8 DEF Claimed
  <1>10. Stored' \subseteq Stored BY <1>5 DEF Stored
  <1> QED BY <1>2, <1>6, <1>7, <1>8, <1>9, <1>10, DayStays

LEMMA RollDay == ASSUME LedgerTyped, DayInv, Roll  PROVE DayInv'
  <1>1. PICK wrote \in BOOLEAN : PersistQuota(wrote) BY DEF Roll
  <1>2. /\ used' = 0 /\ UNCHANGED <<row, work, reserved, debt>>
        /\ erased' = erased \cup Today \cup {r \in Row : work[r] \in {"charged", "rollback"}}
    BY DEF Roll
  <1>3. DayTyped BY DEF DayInv
  <1>4. disk'.used \in Int BY <1>1, <1>2, <1>3, UsedWritten
  <1>5. disk'.row = disk.row BY <1>1, QuotaWritten
  <1>6. DayTyped' BY <1>2, <1>3, <1>4 DEF DayTyped, Today
  <1>7. InFlight' = InFlight BY <1>2 DEF InFlight
  <1>8. Counted' = {} BY <1>2 DEF Counted, Today
  <1>9. Claimed' \subseteq Claimed BY <1>7, <1>8 DEF Claimed
  <1>10. Stored' \subseteq Stored BY <1>2, <1>5 DEF Stored
  <1>11. reserved' = Weight(InFlight') BY <1>2, <1>7 DEF DayInv, ReservedExact
  <1>12. Weight(Counted') <= used'
    <2>1. Weight({}) = 0 BY WeightFirst
    <2> QED BY <1>2, <1>8, <2>1
  <1> QED BY <1>2, <1>6, <1>9, <1>10, <1>11, <1>12, DayShrinks

LEMMA LoadDay == ASSUME LedgerTyped, DayInv, CrashAndLoad  PROVE DayInv'
  <1>1. \A s \in Row : Recovered[s] = IF disk.row[s] = "running" THEN "pending" ELSE
                         IF disk.row[s] = "finishing" THEN "today" ELSE disk.row[s]
    BY DEF Recovered
  <1>2. /\ row' = Recovered /\ work' = [r \in Row |-> "idle"] /\ reserved' = 0
        /\ used' = HealedUsed /\ erased' = {r \in erased : row'[r] = "today"} /\ debt' = debt
    BY DEF CrashAndLoad
  <1> DEFINE today == {r \in Row : Recovered[r] = "today"}
             finishing == {r \in Row : disk.row[r] = "finishing"}
  <1>3. today \in SUBSET Row /\ finishing \in SUBSET Row OBVIOUS
  <1>4. Weight(today) \in Nat /\ Weight(finishing) \in Nat /\ disk.used \in Int
    <2> HIDE DEF today, finishing
    <2> QED BY <1>3, WeightFirst DEF DayInv, DayTyped
  <1>5. used' = IF Weight(today) > disk.used + Weight(finishing) THEN Weight(today)
                ELSE disk.used + Weight(finishing)
    BY <1>2 DEF HealedUsed
  <1>6. used' \in Int /\ Weight(today) <= used'
    <2> HIDE DEF today, finishing
    <2> QED BY <1>4, <1>5
  <1>7. PICK a, b, c : /\ disk' = [row |-> a, used |-> b, current |-> c]
                       /\ a = row' \/ a = disk.row
                       /\ b = used' \/ b = disk.used
    BY DEF CrashAndLoad
  <1>8. disk'.row = a /\ disk'.used = b BY <1>7
  <1>9. disk'.used \in Int BY <1>4, <1>6, <1>7, <1>8
  <1>10. \A r \in Row : row'[r] # "finishing" BY <1>1, <1>2
  <1>11. DayTyped' BY <1>2, <1>6, <1>9, <1>10 DEF DayInv, DayTyped
  <1>12. InFlight' = {} BY <1>2 DEF InFlight
  <1>13. Counted' \subseteq today BY <1>2 DEF Counted, Today
  <1>14. Weight(Counted') <= used'
    <2>1. Weight(Counted') <= Weight(today)
      <3> HIDE DEF today
      <3> QED BY <1>3, <1>13, WeightPart
    <2>2. Weight(Counted') \in Nat
      <3> HIDE DEF today
      <3> QED BY <1>3, <1>13, WeightFirst
    <2> HIDE DEF today
    <2> QED BY <1>4, <1>6, <2>1, <2>2
  <1>15. Claimed' \subseteq Stored
    BY <1>1, <1>2, <1>12 DEF Claimed, Counted, Today, Stored
  <1>16. Stored' \subseteq Stored
    BY <1>1, <1>2, <1>7, <1>8 DEF Stored
  <1>17. reserved' = Weight(InFlight')
    <2>1. Weight({}) = 0 BY WeightFirst
    <2> QED BY <1>2, <1>12, <2>1
  <1> QED BY <1>2, <1>11, <1>14, <1>15, <1>16, <1>17, DayShrinks

LEMMA NextDay == ASSUME LedgerInv, DayInv, [Next]_vars  PROVE DayInv'
  <1>0. LedgerTyped BY DEF LedgerInv
  <1>1. ASSUME NEW r \in Row, Dispatch(r)  PROVE DayInv' BY <1>0, <1>1, TakeDay DEF Dispatch
  <1>2. CASE UNCHANGED <<row, work, reserved, used, disk, erased, debt>>
    <2>1. DayTyped' BY <1>2 DEF DayInv, DayTyped
    <2>2. InFlight' = InFlight /\ Counted' = Counted /\ Stored' = Stored
      BY <1>2 DEF InFlight, Counted, Today, Stored
    <2>3. Claimed' = Claimed BY <2>2 DEF Claimed
    <2> QED BY <1>2, <2>1, <2>2, <2>3, DayStays
  <1>3. ASSUME NEW r \in Row, AtGate(r)  PROVE DayInv'
    <2>1. UNCHANGED quotaVars \/ SpendFault \/ Commit(r) BY <1>3 DEF AtGate
    <2> QED BY <1>2, <2>1, WorkDay DEF quotaVars, SpendFault
  <1>4. ASSUME NEW r \in Row, InLedger(r)  PROVE DayInv'
    <2>1. Charge(r) \/ SaveQueue(r) \/ RollBack(r) \/ SaveQuota(r) \/ Requeue(r) \/ Leave(r)
      BY <1>4 DEF InLedger
    <2> QED BY <1>0, <2>1, ChargeDay, RollBackDay, LeaveDay, WorkDay
  <1>5. CASE Background
    <2>1. FlushQueue \/ FlushQuota \/ Roll \/ UNCHANGED quotaVars
      BY <1>5 DEF Background
    <2> QED BY <1>0, <1>2, <2>1, FlushDay, RollDay DEF quotaVars
  <1>6. ASSUME NEW r \in Row, BackoffEnds(r)  PROVE DayInv' BY <1>6, WorkDay
  <1>7. CASE Restart BY <1>0, <1>7, LoadDay DEF Restart
  <1>8. CASE UNCHANGED vars BY <1>2, <1>8 DEF vars, quotaVars
  <1>9. CASE Passes BY <1>0, <1>2, <1>9, TurnDay DEF Passes, quotaVars
  <1> QED BY <1>1, <1>3, <1>4, <1>5, <1>6, <1>7, <1>8, <1>9 DEF Next, Continues, Transfer

LEMMA InitDay == Init => DayInv
  <1> SUFFICES ASSUME Init PROVE DayInv OBVIOUS
  <1>1. /\ row = [r \in Row |-> "pending"] /\ work = [r \in Row |-> "idle"]
        /\ reserved = 0 /\ used = 0 /\ erased = {} /\ debt = FALSE
        /\ disk = [row |-> row, used |-> 0, current |-> TRUE]
    BY DEF Init, QuotaInit
  <1>2. disk.row = row /\ disk.used = 0 BY <1>1
  <1>3. DayTyped
    <2>1. \A r \in Row : row[r] = "pending" BY <1>1
    <2>2. debt \in BOOLEAN BY <1>1
    <2>3. used \in Int /\ erased \subseteq Row BY <1>1
    <2>4. disk.used \in Int BY <1>2
    <2> QED BY <2>1, <2>2, <2>3, <2>4 DEF DayTyped
  <1>4. InFlight = {} /\ Counted = {} /\ Stored = {}
    BY <1>1, <1>2 DEF InFlight, Counted, Today, Stored
  <1>5. Claimed = {} BY <1>4 DEF Claimed
  <1>6. Weight({}) = 0 /\ DailyLimit \in Nat BY WeightFirst, QuotaAssumption
  <1>7. WithinLimit({}, DailyLimit) BY <1>6 DEF WithinLimit
  <1> QED BY <1>1, <1>3, <1>4, <1>5, <1>6, <1>7
      DEF DayInv, ReservedExact, Covered, DayOK

LEMMA DayHolds == Spec => [](LedgerInv /\ DayInv)
  <1>1. Init => DayInv BY InitDay
  <1>2. LedgerInv /\ DayInv /\ [Next]_vars => DayInv' BY NextDay
  <1> QED BY <1>1, <1>2, LedgerHolds, PTL DEF Spec

\* Every counter is the sum of what is held: the allowance of the rows in flight, the
\* slots, the room of the downloads, for any number of rows and any sizes, through
\* failures, restarts and turns of the day.
THEOREM NothingLeaks == Spec => []CountersExact
  <1>1. DayInv /\ GatesInv /\ RoomInv => CountersExact
    BY DEF DayInv, ReservedExact, GatesInv, RoomInv, SlotsHeld, Holding, CountersExact,
       SlotsCounted
  <1> QED BY <1>1, DayHolds, RoomHolds, PTL

\* The counter never shows less than what it was charged for in its period.
THEOREM LedgerIsCovered == Spec => []LedgerCovers
  <1>1. DayInv => LedgerCovers
    <2> SUFFICES ASSUME DayInv, current, ~debt PROVE used >= Weight(Today \ erased)
      BY DEF LedgerCovers
    <2>1. Counted \in SUBSET Row /\ Today \ erased \in SUBSET Counted
      BY DaySets DEF DayInv, Counted
    <2>2. Weight(Today \ erased) <= Weight(Counted) BY <2>1, WeightPart
    <2>3. Weight(Today \ erased) \in Nat /\ Weight(Counted) \in Nat /\ used \in Int
      BY <2>1, WeightFirst DEF DayInv, DayTyped
    <2>4. Weight(Counted) <= used BY DEF DayInv, Covered
    <2> QED BY <2>2, <2>3, <2>4
  <1> QED BY <1>1, DayHolds, PTL

\* No day delivers more than its limit, or one file that alone exceeds it, for any
\* limit, sizes, faults, crashes and turns of the day (quotaAllowsLocked).
THEOREM DayIsKept == Spec => []DayWithinLimit
  <1>1. DayInv => DayWithinLimit
    <2> SUFFICES ASSUME DayInv, DailyLimit > 0, ~debt
                 PROVE  WithinLimit(Today \ erased, DailyLimit)
      BY DEF DayWithinLimit
    <2>1. Claimed \in SUBSET Row /\ Today \ erased \in SUBSET Claimed
      BY DaySets DEF DayInv, Counted, Claimed
    <2>2. WithinLimit(Claimed, DailyLimit) BY DEF DayInv, DayOK
    <2> QED BY <2>1, <2>2, PartWithinLimit, QuotaAssumption
  <1> QED BY <1>1, DayHolds, PTL

----------------------------------------------------------------------------
(* The clock.                                                              *)
LEMMA MinuteHolds == Spec => [](minute \in 0..(DayLength - 1))
  <1> DEFINE Inv == minute \in 0..(DayLength - 1)
  <1>1. Init => Inv BY DEF Init
  <1>2. ASSUME Inv, [Next]_vars PROVE Inv'
    <2>1. CASE UNCHANGED minute BY <1>2, <2>1
    <2>2. CASE Passes
      <3>1. Now \in Moment BY <1>2 DEF Now, Moment
      <3> QED BY <2>2, <3>1, LaterIsNext DEF Passes, Moment
    <2> QED BY <1>2, <2>1, <2>2 DEF Next, Dispatch, Continues, vars
  <1> QED BY <1>1, <1>2, PTL DEF Spec

\* The page tells the truth about a closed window, for any window and any length of
\* the day (Schedule.Open, NextOpen).
THEOREM WindowIsTold == Spec => []WindowTold
  <1>1. minute \in 0..(DayLength - 1) => WindowTold
    <2> SUFFICES ASSUME minute \in 0..(DayLength - 1) PROVE WindowTold OBVIOUS
    <2>1. Now \in Moment /\ Schedule \in Schedules /\ Now.date = 0
      BY SettingsAssumption DEF Now, Moment
    <2>2. CASE Schedule.enabled /\ ~Open(Schedule, Now)
      <3> DEFINE next == NextOpen(Schedule, Now)
      <3>1. /\ Before(Now, next) /\ AtMost(next, Days(Now, 1)) /\ Open(Schedule, next)
            /\ next.date \in Int
            /\ \A u \in Moment : AtMost(Now, u) /\ Before(u, next) => ~Open(Schedule, u)
        BY <2>1, <2>2, ClosedUntil
      <3>2. [date: {0, next.date}, minute: 0..(DayLength - 1)] \subseteq Moment
        BY <2>1, <3>1 DEF Moment
      <3> QED BY <2>2, <3>1, <3>2 DEF WindowTold
    <2>3. CASE ~ (Schedule.enabled /\ ~Open(Schedule, Now))
      BY <2>3 DEF WindowTold, NextOpen
    <2> QED BY <2>2, <2>3
  <1> QED BY <1>1, MinuteHolds, PTL
=============================================================================
