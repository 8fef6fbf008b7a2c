------------------------- MODULE TransferCallsProofs -------------------------
(***************************************************************************)
(* What the calls of TransferQueue and its goroutines owe each other, for  *)
(* every number of rows, goroutines, callers and host jobs.                *)
(***************************************************************************)
EXTENDS TransferQueueProofs, FiniteSetTheorems

----------------------------------------------------------------------------
(* Where a goroutine's step takes it. *)

\* w goes on at p with this job and this decision about its bytes.
Lands(w, p, j, d) ==
  /\ worker'[w].pc = p /\ worker'[w].job = j /\ worker'[w].discard = d
  /\ worker'[w].row = worker[w].row

LEMMA Landing ==
  ASSUME WorkersOK, NEW w \in Workers, NEW p, NEW u, NEW v
  PROVE  LET W == worker[w] IN
         /\ Goto(w, p) => Lands(w, p, W.job, W.discard)
         /\ FailWith(w, u) => Lands(w, "failed", W.job, W.discard)
         /\ Put(w, [W EXCEPT !.pc = p, !.job = v]) => Lands(w, p, v, W.discard)
         /\ Put(w, [W EXCEPT !.pc = p, !.discard = v]) => Lands(w, p, W.job, v)
         /\ Put(w, [W EXCEPT !.pc = p, !.out = u, !.job = v]) => Lands(w, p, v, W.discard)
         /\ Put(w, [W EXCEPT !.pc = p, !.out = u, !.discard = v]) => Lands(w, p, W.job, v)
<1> DEFINE W == worker[w]
<1>1. W \in WorkerType /\ worker \in [Workers -> WorkerType] BY DEF WorkersOK
<1>2. ASSUME NEW r, Put(w, r) PROVE worker'[w] = r
  BY <1>1, <1>2 DEF Put
<1> HIDE DEF W
<1> DEFINE a == [W EXCEPT !.pc = p]
           b == [W EXCEPT !.pc = "failed", !.out = u]
           c == [W EXCEPT !.pc = p, !.job = v]
           d == [W EXCEPT !.pc = p, !.discard = v]
           e == [W EXCEPT !.pc = p, !.out = u, !.job = v]
           f == [W EXCEPT !.pc = p, !.out = u, !.discard = v]
<1>3. /\ a.pc = p /\ a.job = W.job /\ a.discard = W.discard /\ a.row = W.row
      /\ b.pc = "failed" /\ b.job = W.job /\ b.discard = W.discard /\ b.row = W.row
  BY <1>1 DEF WorkerType
<1>4. /\ c.pc = p /\ c.job = v /\ c.discard = W.discard /\ c.row = W.row
      /\ d.pc = p /\ d.job = W.job /\ d.discard = v /\ d.row = W.row
  BY <1>1 DEF WorkerType
<1>5. /\ e.pc = p /\ e.job = v /\ e.discard = W.discard /\ e.row = W.row
      /\ f.pc = p /\ f.job = W.job /\ f.discard = v /\ f.row = W.row
  BY <1>1 DEF WorkerType
<1>6. /\ Goto(w, p) => Put(w, a)
      /\ FailWith(w, u) => Put(w, b)
  BY DEF Goto, FailWith, W
<1> HIDE DEF a, b, c, d, e, f
<1>7. /\ Put(w, a) => Lands(w, p, W.job, W.discard)
      /\ Put(w, b) => Lands(w, "failed", W.job, W.discard)
      /\ Put(w, c) => Lands(w, p, v, W.discard)
      /\ Put(w, d) => Lands(w, p, W.job, v)
      /\ Put(w, e) => Lands(w, p, v, W.discard)
      /\ Put(w, f) => Lands(w, p, W.job, v)
  BY <1>2, <1>3, <1>4, <1>5 DEF Lands, W
<1> QED BY <1>6, <1>7 DEF W, a, b, c, d, e, f

LEMMA LandsAt ==
  ASSUME WorkersOK, NEW w \in Workers, NEW p, NEW u, NEW v
  PROVE  LET W == worker[w] IN
         /\ \/ Goto(w, p)
            \/ Put(w, [W EXCEPT !.pc = p, !.job = v])
            \/ Put(w, [W EXCEPT !.pc = p, !.discard = v])
            \/ Put(w, [W EXCEPT !.pc = p, !.out = u, !.job = v])
            \/ Put(w, [W EXCEPT !.pc = p, !.out = u, !.discard = v])
            => worker'[w].pc = p
         /\ FailWith(w, u) => worker'[w].pc = "failed"
BY Landing DEF Lands

----------------------------------------------------------------------------
(* What a call holds, and what holds of it. *)

\* What is marked, still to be done and being done in the record of a call.
Shaped(k) ==
  /\ k.op = "cancel" => k.todo \subseteq k.held /\ (k.cur # None => k.cur \in k.held)
  /\ k.op # "cancel" => k.cur = None
  /\ k.op = "retry" => k.todo = k.held
  /\ k.op \in {"deleteStaged", "cleanup"} => k.todo \subseteq k.held
  /\ k.op \in {"none", "clear", "prune", "sweep"} => k.held = {}

\* The rows a call marked when nobody else had: all but those Cancel interrupts.
Sole(k) == IF k.op = "cancel" THEN k.todo ELSE k.held

\* complete is writing the queue for this row.
Persisting(i) == runs[i] # None /\ worker[runs[i]].pc = "persist"

\* What such a mark keeps true of the row.
Quiet(op, i) ==
  /\ op \in {"cancel", "retry"} => runs[i] = None
  /\ op = "cancel" => item[i].state = "cancelled"
  /\ op = "retry" => item[i].state \in {"pending", "failed", "cancelled"}
  /\ op = "deleteStaged" /\ i \in queue => runs[i] = None
  /\ op = "cleanup" => item[i].state = "complete" /\ ~Persisting(i)

HeldInv == \A c \in Clients :
  /\ Shaped(client[c])
  /\ \A i \in Sole(client[c]) :
       /\ Quiet(client[c].op, i)
       /\ \A d \in Clients : i \in client[d].held => d = c

\* The same count as DeletingCountsHolders, with at most one completion.
Marks == \A i \in Items :
  /\ IsFiniteSet(Holders(i))
  /\ deleting[i] = Cardinality(Holders(i)) + (IF Persisting(i) THEN 1 ELSE 0)

CallsInv == HeldInv /\ Marks

LEMMA HoldersCounted ==
  ASSUME Marks, NEW i \in Items
  PROVE  /\ Cardinality(Holders(i)) \in Nat
         /\ deleting[i] = 0 => Holders(i) = {} /\ ~Persisting(i)
         /\ Holders(i) # {} \/ Persisting(i) => deleting[i] > 0
<1>1. /\ IsFiniteSet(Holders(i))
      /\ deleting[i] = Cardinality(Holders(i)) + (IF Persisting(i) THEN 1 ELSE 0)
  BY DEF Marks
<1>2. Cardinality(Holders(i)) \in Nat /\ (Cardinality(Holders(i)) = 0 <=> Holders(i) = {})
  BY <1>1, FS_CardinalityType, FS_EmptySet
<1> QED BY <1>1, <1>2

\* A row nobody has marked is in no call's hands.
LEMMA UnmarkedIsFree ==
  ASSUME Marks, NEW i \in Items, deleting[i] = 0, NEW c \in Clients
  PROVE  i \notin client[c].held
BY HoldersCounted DEF Holders

LEMMA SoleIsHeld ==
  ASSUME HeldInv, NEW c \in Clients PROVE Sole(client[c]) \subseteq client[c].held
BY DEF HeldInv, Shaped, Sole

LEMMA QuietStays ==
  ASSUME NEW op, NEW i, Quiet(op, i), item'[i].state = item[i].state, runs'[i] = runs[i],
         i \in queue' => i \in queue, Persisting(i)' => Persisting(i)
  PROVE  Quiet(op, i)'
BY DEF Quiet

----------------------------------------------------------------------------
(* One call's record changes. *)

LEMMA HoldersMove ==
  ASSUME CallsOK, NEW c \in Clients, NEW r, client' = [client EXCEPT ![c] = r],
         NEW i \in Items, IsFiniteSet(Holders(i))
  PROVE  /\ IsFiniteSet(Holders(i)')
         /\ (i \in client[c].held <=> i \in r.held) => Holders(i)' = Holders(i)
         /\ i \notin client[c].held /\ i \in r.held =>
              Cardinality(Holders(i)') = Cardinality(Holders(i)) + 1
         /\ i \in client[c].held /\ i \notin r.held =>
              Cardinality(Holders(i)') = Cardinality(Holders(i)) - 1
<1>1. /\ client'[c] = r /\ \A d \in Clients \ {c} : client'[d] = client[d]
  BY DEF CallsOK
<1>2. (i \in client[c].held <=> i \in r.held) => Holders(i)' = Holders(i)
  BY <1>1 DEF Holders
<1>3. CASE i \notin client[c].held /\ i \in r.held
  <2>1. Holders(i)' = Holders(i) \cup {c} /\ c \notin Holders(i)
    BY <1>1, <1>3 DEF Holders
  <2> QED BY <2>1, <1>3, FS_AddElement
<1>4. CASE i \in client[c].held /\ i \notin r.held
  <2>1. Holders(i)' = Holders(i) \ {c} /\ c \in Holders(i)
    BY <1>1, <1>4 DEF Holders
  <2> QED BY <2>1, <1>4, FS_RemoveElement
<1> QED BY <1>2, <1>3, <1>4

\* The call marks rows it did not hold.
LEMMA MarksGain ==
  ASSUME TypedInv, Marks, UNCHANGED <<runs, worker>>,
         NEW c \in Clients, NEW r, client' = [client EXCEPT ![c] = r], NEW S,
         r.held = client[c].held \cup S, S \cap client[c].held = {}, deleting' = Mark(S)
  PROVE  Marks'
<1> SUFFICES ASSUME NEW i \in Items
             PROVE  /\ IsFiniteSet(Holders(i)')
                    /\ deleting'[i] = Cardinality(Holders(i)') + (IF Persisting(i)' THEN 1 ELSE 0)
  BY DEF Marks
<1>1. /\ IsFiniteSet(Holders(i)) /\ Cardinality(Holders(i)) \in Nat
      /\ deleting[i] = Cardinality(Holders(i)) + (IF Persisting(i) THEN 1 ELSE 0)
  BY HoldersCounted DEF Marks
<1>2. CallsOK BY DEF TypedInv
<1>3. Persisting(i)' <=> Persisting(i) BY DEF Persisting
<1>4. deleting'[i] = IF i \in S THEN deleting[i] + 1 ELSE deleting[i] BY DEF Mark
<1>5. IsFiniteSet(Holders(i)') BY <1>1, <1>2, HoldersMove
<1>6. CASE i \in S
  <2>1. Cardinality(Holders(i)') = Cardinality(Holders(i)) + 1
    BY <1>1, <1>2, <1>6, HoldersMove
  <2> QED BY <1>1, <1>3, <1>4, <1>5, <1>6, <2>1
<1>7. CASE i \notin S
  <2>1. Holders(i)' = Holders(i) BY <1>1, <1>2, <1>7, HoldersMove
  <2> QED BY <1>1, <1>3, <1>4, <1>5, <1>7, <2>1
<1> QED BY <1>6, <1>7

\* It gives marks back.
LEMMA MarksLose ==
  ASSUME TypedInv, Marks, UNCHANGED <<runs, worker>>,
         NEW c \in Clients, NEW r, client' = [client EXCEPT ![c] = r], NEW S,
         S \subseteq client[c].held, r.held = client[c].held \ S, deleting' = Unmark(S)
  PROVE  Marks'
<1> SUFFICES ASSUME NEW i \in Items
             PROVE  /\ IsFiniteSet(Holders(i)')
                    /\ deleting'[i] = Cardinality(Holders(i)') + (IF Persisting(i)' THEN 1 ELSE 0)
  BY DEF Marks
<1>1. /\ IsFiniteSet(Holders(i)) /\ Cardinality(Holders(i)) \in Nat
      /\ deleting[i] = Cardinality(Holders(i)) + (IF Persisting(i) THEN 1 ELSE 0)
  BY HoldersCounted DEF Marks
<1>2. CallsOK BY DEF TypedInv
<1>3. Persisting(i)' <=> Persisting(i) BY DEF Persisting
<1>4. deleting'[i] = IF i \in S /\ deleting[i] > 0 THEN deleting[i] - 1 ELSE deleting[i]
  BY DEF Unmark
<1>5. IsFiniteSet(Holders(i)') BY <1>1, <1>2, HoldersMove
<1>6. CASE i \in S
  <2>1. Cardinality(Holders(i)') = Cardinality(Holders(i)) - 1
    BY <1>1, <1>2, <1>6, HoldersMove
  <2>2. deleting[i] > 0 BY <1>6, HoldersCounted DEF Holders
  <2> QED BY <1>1, <1>3, <1>4, <1>5, <1>6, <2>1, <2>2
<1>7. CASE i \notin S
  <2>1. Holders(i)' = Holders(i) BY <1>1, <1>2, <1>7, HoldersMove
  <2> QED BY <1>1, <1>3, <1>4, <1>5, <1>7, <2>1
<1> QED BY <1>6, <1>7

LEMMA MarksStay ==
  ASSUME TypedInv, Marks, UNCHANGED <<runs, worker, deleting>>,
         NEW c \in Clients, NEW r, client' = [client EXCEPT ![c] = r], r.held = client[c].held
  PROVE  Marks'
<1> SUFFICES ASSUME NEW i \in Items
             PROVE  /\ IsFiniteSet(Holders(i)')
                    /\ deleting'[i] = Cardinality(Holders(i)') + (IF Persisting(i)' THEN 1 ELSE 0)
  BY DEF Marks
<1>1. /\ IsFiniteSet(Holders(i))
      /\ deleting[i] = Cardinality(Holders(i)) + (IF Persisting(i) THEN 1 ELSE 0)
  BY DEF Marks
<1>2. CallsOK BY DEF TypedInv
<1>3. Persisting(i)' <=> Persisting(i) BY DEF Persisting
<1>4. Holders(i)' = Holders(i) BY <1>1, <1>2, HoldersMove
<1> QED BY <1>1, <1>3, <1>4

\* What is to be shown of a call's new record, and of the rows of the others.
LEMMA HeldMove ==
  ASSUME TypedInv, HeldInv, NEW c \in Clients, NEW r, client' = [client EXCEPT ![c] = r],
         Shaped(r),
         \A i \in Sole(r) : Quiet(r.op, i)' /\ \A d \in Clients \ {c} : i \notin client[d].held,
         \A d \in Clients \ {c} : \A i \in Sole(client[d]) : Quiet(client[d].op, i)' /\ i \notin r.held
  PROVE  HeldInv'
<1>1. client'[c] = r /\ \A d \in Clients \ {c} : client'[d] = client[d]
  BY DEF TypedInv, CallsOK
<1>2. ASSUME NEW d \in Clients PROVE Shaped(client'[d])
  BY <1>1 DEF HeldInv
<1>3. ASSUME NEW d \in Clients, NEW i, i \in Sole(client'[d]) PROVE Quiet(client[d].op, i)'
  <2>1. CASE d = c
    <3>1. client'[d] = r /\ i \in Sole(r) BY <1>1, <1>3, <2>1
    <3> QED BY <3>1 DEF Quiet, Persisting
  <2>2. CASE d # c
    <3>1. client'[d] = client[d] BY <1>1, <2>2
    <3>2. i \in Sole(client[d]) BY <1>3, <3>1
    <3> QED BY <2>2, <3>2
  <2> QED BY <2>1, <2>2
<1>4. ASSUME NEW d \in Clients, NEW i, i \in Sole(client'[d]), NEW e \in Clients,
             i \in client'[e].held
      PROVE  e = d
  <2>1. CASE d = c BY <1>1, <1>4, <2>1
  <2>2. CASE d # c /\ e = c BY <1>1, <1>4, <2>2
  <2>3. CASE d # c /\ e # c BY <1>1, <1>4, <2>3 DEF HeldInv
  <2> QED BY <2>1, <2>2, <2>3
<1> QED BY <1>2, <1>3, <1>4 DEF HeldInv, Sole, Shaped

----------------------------------------------------------------------------
(* The goroutines' steps. *)

\* A goroutine marks its row while complete writes the queue, and only then, and
\* does not come back to a row it has completed.
CompletionMarks(w) ==
  \/ deleting' = deleting /\ worker[w].pc # "persist" /\ worker'[w].pc # "persist"
  \/ deleting' = Mark({worker[w].row}) /\ worker[w].pc # "persist" /\ worker'[w].pc = "persist"
  \/ deleting' = Unmark({worker[w].row}) /\ worker[w].pc = "persist" /\ worker'[w].pc # "persist"
StaysComplete(w) ==
  item[worker[w].row].state = "complete" /\ worker[w].pc # "persist" =>
    item'[worker[w].row].state = "complete" /\ worker'[w].pc # "persist"

LEMMA TransferMarks ==
  ASSUME TypedInv, Control, NEW w \in Workers, Transfer(w)
  PROVE  client' = client /\ CompletionMarks(w) /\ StaysComplete(w)
<1> DEFINE i == worker[w].row
<1>1. /\ WorkersOK /\ i \in Items /\ worker \in [Workers -> WorkerType]
      /\ item \in [Items -> ItemType] /\ Fits(w) /\ Serving(w)
  BY TransferServes DEF TypedInv, WorkersOK, RowsOK, Control, RowFollowsWorker
<1>2. worker[w].pc \in Working => item[i].state # "complete"
  BY <1>1 DEF Fits
<1>a. ASSUME NEW p, p # "persist", deleting' = deleting, worker[w].pc # "persist",
             \E j, d : Lands(w, p, j, d),
             item[i].state # "complete" \/ item'[i].state = item[i].state
      PROVE  CompletionMarks(w) /\ StaysComplete(w)
  BY <1>a DEF CompletionMarks, StaysComplete, Lands
<1> HIDE DEF i
<1>3. CASE \/ Watch(w) \/ StageEnter(w) \/ DownloadDone(w) \/ DownloadFails(w)
           \/ AcquireSlot(w) \/ BeginUpload(w) \/ Push(w) \/ AbortOwn(w) \/ ForgetJob(w)
           \/ CheckCancelled(w) \/ Finishing(w) \/ Failed(w) \/ Settle(w)
  <2>1. worker[w].pc # "persist" /\ item[i].state # "complete"
    BY <1>2, <1>3 DEF Watch, StageEnter, DownloadDone, DownloadFails, AcquireSlot, BeginUpload,
       Push, AbortOwn, ForgetJob, CheckCancelled, Finishing, Failed, Settle, At, Working, PCs
  <2>2. UNCHANGED <<client, deleting>>
    BY <1>3 DEF Watch, StageEnter, DownloadDone, DownloadFails, AcquireSlot, BeginUpload,
       Push, AbortOwn, ForgetJob, CheckCancelled, Finishing, Failed, Settle, engine
  <2>3. CASE Watch(w) \/ StageEnter(w) \/ DownloadDone(w) \/ DownloadFails(w)
             \/ AcquireSlot(w) \/ Push(w) \/ CheckCancelled(w) \/ Finishing(w) \/ Settle(w)
    BY <1>1, <2>1, <2>2, <2>3, <1>a, Landing DEF Watch, StageEnter, DownloadDone, DownloadFails,
       AcquireSlot, Push, CheckCancelled, Finishing, Settle
  <2>4. CASE BeginUpload(w) \/ AbortOwn(w) \/ ForgetJob(w) \/ Failed(w)
    <3>1. CASE BeginUpload(w)
      BY <1>1, <2>1, <2>2, <3>1, <1>a, Landing DEF BeginUpload
    <3>2. CASE AbortOwn(w) \/ ForgetJob(w)
      BY <1>1, <2>1, <2>2, <3>2, <1>a, Landing DEF AbortOwn, ForgetJob
    <3>3. CASE Failed(w)
      BY <1>1, <2>1, <2>2, <3>3, <1>a, Landing DEF Failed
    <3> QED BY <2>4, <3>1, <3>2, <3>3
  <2> QED BY <1>3, <2>2, <2>3, <2>4
<1>4. CASE DownloadSome(w)
  BY <1>2, <1>4 DEF DownloadSome, At, Working, PCs, engine, CompletionMarks, StaysComplete
<1>5. CASE RemoveOriginal(w) \/ Exit(w) \/ Discard(w)
  <2>1. worker[w].pc # "persist" /\ UNCHANGED <<client, deleting, item>>
    BY <1>5 DEF RemoveOriginal, Exit, Discard, At, engine
  <2> QED BY <1>1, <1>5, <2>1, <1>a, Landing DEF RemoveOriginal, Exit, Discard
<1>6. CASE Complete(w)
  <2>1. worker[w].pc # "persist" /\ item[i].state # "complete" /\ client' = client
    BY <1>2, <1>6 DEF Complete, At, Working, PCs
  <2>2. CASE Stopped(i)
    BY <1>1, <1>6, <2>1, <2>2, <1>a, Landing DEF Complete, i
  <2>3. CASE ~Stopped(i)
    <3>1. Goto(w, "persist") /\ deleting' = Mark({i}) BY <1>6, <2>3 DEF Complete, i
    <3>2. worker'[w].pc = "persist" BY <1>1, <3>1, Landing DEF Lands
    <3> QED BY <2>1, <3>1, <3>2 DEF CompletionMarks, StaysComplete, i
  <2> QED BY <2>2, <2>3
<1>7. CASE PersistComplete(w) \/ RollBackComplete(w)
  <2>1. worker[w].pc = "persist" /\ deleting' = Unmark({i}) /\ client' = client
    BY <1>7 DEF PersistComplete, RollBackComplete, At, i
  <2>2. worker'[w].pc \in {"remove", "settle"}
    BY <1>1, <1>7, Landing DEF PersistComplete, RollBackComplete, Lands
  <2> QED BY <2>1, <2>2 DEF CompletionMarks, StaysComplete, i
<1>8. CASE Release(w)
  <2>1. worker'[w].pc = "idle" /\ worker[w].pc # "persist" /\ UNCHANGED <<client, deleting, item>>
    BY <1>1, <1>8 DEF Release, Put, IdleWorker, At
  <2> QED BY <2>1 DEF CompletionMarks, StaysComplete
<1> QED BY <1>3, <1>4, <1>5, <1>6, <1>7, <1>8 DEF Transfer

LEMMA MarksTransfer ==
  ASSUME TypedInv, Control, Marks, NEW w \in Workers, Transfer(w)
  PROVE  Marks'
<1> DEFINE r == worker[w].row
<1>1. /\ r \in Items /\ runs[r] = w /\ w # None /\ OneWriter
      /\ runs \in [Items -> Workers \cup {None}]
  BY TransferServes, NoneAssumption DEF TypedInv, WorkersOK, EngineOK, Control, OneWriter
<1>2. client' = client /\ CompletionMarks(w) BY TransferMarks
<1>3. TouchesOwnRow(w) /\ (Continues(w) \/ Leaves(w)) BY TransferEffect
<1>4. \A i \in Items \ {r} : runs'[i] = runs[i] /\ (runs[i] # None => worker'[runs[i]] = worker[runs[i]])
  <2>1. \A i \in Items \ {r} : runs[i] # w BY <1>1 DEF OneWriter
  <2> QED BY <1>1, <1>3, <2>1 DEF TouchesOwnRow, Continues, Leaves
<1>5. \A i \in Items \ {r} : Persisting(i)' <=> Persisting(i)
  BY <1>4 DEF Persisting
<1>6. /\ worker[w].pc = "persist" <=> (runs[r] # None /\ worker[runs[r]].pc = "persist")
      /\ worker'[w].pc = "persist" <=> (runs'[r] # None /\ worker'[runs'[r]].pc = "persist")
  BY <1>1, <1>3 DEF Continues, Leaves
<1>7. \A i \in Items : Holders(i)' = Holders(i) BY <1>2 DEF Holders
<1>8. \A i \in Items : deleting[i] \in Nat /\ Cardinality(Holders(i)) \in Nat
  BY HoldersCounted DEF TypedInv, EngineOK
<1> HIDE DEF r
<1>9. ASSUME NEW i \in Items
      PROVE  deleting'[i] = Cardinality(Holders(i)) + (IF Persisting(i)' THEN 1 ELSE 0)
  <2>1. deleting[i] = Cardinality(Holders(i)) + (IF Persisting(i) THEN 1 ELSE 0)
    BY DEF Marks
  <2>2. CASE i # r
    <3>1. deleting'[i] = deleting[i]
      BY <1>2, <2>2 DEF CompletionMarks, Mark, Unmark, r
    <3> QED BY <2>1, <2>2, <3>1, <1>5
  <2>3. CASE i = r
    <3>1. CASE deleting' = deleting /\ worker[w].pc # "persist" /\ worker'[w].pc # "persist"
      BY <2>1, <2>3, <3>1, <1>6 DEF Persisting
    <3>2. CASE deleting' = Mark({r}) /\ worker[w].pc # "persist" /\ worker'[w].pc = "persist"
      BY <2>1, <2>3, <3>2, <1>6, <1>8 DEF Mark, Persisting
    <3>3. CASE deleting' = Unmark({r}) /\ worker[w].pc = "persist" /\ worker'[w].pc # "persist"
      BY <2>1, <2>3, <3>3, <1>6, <1>8 DEF Unmark, Persisting
    <3> QED BY <1>2, <3>1, <3>2, <3>3 DEF CompletionMarks, r
  <2> QED BY <2>2, <2>3
<1> QED BY <1>7, <1>9 DEF Marks

LEMMA HeldTransfer ==
  ASSUME TypedInv, Control, HeldInv, NEW w \in Workers, Transfer(w)
  PROVE  HeldInv'
<1> DEFINE r == worker[w].row
<1>1. /\ r \in Items /\ runs[r] = w /\ w # None /\ OneWriter
      /\ runs \in [Items -> Workers \cup {None}]
  BY TransferServes, NoneAssumption DEF TypedInv, WorkersOK, EngineOK, Control, OneWriter
<1>2. client' = client /\ StaysComplete(w) BY TransferMarks
<1>3. TouchesOwnRow(w) /\ (Continues(w) \/ Leaves(w)) BY TransferEffect
<1>4. ASSUME NEW c \in Clients, NEW i \in Sole(client[c]) PROVE Quiet(client[c].op, i)'
  <2>1. Quiet(client[c].op, i) /\ i \in Items
    BY SoleIsHeld DEF HeldInv, TypedInv, CallsOK, ClientType
  <2>2. queue' \subseteq queue BY <1>3 DEF TouchesOwnRow
  <2>3. CASE i # r
    <3>1. runs[i] # w BY <1>1, <2>1, <2>3 DEF OneWriter
    <3>2. runs'[i] = runs[i] /\ (runs[i] # None => worker'[runs[i]] = worker[runs[i]])
      BY <1>1, <1>3, <2>1, <2>3, <3>1 DEF TouchesOwnRow, Continues, Leaves
    <3>3. item'[i].state = item[i].state BY <1>3, <2>1, <2>3 DEF TouchesOwnRow
    <3>4. Persisting(i)' => Persisting(i) BY <3>2 DEF Persisting
    <3>5. Quiet(client[c].op, i)' BY <1>2, <2>1, <2>2, <3>2, <3>3, <3>4 DEF Quiet
    <3> QED BY <3>5
  <2>4. CASE i = r
    <3>1. client[c].op \notin {"cancel", "retry"} /\ (client[c].op = "deleteStaged" => i \notin queue)
      BY <1>1, <2>1, <2>4 DEF Quiet
    <3>2. client[c].op = "cleanup" => item[r].state = "complete" /\ worker[w].pc # "persist"
      BY <1>1, <2>1, <2>4 DEF Quiet, Persisting
    <3>3. client[c].op = "cleanup" => item'[r].state = "complete" /\ worker'[w].pc # "persist"
      BY <1>2, <3>2 DEF StaysComplete
    <3>4. runs'[r] \in {w, None} BY <1>1, <1>3 DEF Continues, Leaves
    <3> QED BY <1>1, <1>2, <2>2, <2>4, <3>1, <3>3, <3>4 DEF Quiet, Persisting
  <2> QED BY <2>3, <2>4
<1> QED BY <1>2, <1>4 DEF HeldInv, Shaped, Sole

LEMMA CallsDispatch ==
  ASSUME TypedInv, Control, CallsInv, NEW w \in Workers, NEW k \in Items, Dispatch(w, k)
  PROVE  CallsInv'
<1>1. /\ worker \in [Workers -> WorkerType] /\ item \in [Items -> ItemType]
      /\ runs \in [Items -> Workers \cup {None}] /\ OneWriter /\ w # None
  BY NoneAssumption DEF TypedInv, WorkersOK, RowsOK, EngineOK, Control
<1>2. /\ client' = client /\ deleting' = deleting /\ queue' = queue
      /\ runs' = [runs EXCEPT ![k] = w] /\ runs[k] = None /\ deleting[k] = 0
      /\ worker[w].pc = "idle" /\ worker'[w].pc = "watch"
      /\ \A x \in Workers \ {w} : worker'[x] = worker[x]
      /\ \A i \in Items \ {k} : item'[i] = item[i]
  BY <1>1 DEF Dispatch, Claimable, Put, IdleWorker
<1>3. \A i \in Items : runs[i] # w BY <1>1, <1>2 DEF OneWriter, Serving
<1>4. \A i \in Items \ {k} : runs'[i] = runs[i] /\ (Persisting(i)' <=> Persisting(i))
  BY <1>1, <1>2, <1>3 DEF Persisting
<1>5. ~Persisting(k) /\ ~Persisting(k)'
  BY <1>1, <1>2 DEF Persisting
<1>6. \A i \in Items : Holders(i)' = Holders(i) BY <1>2 DEF Holders
<1>7. Marks' BY <1>2, <1>4, <1>5, <1>6 DEF CallsInv, Marks
<1>8. HeldInv'
  <2>1. ASSUME NEW c \in Clients, NEW i \in Sole(client[c]) PROVE Quiet(client[c].op, i)'
    <3>1. i \in client[c].held /\ i \in Items
      BY SoleIsHeld DEF CallsInv, TypedInv, CallsOK, ClientType
    <3>2. i # k BY <1>2, <3>1, UnmarkedIsFree DEF CallsInv
    <3>3. Quiet(client[c].op, i) BY DEF CallsInv, HeldInv
    <3>4. Quiet(client[c].op, i)' BY <1>2, <1>4, <3>1, <3>2, <3>3 DEF Quiet
    <3> QED BY <3>4
  <2> QED BY <1>2, <2>1 DEF CallsInv, HeldInv, Shaped, Sole
<1> QED BY <1>7, <1>8 DEF CallsInv

----------------------------------------------------------------------------
(* The calls begin. *)

\* A client that is in no call holds nothing.
LEMMA IdleHoldsNothing ==
  ASSUME HeldInv, NEW c \in Clients, client[c].op = "none" PROVE client[c].held = {}
BY DEF HeldInv, Shaped

\* A call that marks S when nobody else has it, and leaves the rows others marked
\* alone in what Quiet tells of them.
LEMMA CallBegins ==
  ASSUME TypedInv, CallsInv, UNCHANGED <<runs, worker, queue>>, NEW c \in Clients,
         client[c].op = "none", NEW op, NEW S \in SUBSET Items, NEW T \in SUBSET S,
         Begin(c, op, T, S), deleting' = Mark(S),
         op \in {"cancel", "retry", "deleteStaged", "cleanup"},
         op # "cancel" => T = S,
         \A i \in T : Quiet(op, i)' /\ deleting[i] = 0,
         \A i \in S \ T : /\ runs[i] # None /\ i \in queue /\ item[i].state # "complete",
         \A i \in Items : \/ item'[i].state = item[i].state
                          \/ deleting[i] = 0
                          \/ i \in S \ T
  PROVE  CallsInv'
<1> DEFINE r == [op |-> op, cur |-> None, todo |-> T, held |-> S]
<1>1. /\ client' = [client EXCEPT ![c] = r] /\ HeldInv /\ Marks
      /\ client[c].held = {}
  BY IdleHoldsNothing DEF Begin, CallsInv
<1>2. r.held = S /\ r.todo = T /\ r.op = op /\ r.cur = None OBVIOUS
<1> HIDE DEF r
<1>3. Marks' BY <1>1, <1>2, MarksGain
<1>4. Shaped(r) BY <1>2 DEF Shaped
<1>5. Sole(r) = T BY <1>2 DEF Sole
<1>6. ASSUME NEW d \in Clients, NEW i \in Sole(client[d]) PROVE i \notin S
  <2>1. i \in client[d].held /\ i \in Items /\ Quiet(client[d].op, i)
    BY <1>1, SoleIsHeld DEF HeldInv, TypedInv, CallsOK, ClientType
  <2>2. deleting[i] # 0 BY <1>1, <2>1, UnmarkedIsFree
  <2>3. SUFFICES ASSUME i \in S \ T PROVE FALSE BY <2>2
  <2>4. runs[i] # None /\ i \in queue /\ item[i].state # "complete" BY <2>3
  <2>5. client[d].op \in {"none", "clear", "prune", "sweep"}
    BY <2>1, <2>4 DEF Quiet, TypedInv, CallsOK, ClientType, Calls
  <2> QED BY <1>1, <2>1, <2>5 DEF HeldInv, Shaped
<1>7. ASSUME NEW d \in Clients \ {c}, NEW i \in Sole(client[d])
      PROVE  Quiet(client[d].op, i)' /\ i \notin S
  <2>1. i \in client[d].held /\ i \in Items /\ Quiet(client[d].op, i)
    BY <1>1, SoleIsHeld DEF HeldInv, TypedInv, CallsOK, ClientType
  <2>2. deleting[i] # 0 BY <1>1, <2>1, UnmarkedIsFree
  <2>3. i \notin S BY <1>6
  <2>4. item'[i].state = item[i].state BY <2>1, <2>2, <2>3
  <2>5. client'[d].op = client[d].op BY <1>1 DEF TypedInv, CallsOK
  <2>6. Persisting(i)' <=> Persisting(i) BY DEF Persisting
  <2>7. Quiet(client[d].op, i)' BY <2>1, <2>4, <2>5, <2>6 DEF Quiet
  <2> QED BY <2>3, <2>7
<1>8. ASSUME NEW i \in T PROVE Quiet(r.op, i)' /\ \A d \in Clients \ {c} : i \notin client[d].held
  <2>1. \A d \in Clients : i \notin client[d].held BY <1>1, UnmarkedIsFree
  <2>2. Quiet(op, i)' OBVIOUS
  <2>3. Quiet(r.op, i)' BY <1>2, <2>2 DEF Quiet, Persisting
  <2> QED BY <2>1, <2>3
<1>9. HeldInv' BY <1>1, <1>2, <1>4, <1>5, <1>7, <1>8, HeldMove
<1> QED BY <1>3, <1>9 DEF CallsInv

\* A call that marks nothing.
LEMMA CallPasses ==
  ASSUME TypedInv, CallsInv, UNCHANGED <<runs, worker, deleting>>, queue' \subseteq queue,
         NEW c \in Clients, NEW r, client' = [client EXCEPT ![c] = r], Shaped(r),
         r.held = client[c].held, Sole(r) \subseteq Sole(client[c]), r.op = client[c].op \/ r.held = {},
         \A i \in Items : item'[i].state = item[i].state
  PROVE  CallsInv'
<1>1. HeldInv /\ Marks BY DEF CallsInv
<1>2. Marks' BY <1>1, MarksStay
<1>3. \A i \in Items : Persisting(i)' <=> Persisting(i) BY DEF Persisting
<1>4. ASSUME NEW d \in Clients, NEW i \in Sole(client[d]), NEW op, op = client[d].op
      PROVE  Quiet(op, i)' /\ \A e \in Clients : i \in client[e].held => e = d
  <2>1. i \in Items /\ Quiet(client[d].op, i)
    BY <1>1, SoleIsHeld DEF HeldInv, TypedInv, CallsOK, ClientType
  <2>2. Quiet(op, i)' BY <1>3, <1>4, <2>1 DEF Quiet
  <2> QED BY <1>1, <2>2 DEF HeldInv
<1>5. client'[c] = r /\ \A d \in Clients \ {c} : client'[d] = client[d]
  BY DEF TypedInv, CallsOK
<1>6. \A d \in Clients \ {c} : \A i \in Sole(client[d]) : Quiet(client[d].op, i)' /\ i \notin r.held
  <2>1. ASSUME NEW d \in Clients \ {c}, NEW i \in Sole(client[d])
        PROVE  Quiet(client[d].op, i)' /\ i \notin r.held
    <3>1. /\ Quiet(client'[d].op, i) => Quiet(client'[d].op, i)
          /\ i \notin r.held
      BY <1>4
    <3>2. PICK op : op = client[d].op OBVIOUS
    <3>3. Quiet(op, i)' BY <1>4, <3>2
    <3>4. client'[d].op = op BY <1>5, <3>2
    <3>5. Quiet(client[d].op, i)' BY <3>3, <3>4 DEF Quiet, Persisting
    <3> QED BY <3>1, <3>5
  <2> QED BY <2>1
<1>7. \A i \in Sole(r) : Quiet(r.op, i)' /\ \A d \in Clients \ {c} : i \notin client[d].held
  <2>1. ASSUME NEW i \in Sole(r) PROVE Quiet(r.op, i)' /\ \A d \in Clients \ {c} : i \notin client[d].held
    <3>1. i \in Sole(client[c]) /\ i \in r.held BY <1>1, SoleIsHeld
    <3>2. r.op = client[c].op BY <3>1
    <3>3. Quiet(r.op, i)' BY <1>4, <3>1, <3>2
    <3> QED BY <1>4, <3>1, <3>3
  <2> QED BY <2>1
<1>8. HeldInv' BY <1>1, <1>6, <1>7, HeldMove
<1> QED BY <1>2, <1>8 DEF CallsInv

LEMMA CallsCancel ==
  ASSUME TypedInv, Control, CallsInv, NEW c \in Clients, NEW ids \in SUBSET Items, Cancel(c, ids)
  PROVE  CallsInv'
<1> DEFINE hit == {i \in ids \cap queue : /\ item[i].state # "complete"
                                          /\ runs[i] = None => deleting[i] = 0}
           live == {i \in hit : runs[i] # None}
<1>1. /\ client[c].op = "none" /\ deleting' = Mark(hit) /\ Begin(c, "cancel", hit \ live, hit)
      /\ item' = [i \in Items |->
                    IF i \in hit THEN [item[i] EXCEPT !.state = "cancelled", !.stage = "idle"]
                                 ELSE item[i]]
      /\ UNCHANGED <<runs, worker, queue>>
  BY DEF Cancel
<1>2. hit \in SUBSET Items /\ hit \ live \in SUBSET hit OBVIOUS
<1>3. \A i \in hit \ live : runs[i] = None /\ deleting[i] = 0 OBVIOUS
<1>4. \A i \in hit \ (hit \ live) : runs[i] # None /\ i \in queue /\ item[i].state # "complete"
  OBVIOUS
<1> HIDE DEF hit, live
<1>5. \A i \in Items : item'[i].state = IF i \in hit THEN "cancelled" ELSE item[i].state
  BY <1>1 DEF TypedInv, RowsOK, ItemType
<1>6. \A i \in hit \ live : Quiet("cancel", i)'
  BY <1>1, <1>2, <1>3, <1>5 DEF Quiet
<1>7. \A i \in Items : \/ item'[i].state = item[i].state \/ deleting[i] = 0
                       \/ i \in hit \ (hit \ live)
  BY <1>3, <1>5
<1> QED BY <1>1, <1>2, <1>3, <1>4, <1>6, <1>7, CallBegins

LEMMA CallsRetry ==
  ASSUME TypedInv, Control, CallsInv, NEW c \in Clients, NEW ids \in SUBSET Items, Retry(c, ids)
  PROVE  CallsInv'
<1> DEFINE hit == {i \in ids \cap queue : /\ item[i].state \notin {"running", "complete"}
                                          /\ Free(i)}
           stale == {i \in hit : item[i].job # None}
<1>1. /\ client[c].op = "none" /\ deleting' = Mark(stale) /\ Begin(c, "retry", stale, stale)
      /\ item' = [i \in Items |-> IF i \in hit \ stale THEN ResetForRetry(item[i]) ELSE item[i]]
      /\ UNCHANGED <<runs, worker, queue>>
  BY DEF Retry
<1>2. /\ stale \in SUBSET Items /\ stale \in SUBSET stale
      /\ \A i \in hit : /\ i \in queue /\ i \in Items /\ item[i].state \notin {"running", "complete"}
                        /\ runs[i] = None /\ deleting[i] = 0
      /\ stale \subseteq hit
  BY DEF Free
<1> HIDE DEF hit, stale
<1>3. \A i \in stale : item[i].state \in {"pending", "failed", "cancelled"}
  BY <1>2 DEF TypedInv, RowsOK, ItemType, States, Control, RowFollowsWorker
<1>4. \A i \in stale : item'[i] = item[i] /\ runs'[i] = None
  BY <1>1, <1>2
<1>5. \A i \in stale : Quiet("retry", i)' BY <1>3, <1>4 DEF Quiet
<1>6. \A i \in Items : item'[i].state = item[i].state \/ deleting[i] = 0
  BY <1>1, <1>2
<1>7. \A i \in stale : deleting[i] = 0 BY <1>2
<1> QED BY <1>1, <1>2, <1>5, <1>6, <1>7, CallBegins

LEMMA CallsDeleteStaged ==
  ASSUME TypedInv, Control, CallsInv, NEW c \in Clients, NEW ids \in SUBSET Items,
         DeleteStaged(c, ids)
  PROVE  CallsInv'
<1> DEFINE hit == {i \in ids : /\ item[i].state # "new"
                               /\ i \in queue => item[i].state # "running" /\ runs[i] = None
                               /\ deleting[i] = 0}
<1>1. /\ client[c].op = "none" /\ deleting' = Mark(hit) /\ Begin(c, "deleteStaged", hit, hit)
      /\ UNCHANGED <<runs, worker, queue, item>>
  BY DEF DeleteStaged
<1>2. /\ hit \in SUBSET Items /\ hit \in SUBSET hit
      /\ \A i \in hit : deleting[i] = 0 /\ (i \in queue => runs[i] = None)
  OBVIOUS
<1> HIDE DEF hit
<1>3. \A i \in hit : Quiet("deleteStaged", i)' BY <1>1, <1>2 DEF Quiet
<1>4. \A i \in Items : item'[i].state = item[i].state BY <1>1
<1> QED BY <1>1, <1>2, <1>3, <1>4, CallBegins

LEMMA CallsCleanup ==
  ASSUME TypedInv, Control, CallsInv, NEW c \in Clients, Cleanup(c)
  PROVE  CallsInv'
<1> DEFINE hit == {i \in queue \cap toDelete : item[i].state = "complete" /\ deleting[i] = 0}
<1>1. /\ client[c].op = "none" /\ deleting' = Mark(hit) /\ Begin(c, "cleanup", hit, hit)
      /\ UNCHANGED <<runs, worker, queue, item>>
  BY DEF Cleanup
<1>2. /\ hit \in SUBSET Items /\ hit \in SUBSET hit
      /\ \A i \in hit : deleting[i] = 0 /\ item[i].state = "complete"
  BY DEF TypedInv, EngineOK
<1> HIDE DEF hit
<1>3. \A i \in hit : ~Persisting(i) BY <1>2, HoldersCounted DEF CallsInv
<1>4. \A i \in hit : ~Persisting(i)' BY <1>1, <1>3 DEF Persisting
<1>5. \A i \in hit : Quiet("cleanup", i)' BY <1>1, <1>2, <1>4 DEF Quiet
<1>6. \A i \in Items : item'[i].state = item[i].state BY <1>1
<1> QED BY <1>1, <1>2, <1>5, <1>6, CallBegins

LEMMA CallsCall ==
  ASSUME TypedInv, Control, CallsInv, NEW c \in Clients, Call(c)
  PROVE  CallsInv'
<1>1. ASSUME NEW op \in {"clear", "prune"}, NEW todo, Begin(c, op, todo, {}),
             client[c].op = "none", queue' \subseteq queue,
             UNCHANGED <<runs, worker, deleting, item>>
      PROVE  CallsInv'
  <2> DEFINE r == [op |-> op, cur |-> None, todo |-> todo, held |-> {}]
  <2>1. client' = [client EXCEPT ![c] = r] /\ client[c].held = {}
    BY <1>1, IdleHoldsNothing DEF Begin, CallsInv
  <2>2. Shaped(r) /\ r.held = {} /\ Sole(r) = {} BY <1>1 DEF Shaped, Sole
  <2> HIDE DEF r
  <2>3. \A i \in Items : item'[i].state = item[i].state BY <1>1
  <2> QED BY <1>1, <2>1, <2>2, <2>3, CallPasses
<1>2. ASSUME NEW ids \in SUBSET Items, ClearFinished(c, ids) PROVE CallsInv'
  BY <1>1, <1>2 DEF ClearFinished
<1>3. CASE Prune(c) BY <1>1, <1>3 DEF Prune, engine
<1> QED BY <1>2, <1>3, CallsCancel, CallsRetry, CallsDeleteStaged, CallsCleanup DEF Call

----------------------------------------------------------------------------
(* The calls go on. *)

\* One row is done with and unmarked; nothing else of the record changes.
LEMMA CallFinishes ==
  ASSUME TypedInv, CallsInv, UNCHANGED <<runs, worker, queue>>, NEW c \in Clients, NEW i \in Items,
         Finish(c, i), i \in client[c].held,
         client[c].op = "cancel" \/ client[c].op = "retry",
         \A k \in Items : item'[k].state = item[k].state \/ (k = i /\ i \in Sole(client[c]))
  PROVE  CallsInv'
<1> DEFINE k == client[c]
<1>0. PICK r : r = [k EXCEPT !.cur = None, !.todo = k.todo \ {i}, !.held = k.held \ {i}]
  OBVIOUS
<1>1. /\ client' = [client EXCEPT ![c] = r] /\ deleting' = Unmark({i}) /\ HeldInv /\ Marks
      /\ k \in ClientType
  BY <1>0 DEF Finish, CallsInv, TypedInv, CallsOK
<1>2. r.op = k.op /\ r.cur = None /\ r.todo = k.todo \ {i} /\ r.held = k.held \ {i}
  BY <1>0, <1>1 DEF ClientType
<1>3. Shaped(k) /\ i \in k.held BY <1>1 DEF HeldInv
<1>4. k.op = "cancel" \/ k.op = "retry" OBVIOUS
<1>5. Marks' BY <1>1, <1>2, <1>3, MarksLose
<1>6. Shaped(r) /\ Sole(r) = Sole(k) \ {i} BY <1>2, <1>3, <1>4 DEF Shaped, Sole
<1>7. \A j \in Items : Persisting(j)' <=> Persisting(j) BY DEF Persisting
<1>8. ASSUME NEW d \in Clients, NEW j \in Sole(client[d]), d = c => j # i, NEW op, op = client[d].op
      PROVE  Quiet(op, j)' /\ \A e \in Clients : j \in client[e].held => e = d
  <2>1. j \in Items /\ j \in client[d].held /\ Quiet(client[d].op, j)
    BY <1>1, SoleIsHeld DEF HeldInv, TypedInv, CallsOK, ClientType
  <2>2. item'[j].state = item[j].state
    <3>1. SUFFICES ASSUME j = i /\ i \in Sole(k) PROVE FALSE BY <2>1
    <3>2. d = c BY <1>1, <2>1, <3>1 DEF HeldInv
    <3> QED BY <1>8, <3>1, <3>2
  <2>3. Quiet(op, j)' BY <1>7, <1>8, <2>1, <2>2 DEF Quiet
  <2> QED BY <1>1, <2>3 DEF HeldInv
<1>9. \A d \in Clients \ {c} : client'[d].op = client[d].op
  BY <1>1 DEF TypedInv, CallsOK
<1>10. ASSUME NEW d \in Clients \ {c}, NEW j \in Sole(client[d])
       PROVE  Quiet(client[d].op, j)' /\ j \notin r.held
  <2>1. PICK op : op = client[d].op OBVIOUS
  <2>2. Quiet(op, j)' /\ j \notin k.held BY <1>8, <2>1
  <2>3. client'[d].op = op BY <1>9, <2>1
  <2>4. Quiet(client[d].op, j)' BY <2>2, <2>3 DEF Quiet, Persisting
  <2> QED BY <1>2, <2>2, <2>4
<1>11. ASSUME NEW j \in Sole(r)
       PROVE  Quiet(r.op, j)' /\ \A d \in Clients \ {c} : j \notin client[d].held
  <2>1. j \in Sole(client[c]) /\ j # i /\ r.op = client[c].op BY <1>2, <1>6, <1>11
  <2>2. Quiet(r.op, j)' BY <1>8, <2>1
  <2>3. \A e \in Clients : j \in client[e].held => e = c BY <1>8, <2>1
  <2> QED BY <2>2, <2>3
<1>12. HeldInv' BY <1>1, <1>6, <1>10, <1>11, HeldMove
<1> QED BY <1>5, <1>12 DEF CallsInv

LEMMA CallsReturns ==
  ASSUME TypedInv, CallsInv, NEW c \in Clients, Return(c)
  PROVE  CallsInv'
<1>1. /\ client' = [client EXCEPT ![c] = IdleClient] /\ deleting' = Unmark(client[c].held)
      /\ UNCHANGED <<item, queue, runs, worker>> /\ HeldInv /\ Marks
  BY DEF Return, CallsInv
<1>2. Shaped(IdleClient) /\ IdleClient.held = {} /\ Sole(IdleClient) = {}
  BY DEF IdleClient, Shaped, Sole
<1>3. Marks'
  <2>1. IdleClient.held = client[c].held \ client[c].held BY <1>2
  <2> QED BY <1>1, <2>1, MarksLose
<1>4. ASSUME NEW d \in Clients \ {c}, NEW i \in Sole(client[d]) PROVE Quiet(client[d].op, i)'
  <2>1. Quiet(client[d].op, i) BY <1>1 DEF HeldInv
  <2>2. client'[d].op = client[d].op BY <1>1 DEF TypedInv, CallsOK
  <2> QED BY <1>1, <2>1, <2>2 DEF Quiet, Persisting
<1>5. HeldInv' BY <1>1, <1>2, <1>4, HeldMove
<1> QED BY <1>3, <1>5 DEF CallsInv

LEMMA CallsServe ==
  ASSUME TypedInv, Control, CallsInv, NEW c \in Clients, Serve(c)
  PROVE  CallsInv'
<1> DEFINE k == client[c]
<1>1. k \in ClientType /\ Shaped(k) /\ HeldInv /\ Marks
  BY DEF CallsInv, HeldInv, TypedInv, CallsOK
<1>2. CASE CancelReap(c)
  <2>1. /\ k.op = "cancel" /\ k.cur # None /\ Finish(c, k.cur)
        /\ UNCHANGED <<runs, worker, queue>>
    BY <1>2 DEF CancelReap
  <2>2. k.cur \in k.held /\ k.cur \in Items BY <1>1, <2>1 DEF Shaped, ClientType
  <2>3. \A j \in Items : item'[j].state = item[j].state
    BY <1>2 DEF CancelReap, TypedInv, RowsOK, ItemType
  <2> QED BY <2>1, <2>2, <2>3, CallFinishes
<1>3. CASE \E i \in Items : RetryStale(c, i)
  <2>1. PICK i \in Items : RetryStale(c, i) BY <1>3
  <2>2. /\ k.op = "retry" /\ i \in k.todo /\ Finish(c, i) /\ UNCHANGED <<runs, worker, queue>>
    BY <2>1 DEF RetryStale
  <2>3. i \in k.held /\ i \in Sole(k) BY <1>1, <2>2 DEF Shaped, Sole
  <2>4. \A j \in Items \ {i} : item'[j].state = item[j].state
    BY <2>1 DEF RetryStale, TypedInv, RowsOK
  <2> QED BY <2>2, <2>3, <2>4, CallFinishes
<1>4. CASE ListDirs(c)
  <2> DEFINE todo == {i \in k.todo : staged[i] # "none"}
             r == [op |-> "sweep", cur |-> None, todo |-> todo, held |-> {}]
  <2>1. /\ k.op = "prune" /\ client' = [client EXCEPT ![c] = r]
        /\ UNCHANGED <<item, queue, runs, worker, deleting>>
    BY <1>4 DEF ListDirs, Begin, engine
  <2>2. Shaped(r) /\ r.held = {} /\ Sole(r) = {} BY DEF Shaped, Sole
  <2>3. r.held = k.held BY <1>1, <2>1, <2>2 DEF Shaped
  <2> HIDE DEF r
  <2>4. \A j \in Items : item'[j].state = item[j].state BY <2>1
  <2> QED BY <2>1, <2>2, <2>3, <2>4, CallPasses
<1>5. CASE Return(c) BY <1>5, CallsReturns
<1>6. ASSUME NEW v, NEW i \in Items, k.op = "cancel", v \in k.held,
             client' = [client EXCEPT ![c].cur = v],
             UNCHANGED <<item, queue, runs, worker, deleting>>
      PROVE  CallsInv'
  <2> DEFINE r == [k EXCEPT !.cur = v]
  <2>1. r.op = k.op /\ r.cur = v /\ r.todo = k.todo /\ r.held = k.held
    BY <1>1 DEF ClientType
  <2>2. client' = [client EXCEPT ![c] = r] BY <1>6
  <2> HIDE DEF r
  <2>3. Shaped(r) /\ Sole(r) = Sole(k) BY <1>1, <1>6, <2>1 DEF Shaped, Sole
  <2>4. \A j \in Items : item'[j].state = item[j].state BY <1>6
  <2> QED BY <1>6, <2>1, <2>2, <2>3, <2>4, CallPasses
<1>7. ASSUME NEW i \in Items, k.op \in {"deleteStaged", "clear", "sweep", "cleanup"},
             client' = [client EXCEPT ![c].todo = @ \ {i}],
             UNCHANGED <<item, queue, runs, worker, deleting>>
      PROVE  CallsInv'
  <2> DEFINE r == [k EXCEPT !.todo = k.todo \ {i}]
  <2>1. r.op = k.op /\ r.cur = k.cur /\ r.todo = k.todo \ {i} /\ r.held = k.held
    BY <1>1 DEF ClientType
  <2>2. client' = [client EXCEPT ![c] = r] BY <1>7
  <2> HIDE DEF r
  <2>3. Shaped(r) /\ Sole(r) = Sole(k) BY <1>1, <1>7, <2>1 DEF Shaped, Sole
  <2>4. \A j \in Items : item'[j].state = item[j].state BY <1>7
  <2> QED BY <1>7, <2>1, <2>2, <2>3, <2>4, CallPasses
<1>8. ASSUME NEW i \in Items, CancelDiscard(c, i) PROVE CallsInv'
  <2>1. i \in k.held BY <1>1, <1>8 DEF CancelDiscard, Shaped
  <2> QED BY <2>1, <1>6, <1>8 DEF CancelDiscard, engine
<1>9. ASSUME NEW i \in Items, CancelInterrupt(c, i) PROVE CallsInv'
  BY <1>6, <1>9 DEF CancelInterrupt
<1>10. ASSUME NEW i \in Items, RemoveDir(c, i) PROVE CallsInv'
  BY <1>7, <1>10 DEF RemoveDir, engine
<1>11. ASSUME NEW i \in Items, CleanupOne(c, i) PROVE CallsInv'
  BY <1>7, <1>11 DEF CleanupOne, engine
<1> QED BY <1>2, <1>3, <1>4, <1>5, <1>8, <1>9, <1>10, <1>11 DEF Serve

----------------------------------------------------------------------------
\* A scan appends a row nobody holds.
LEMMA CallsEnqueue ==
  ASSUME TypedInv, Control, CallsInv, NEW k \in Items, Enqueue(k)
  PROVE  CallsInv'
<1>1. /\ item[k].state = "new" /\ queue' = queue \cup {k}
      /\ UNCHANGED <<runs, deleting, worker, client>>
      /\ \A i \in Items \ {k} : item'[i] = item[i]
  BY DEF Enqueue, TypedInv, RowsOK
<1>2. runs[k] = None
  BY <1>1 DEF TypedInv, EngineOK, Control, OneWriter, RowFollowsWorker, Fits
<1>3. \A i \in Items : Holders(i)' = Holders(i) /\ (Persisting(i)' <=> Persisting(i))
  BY <1>1 DEF Holders, Persisting
<1>4. Marks' BY <1>1, <1>3 DEF CallsInv, Marks
<1>5. ASSUME NEW c \in Clients, NEW i \in Sole(client[c]) PROVE Quiet(client[c].op, i)'
  <2>1. Quiet(client[c].op, i) /\ i \in Items
    BY SoleIsHeld DEF CallsInv, HeldInv, TypedInv, CallsOK, ClientType
  <2>2. CASE i = k BY <1>1, <1>2, <2>1, <2>2 DEF Quiet
  <2>3. CASE i # k BY <1>1, <1>3, <2>1, <2>3 DEF Quiet
  <2> QED BY <2>2, <2>3
<1>6. HeldInv' BY <1>1, <1>5 DEF CallsInv, HeldInv, Shaped, Sole
<1> QED BY <1>4, <1>6 DEF CallsInv

LEMMA CallsRest ==
  ASSUME TypedInv, CallsInv,
         \/ \E i \in Items : ApplySettings(i)
         \/ Shutdown \/ StopScheduler \/ UNCHANGED vars
  PROVE  CallsInv'
<1>1. /\ UNCHANGED <<item, runs, deleting, worker, client>> /\ queue' \subseteq queue
  BY DEF ApplySettings, Shutdown, StopScheduler, vars, engine
<1>2. \A i \in Items : Holders(i)' = Holders(i) /\ (Persisting(i)' <=> Persisting(i))
  BY <1>1 DEF Holders, Persisting
<1>3. Marks' BY <1>1, <1>2 DEF CallsInv, Marks
<1>4. ASSUME NEW c \in Clients, NEW i \in Sole(client[c]) PROVE Quiet(client[c].op, i)'
  <2>1. Quiet(client[c].op, i) BY DEF CallsInv, HeldInv
  <2> QED BY <1>1, <2>1 DEF Quiet, Persisting
<1>5. HeldInv' BY <1>1, <1>4 DEF CallsInv, HeldInv, Shaped, Sole
<1> QED BY <1>3, <1>5 DEF CallsInv

LEMMA CallsStep == TypedInv /\ Control /\ CallsInv /\ [Next]_vars => CallsInv'
<1> SUFFICES ASSUME TypedInv, Control, CallsInv, [Next]_vars PROVE CallsInv'
  OBVIOUS
<1>1. ASSUME NEW w \in Workers, Transfer(w) PROVE CallsInv'
  BY <1>1, MarksTransfer, HeldTransfer DEF CallsInv
<1> QED BY <1>1, CallsDispatch, CallsCall, CallsServe, CallsEnqueue, CallsRest DEF Next

LEMMA CallsInit == Init => CallsInv
<1> SUFFICES ASSUME Init PROVE CallsInv OBVIOUS
<1>1. /\ \A c \in Clients : client[c] = IdleClient
      /\ \A i \in Items : runs[i] = None /\ deleting[i] = 0
  BY DEF Init
<1>2. \A c \in Clients : Shaped(client[c]) /\ Sole(client[c]) = {} /\ client[c].held = {}
  BY <1>1 DEF IdleClient, Shaped, Sole
<1>3. \A i \in Items : Holders(i) = {} /\ ~Persisting(i) BY <1>1, <1>2 DEF Holders, Persisting
<1>4. Marks BY <1>1, <1>3, FS_EmptySet DEF Marks
<1> QED BY <1>2, <1>4 DEF CallsInv, HeldInv

LEMMA CallsInvariant == Spec => [](TypedInv /\ Control /\ CallsInv)
<1>1. Init => TypedInv /\ Control /\ CallsInv BY TypedInit, ControlInit, CallsInit
<1>2. TypedInv /\ Control /\ CallsInv /\ [Next]_vars => (TypedInv /\ Control /\ CallsInv)'
  BY TypedStep, ControlStep, CallsStep
<1> QED BY <1>1, <1>2, PTL DEF Spec

\* Engine.deleting of a row is the number of calls and completions that hold it,
\* for any number of either: no mark is leaked, none is lost early.
THEOREM MarksAreCounted == Spec => []DeletingCountsHolders
<1>1. TypedInv /\ Control /\ CallsInv => DeletingCountsHolders
  <2> SUFFICES ASSUME TypedInv, Control, CallsInv, NEW i \in Items
               PROVE  deleting[i] = Cardinality(Holders(i)) + Cardinality(CompletingOn(i))
    BY DEF DeletingCountsHolders
  <2>1. /\ deleting[i] = Cardinality(Holders(i)) + (IF Persisting(i) THEN 1 ELSE 0)
        /\ OneWriter /\ runs[i] \in Workers \cup {None}
    BY DEF CallsInv, Marks, Control, TypedInv, EngineOK
  <2>2. CASE Persisting(i)
    <3>1. CompletingOn(i) = {runs[i]}
      BY <2>1, <2>2 DEF Persisting, CompletingOn, OneWriter, Serving
    <3> QED BY <2>1, <2>2, <3>1, FS_Singleton
  <2>3. CASE ~Persisting(i)
    <3>1. CompletingOn(i) = {}
      BY <2>1, <2>3, NoneAssumption DEF Persisting, CompletingOn, OneWriter, Serving
    <3>2. Cardinality(Holders(i)) \in Nat BY HoldersCounted DEF CallsInv
    <3> QED BY <2>1, <2>3, <3>1, <3>2, FS_EmptySet
  <2> QED BY <2>2, <2>3
<1> QED BY <1>1, CallsInvariant, PTL

\* While a call erases, aborts or resets a row it found idle, no goroutine is
\* started on it.
THEOREM CleanupIsExclusive == Spec => []CleanupExcludesWorker
<1>1. TypedInv /\ Control /\ CallsInv => CleanupExcludesWorker
  BY DEF CallsInv, HeldInv, Sole, Quiet, CleanupExcludesWorker, IdleHeld
<1> QED BY <1>1, CallsInvariant, PTL

----------------------------------------------------------------------------
(* Every row follows the lifecycle of RowLifecycle. *)

LEMMA LifecycleStutters ==
  ASSUME \A i \in Items : item'[i].state = item[i].state, UNCHANGED runs
  PROVE  UNCHANGED <<RowState, Busy>>
BY DEF RowState, Busy

\* One row becomes s, the others stay: the shape of most steps of the lifecycle.
LEMMA BecomeOne ==
  ASSUME NEW i \in Items, NEW s, item'[i].state = s,
         \A k \in Items \ {i} : item'[k].state = item[k].state
  PROVE  Lifecycle!Become({i}, s)
BY DEF Lifecycle!Become, RowState

LEMMA BecomeMany ==
  ASSUME NEW S, NEW s,
         \A k \in Items : item'[k].state = IF k \in S THEN s ELSE item[k].state
  PROVE  Lifecycle!Become(S, s)
BY DEF Lifecycle!Become, RowState

LEMMA LifecycleTransfer ==
  ASSUME TypedInv, Control, NEW w \in Workers, Transfer(w)
  PROVE  [Lifecycle!Next]_<<RowState, Busy>>
<1> DEFINE i == worker[w].row
<1>1. i \in Items /\ runs[i] = w /\ w # None
  BY TransferServes, NoneAssumption DEF TypedInv, WorkersOK, Control, OneWriter
<1>2. TouchesOwnRow(w) /\ (Continues(w) \/ Leaves(w)) BY TransferEffect
<1>3. \A k \in Items \ {i} : item'[k].state = item[k].state
  BY <1>2 DEF TouchesOwnRow
<1>4. i \in Busy /\ RowState[i] = item[i].state BY <1>1 DEF Busy, RowState
<1>5. CASE Continues(w)
  <2>1. UNCHANGED Busy BY <1>5 DEF Continues, Busy
  <2>2. CASE item'[i].state = item[i].state
    BY <1>3, <1>5, <2>2, LifecycleStutters DEF Continues
  <2>3. CASE item[i].state = "running" /\ item'[i].state \in {"pending", "failed", "complete"}
    <3>1. Lifecycle!Become({i}, item'[i].state) BY <1>1, <1>3, BecomeOne
    <3>2. Lifecycle!EndAttempt(i) BY <1>4, <2>1, <2>3, <3>1 DEF Lifecycle!EndAttempt
    <3> QED BY <1>1, <3>2 DEF Lifecycle!Next
  <2>4. CASE item[i].state = "complete" /\ item'[i].state = "running"
    <3>1. Lifecycle!Become({i}, "running") BY <1>1, <1>3, <2>4, BecomeOne
    <3>2. Lifecycle!RollBack(i) BY <1>4, <2>1, <2>4, <3>1 DEF Lifecycle!RollBack
    <3> QED BY <1>1, <3>2 DEF Lifecycle!Next
  <2> QED BY <1>5, <2>2, <2>3, <2>4 DEF Continues
<1>6. CASE Leaves(w)
  <2>1. runs' = [runs EXCEPT ![i] = None] /\ item' = item /\ item[i].state # "running"
    BY <1>6 DEF Leaves
  <2>2. Busy' = Busy \ {i}
    BY <1>1, <2>1 DEF Busy, TypedInv, EngineOK
  <2>3. UNCHANGED RowState BY <2>1 DEF RowState
  <2>4. Lifecycle!Leave(i) BY <1>4, <2>1, <2>2, <2>3 DEF Lifecycle!Leave
  <2> QED BY <1>1, <2>4 DEF Lifecycle!Next
<1> QED BY <1>2, <1>5, <1>6

LEMMA LifecycleDispatch ==
  ASSUME TypedInv, NEW w \in Workers, NEW i \in Items, Dispatch(w, i)
  PROVE  Lifecycle!Next
<1>1. item \in [Items -> ItemType] /\ runs \in [Items -> Workers \cup {None}] /\ w # None
  BY NoneAssumption DEF TypedInv, RowsOK, EngineOK
<1>2. /\ item[i].state = "pending" /\ runs[i] = None /\ runs' = [runs EXCEPT ![i] = w]
      /\ item'[i].state = "running"
      /\ \A k \in Items \ {i} : item'[k].state = item[k].state
  BY <1>1 DEF Dispatch, Claimable, ItemType
<1>3. Lifecycle!Become({i}, "running") BY <1>2, BecomeOne
<1>4. Busy' = Busy \cup {i} BY <1>1, <1>2 DEF Busy
<1>5. i \notin Busy /\ RowState[i] = "pending" BY <1>2 DEF Busy, RowState
<1> QED BY <1>3, <1>4, <1>5 DEF Lifecycle!Next, Lifecycle!Claim

LEMMA LifecycleCalls ==
  ASSUME TypedInv, Control, CallsInv, NEW c \in Clients, Call(c) \/ Serve(c)
  PROVE  [Lifecycle!Next]_<<RowState, Busy>>
<1>1. /\ item \in [Items -> ItemType] /\ queue \subseteq Items
      /\ \A i \in queue : item[i].state # "new"
  BY DEF TypedInv, RowsOK, EngineOK, Control, RowFollowsWorker
<1>2. UNCHANGED runs
  BY DEF Call, Cancel, Retry, DeleteStaged, ClearFinished, Prune, Cleanup, Serve, CancelReap,
         ListDirs, Return, CancelDiscard, CancelInterrupt, RetryStale, RemoveDir, CleanupOne,
         engine
<1>3. UNCHANGED Busy BY <1>2 DEF Busy
<1>4. \A S \in SUBSET Items : Lifecycle!Cancel(S) \/ Lifecycle!Reopen(S) => Lifecycle!Next
  BY DEF Lifecycle!Next
<1>5. ASSUME NEW ids \in SUBSET Items, Cancel(c, ids) PROVE Lifecycle!Next
  <2>1. PICK hit \in SUBSET Items :
          /\ \A i \in hit : i \in queue /\ item[i].state # "complete"
          /\ item' = [i \in Items |->
                        IF i \in hit THEN [item[i] EXCEPT !.state = "cancelled",
                                                          !.stage = "idle"]
                                     ELSE item[i]]
    <3>1. {i \in ids \cap queue : /\ item[i].state # "complete"
                                  /\ runs[i] = None => deleting[i] = 0} \in SUBSET Items
      OBVIOUS
    <3> QED BY <1>5, <3>1 DEF Cancel
  <2>2. \A k \in Items : item'[k].state = IF k \in hit THEN "cancelled" ELSE item[k].state
    BY <1>1, <2>1 DEF ItemType
  <2>3. Lifecycle!Become(hit, "cancelled") BY <2>2, BecomeMany
  <2>4. \A i \in hit : RowState[i] \notin {"new", "complete"} BY <1>1, <2>1 DEF RowState
  <2> QED BY <1>3, <1>4, <2>3, <2>4 DEF Lifecycle!Cancel
<1>6. ASSUME NEW S \in SUBSET Items,
             \A k \in Items : item'[k].state = IF k \in S THEN "pending" ELSE item[k].state,
             \A i \in S : /\ item[i].state \in {"pending", "failed", "cancelled"}
                          /\ runs[i] = None
      PROVE  Lifecycle!Next
  <2>1. Lifecycle!Become(S, "pending") BY <1>6, BecomeMany
  <2>2. \A i \in S : RowState[i] \in {"pending", "failed", "cancelled"} /\ i \notin Busy
    BY <1>6 DEF RowState, Busy
  <2> QED BY <1>3, <1>4, <2>1, <2>2 DEF Lifecycle!Reopen
<1>7. ASSUME NEW ids \in SUBSET Items, Retry(c, ids) PROVE Lifecycle!Next
  <2>1. PICK S \in SUBSET Items :
          /\ \A i \in S : /\ i \in queue /\ item[i].state \notin {"running", "complete"}
                          /\ runs[i] = None
          /\ item' = [i \in Items |-> IF i \in S THEN ResetForRetry(item[i]) ELSE item[i]]
    <3> DEFINE hit == {i \in ids \cap queue : /\ item[i].state \notin {"running", "complete"}
                                              /\ Free(i)}
               S == hit \ {i \in hit : item[i].job # None}
    <3>1. S \in SUBSET Items OBVIOUS
    <3> QED BY <1>7, <3>1 DEF Retry, Free
  <2>2. \A k \in Items : item'[k].state = IF k \in S THEN "pending" ELSE item[k].state
    BY <1>1, <2>1 DEF ResetForRetry, ItemType
  <2>3. \A i \in S : item[i].state \in {"pending", "failed", "cancelled"}
    BY <1>1, <2>1 DEF ItemType, States
  <2> QED BY <1>6, <2>1, <2>2, <2>3
<1>8. ASSUME UNCHANGED item PROVE UNCHANGED <<RowState, Busy>>
  BY <1>2, <1>8, LifecycleStutters
<1>9. CASE CancelReap(c)
  <2>1. \A k \in Items : item'[k].state = item[k].state
    BY <1>1, <1>9 DEF CancelReap, ItemType
  <2> QED BY <1>2, <2>1, LifecycleStutters
<1>10. CASE \/ Prune(c) \/ Cleanup(c) \/ ListDirs(c) \/ Return(c)
            \/ \E ids \in SUBSET Items : DeleteStaged(c, ids) \/ ClearFinished(c, ids)
            \/ \E k \in Items : \/ CancelDiscard(c, k) \/ CancelInterrupt(c, k)
                                \/ RemoveDir(c, k) \/ CleanupOne(c, k)
  BY <1>8, <1>10 DEF Prune, Cleanup, ListDirs, Return, DeleteStaged, ClearFinished,
     CancelDiscard, CancelInterrupt, RemoveDir, CleanupOne, engine
<1>11. ASSUME NEW i \in Items, RetryStale(c, i)
       PROVE  [Lifecycle!Next]_<<RowState, Busy>>
  <2>1. i \in Sole(client[c]) /\ client[c].op = "retry"
    BY <1>11 DEF RetryStale, Sole, CallsInv, HeldInv, Shaped
  <2>2. runs[i] = None /\ item[i].state \in {"pending", "failed", "cancelled"}
    BY <2>1 DEF CallsInv, HeldInv, Quiet
  <2>3. CASE UNCHANGED item BY <1>8, <2>3
  <2>4. CASE item' = [item EXCEPT ![i] = ResetForRetry(item[i])]
    <3>1. \A k \in Items : item'[k].state = IF k \in {i} THEN "pending" ELSE item[k].state
      BY <1>1, <2>4 DEF ResetForRetry, ItemType
    <3> QED BY <1>6, <2>2, <3>1
  <2> QED BY <1>11, <2>2, <2>3, <2>4 DEF RetryStale
<1> QED BY <1>5, <1>7, <1>9, <1>10, <1>11 DEF Call, Serve

LEMMA LifecycleStep ==
  ASSUME TypedInv, Control, CallsInv, [Next]_vars
  PROVE  [Lifecycle!Next]_<<RowState, Busy>>
<1>1. ASSUME NEW i \in Items, Enqueue(i) PROVE Lifecycle!Next
  <2>1. PICK s \in {"pending", "failed"} : item' = [item EXCEPT ![i].state = s]
    BY <1>1 DEF Enqueue
  <2>2. item'[i].state = s /\ \A k \in Items \ {i} : item'[k].state = item[k].state
    BY <2>1 DEF TypedInv, RowsOK, ItemType
  <2>3. Lifecycle!Become({i}, s) BY <2>2, BecomeOne
  <2>4. RowState[i] = "new" /\ UNCHANGED Busy BY <1>1 DEF Enqueue, RowState, Busy
  <2> QED BY <2>3, <2>4 DEF Lifecycle!Next, Lifecycle!Appear
<1>2. CASE \/ \E i \in Items : ApplySettings(i)
           \/ Shutdown \/ StopScheduler \/ UNCHANGED vars
  BY <1>2 DEF ApplySettings, Shutdown, StopScheduler, vars, engine, RowState, Busy
<1> QED BY <1>1, <1>2, LifecycleTransfer, LifecycleDispatch, LifecycleCalls DEF Next

LEMMA LifecycleInit == Init => Lifecycle!Init
  BY SubsetAssumption DEF Init, Loaded, Row, Lifecycle!Init, RowState, Busy

\* Whatever goroutines, callers, settings and shutdown do to it, every row goes
\* through the states of RowLifecycle and no others: one goroutine claims it, only
\* a running row gets an outcome, only a free one is reopened.
THEOREM RowsFollowLifecycle == Spec => ImplementsLifecycle
<1>1. Init => Lifecycle!Init BY LifecycleInit
<1>2. TypedInv /\ Control /\ CallsInv /\ [Next]_vars => [Lifecycle!Next]_<<RowState, Busy>>
  BY LifecycleStep
<1>3. [Lifecycle!Next]_<<RowState, Busy>> => [Lifecycle!Next]_(Lifecycle!vars)
  BY DEF Lifecycle!vars
<1>4. Spec => Lifecycle!Init /\ [][Lifecycle!Next]_(Lifecycle!vars)
  BY <1>1, <1>2, <1>3, CallsInvariant, PTL DEF Spec
<1> QED BY <1>4 DEF ImplementsLifecycle, Lifecycle!Spec

----------------------------------------------------------------------------
(* The cloud original outlives the delivery. *)

\* What a call may make of the state of a row: it cancels or reopens rows that
\* are not complete.
LEMMA CallStates ==
  ASSUME TypedInv, Control, CallsInv, NEW c \in Clients, Call(c) \/ Serve(c), NEW i \in Items
  PROVE  /\ UNCHANGED <<runs, worker, delivered>>
         /\ \/ item'[i].state = item[i].state
            \/ item[i].state # "complete" /\ item'[i].state \in {"cancelled", "pending"}
<1>1. item \in [Items -> ItemType] BY DEF TypedInv, RowsOK
<1>2. UNCHANGED <<runs, worker, delivered>>
  BY DEF Call, Cancel, Retry, DeleteStaged, ClearFinished, Prune, Cleanup, Serve, CancelReap,
         ListDirs, Return, CancelDiscard, CancelInterrupt, RetryStale, RemoveDir, CleanupOne,
         engine, outside
<1>3. ASSUME UNCHANGED item PROVE item'[i].state = item[i].state BY <1>3
<1>4. ASSUME NEW ids \in SUBSET Items, Cancel(c, ids)
      PROVE  \/ item'[i].state = item[i].state
             \/ item[i].state # "complete" /\ item'[i].state = "cancelled"
  BY <1>1, <1>4 DEF Cancel, ItemType
<1>5. ASSUME NEW ids \in SUBSET Items, Retry(c, ids)
      PROVE  \/ item'[i].state = item[i].state
             \/ item[i].state # "complete" /\ item'[i].state = "pending"
  <2>1. ResetForRetry(item[i]).state = "pending" BY <1>1 DEF ResetForRetry, ItemType
  <2> QED BY <1>5, <2>1 DEF Retry
<1>6. ASSUME NEW k \in Items, RetryStale(c, k)
      PROVE  \/ item'[i].state = item[i].state
             \/ item[i].state # "complete" /\ item'[i].state = "pending"
  <2>1. k \in Sole(client[c]) /\ client[c].op = "retry"
    BY <1>6 DEF RetryStale, Sole, CallsInv, HeldInv, Shaped
  <2>2. runs[k] = None /\ item[k].state # "complete"
    BY <2>1 DEF CallsInv, HeldInv, Quiet
  <2>3. ResetForRetry(item[k]).state = "pending" BY <1>1 DEF ResetForRetry, ItemType
  <2>4. UNCHANGED item \/ item' = [item EXCEPT ![k] = ResetForRetry(item[k])]
    BY <1>6, <2>2 DEF RetryStale
  <2> QED BY <1>1, <2>2, <2>3, <2>4
<1>7. CASE CancelReap(c)
  BY <1>1, <1>2, <1>7 DEF CancelReap, ItemType
<1>8. CASE \/ Prune(c) \/ Cleanup(c) \/ ListDirs(c) \/ Return(c)
           \/ \E ids \in SUBSET Items : DeleteStaged(c, ids) \/ ClearFinished(c, ids)
           \/ \E k \in Items : \/ CancelDiscard(c, k) \/ CancelInterrupt(c, k)
                               \/ RemoveDir(c, k) \/ CleanupOne(c, k)
  BY <1>2, <1>3, <1>8 DEF Prune, Cleanup, ListDirs, Return, DeleteStaged, ClearFinished,
     CancelDiscard, CancelInterrupt, RemoveDir, CleanupOne, engine
<1> QED BY <1>2, <1>4, <1>5, <1>6, <1>7, <1>8 DEF Call, Serve

\* From the commit at the host to the end of a completed attempt.
Delivering == {"committed", "check", "finishing", "complete", "persist", "remove"}

\* A goroutine is past the commit, and a row complete, only once the host has the
\* file; a row that lost its original is complete and stays so.
DeliveredInv ==
  /\ \A w \in Workers : worker[w].pc \in Delivering => worker[w].row \in delivered
  /\ \A i \in Items : item[i].state = "complete" => i \in delivered
  /\ \A i \in Items \ original : item[i].state = "complete" /\ ~Persisting(i)

LEMMA TransferDelivers ==
  ASSUME TypedInv, Control, NEW w \in Workers, Transfer(w)
  PROVE  /\ delivered \subseteq delivered'
         /\ worker'[w].pc \in Delivering =>
              worker[w].pc \in Delivering \/ worker[w].row \in delivered'
         /\ item'[worker[w].row].state = "complete" =>
              item[worker[w].row].state = "complete" \/ worker[w].pc = "complete"
         /\ \/ UNCHANGED original
            \/ RemoveOriginal(w) /\ original' = original \ {worker[w].row}
<1> DEFINE i == worker[w].row
<1>1. /\ WorkersOK /\ i \in Items /\ worker \in [Workers -> WorkerType]
      /\ item \in [Items -> ItemType]
  BY TransferServes DEF TypedInv, WorkersOK, RowsOK
<1> DEFINE Goal == /\ delivered \subseteq delivered'
                   /\ worker'[w].pc \in Delivering =>
                        worker[w].pc \in Delivering \/ i \in delivered'
                   /\ item'[i].state = "complete" =>
                        item[i].state = "complete" \/ worker[w].pc = "complete"
                   /\ \/ UNCHANGED original
                      \/ RemoveOriginal(w) /\ original' = original \ {i}
<1>a. ASSUME NEW p, p \notin Delivering \/ worker[w].pc \in Delivering \/ i \in delivered',
             worker'[w].pc = p, UNCHANGED original, delivered \subseteq delivered',
             item'[i].state = item[i].state \/ worker[w].pc = "complete"
             \/ item'[i].state # "complete"
      PROVE  Goal
  BY <1>a
<1> HIDE DEF Goal, i
<1>2. CASE \/ Watch(w) \/ DownloadFails(w) \/ AcquireSlot(w) \/ CheckCancelled(w) \/ Failed(w)
           \/ Exit(w) \/ Discard(w)
  <2>1. UNCHANGED <<item, delivered, original>>
    BY <1>2 DEF Watch, DownloadFails, AcquireSlot, CheckCancelled, Failed, Exit, Discard, engine,
       outside
  <2>2. ASSUME Watch(w) \/ DownloadFails(w) \/ AcquireSlot(w) PROVE Goal
    BY <1>1, <1>a, <2>1, <2>2, LandsAt DEF Watch, DownloadFails, AcquireSlot, Delivering
  <2>3. ASSUME CheckCancelled(w) PROVE Goal
    BY <1>1, <1>a, <2>1, <2>3, LandsAt DEF CheckCancelled, At, Delivering
  <2>4. ASSUME Failed(w) PROVE Goal
    BY <1>1, <1>a, <2>1, <2>4, LandsAt DEF Failed, Delivering
  <2>5. ASSUME Exit(w) \/ Discard(w) PROVE Goal
    BY <1>1, <1>a, <2>1, <2>5, LandsAt DEF Exit, Discard, Delivering
  <2>6. Goal BY <1>2, <2>2, <2>3, <2>4, <2>5
  <2> QED BY <2>6 DEF Goal, i
<1>3. CASE StageEnter(w) \/ DownloadDone(w) \/ Finishing(w)
  <2>1. UNCHANGED <<delivered, original>>
    BY <1>3 DEF StageEnter, DownloadDone, Finishing, outside
  <2>2. item'[i].state = item[i].state
    BY <1>1, <1>3 DEF StageEnter, DownloadDone, Finishing, SetStage, ItemType, i
  <2>3. Goal
    BY <1>1, <1>3, <1>a, <2>1, <2>2, LandsAt DEF StageEnter, DownloadDone, Finishing, At, Delivering
  <2> QED BY <2>3 DEF Goal, i
<1>4. CASE DownloadSome(w)
  BY <1>4 DEF DownloadSome, At, Delivering, engine
<1>5. CASE BeginUpload(w) \/ AbortOwn(w) \/ ForgetJob(w)
  <2>1. UNCHANGED <<delivered, original>>
    BY <1>5 DEF BeginUpload, AbortOwn, ForgetJob, outside
  <2>2. item'[i].state = item[i].state
    <3>1. ASSUME NEW t, NEW j
          PROVE  /\ [item[i] EXCEPT !.stage = t].state = item[i].state
                 /\ [item[i] EXCEPT !.job = j].state = item[i].state
                 /\ [item[i] EXCEPT !.stage = t, !.job = j].state = item[i].state
      BY <1>1 DEF ItemType
    <3>2. ASSUME NEW r, r.state = item[i].state, item' = [item EXCEPT ![i] = r]
          PROVE  item'[i].state = item[i].state
      BY <1>1, <3>2
    <3>3. CASE BeginUpload(w)
      <4>1. \/ \E j \in Jobs :
                item' = [item EXCEPT ![i] = [item[i] EXCEPT !.stage = "uploading", !.job = j]]
            \/ \E t : SetStage(i, t)
        BY <3>3 DEF BeginUpload, i
      <4>2. ASSUME NEW t, SetStage(i, t) PROVE item'[i].state = item[i].state
        BY <1>1, <4>2 DEF SetStage, ItemType
      <4>3. ASSUME NEW j, item' = [item EXCEPT ![i] = [item[i] EXCEPT !.stage = "uploading", !.job = j]]
            PROVE  item'[i].state = item[i].state
        <5> DEFINE r == [item[i] EXCEPT !.stage = "uploading", !.job = j]
        <5>1. r.state = item[i].state BY <3>1
        <5>2. item' = [item EXCEPT ![i] = r] BY <4>3
        <5> HIDE DEF r
        <5> QED BY <5>1, <5>2, <3>2
      <4> QED BY <4>1, <4>2, <4>3
    <3>4. CASE AbortOwn(w) \/ ForgetJob(w)
      <4>1. \/ UNCHANGED item
            \/ \E j \in {None, item[i].job} : item' = [item EXCEPT ![i].job = j]
        BY <3>4 DEF AbortOwn, ForgetJob, i
      <4>2. ASSUME NEW j, item' = [item EXCEPT ![i].job = j] PROVE item'[i].state = item[i].state
        BY <1>1, <4>2 DEF ItemType
      <4> QED BY <4>1, <4>2
    <3> QED BY <1>5, <3>3, <3>4
  <2>3. ASSUME BeginUpload(w) PROVE Goal
    <3>1. worker'[w].pc = "push" \/ worker'[w].pc = "failed"
      <4>1. ASSUME NEW j, Put(w, [worker[w] EXCEPT !.pc = "push", !.job = j])
            PROVE  worker'[w].pc = "push"
        BY <1>1, <4>1, LandsAt
      <4>2. ASSUME FailWith(w, "retry") PROVE worker'[w].pc = "failed"
        BY <1>1, <4>2, LandsAt
      <4> QED BY <2>3, <4>1, <4>2 DEF BeginUpload
    <3> QED BY <2>1, <2>2, <3>1, <1>a DEF Delivering
  <2>4. ASSUME AbortOwn(w) \/ ForgetJob(w) PROVE Goal
    <3>1. (AbortOwn(w) /\ worker'[w].pc = "failed") \/ (ForgetJob(w) /\ worker'[w].pc = "check")
      BY <1>1, <2>4, LandsAt DEF AbortOwn, ForgetJob
    <3> QED BY <2>1, <2>2, <3>1, <1>a DEF ForgetJob, At, Delivering
  <2>5. Goal BY <1>5, <2>3, <2>4
  <2> QED BY <2>5 DEF Goal, i
<1>6. CASE Push(w)
  <2>1. UNCHANGED <<item, original>> /\ delivered \subseteq delivered'
    BY <1>6 DEF Push, engine
  <2>2. Goal
    BY <1>1, <1>6, <1>a, <2>1, LandsAt DEF Push, Delivering, i
  <2> QED BY <2>2 DEF Goal, i
<1>7. CASE Complete(w)
  <2>1. worker[w].pc = "complete" /\ UNCHANGED <<delivered, original>>
    BY <1>7 DEF Complete, At, outside
  <2> QED BY <2>1 DEF Delivering
<1>8. CASE PersistComplete(w) \/ RemoveOriginal(w)
  <2>1. worker[w].pc \in Delivering /\ UNCHANGED <<delivered, item>>
    BY <1>8 DEF PersistComplete, RemoveOriginal, At, Delivering, engine
  <2>2. (UNCHANGED original) \/ (RemoveOriginal(w) /\ original' = original \ {worker[w].row})
    BY <1>8 DEF PersistComplete, RemoveOriginal
  <2> QED BY <2>1, <2>2
<1>9. CASE RollBackComplete(w)
  <2>1. worker[w].pc \in Delivering /\ UNCHANGED <<delivered, original>>
    BY <1>9 DEF RollBackComplete, At, Delivering, outside
  <2>2. item'[worker[w].row].state = "running"
    BY <1>1, <1>9 DEF RollBackComplete, ItemType, i
  <2> QED BY <2>1, <2>2
<1>10. CASE Settle(w)
  <2>1. UNCHANGED <<delivered, original>> BY <1>10 DEF Settle
  <2>2. item'[i].state = item[i].state \/ item'[i].state \in {"pending", "failed"}
    <3>1. Settled(w, item[i]).state \in {"pending", "failed"}
      BY <1>1 DEF Settled, Requeued, ItemType, i
    <3> QED BY <1>1, <1>10, <3>1 DEF Settle, i
  <2>3. Goal BY <1>1, <1>10, <1>a, <2>1, <2>2, LandsAt DEF Settle, Delivering
  <2> QED BY <2>3 DEF Goal, i
<1>11. CASE Release(w)
  <2>1. worker'[w].pc = "idle" /\ UNCHANGED <<delivered, original, item>>
    BY <1>1, <1>11 DEF Release, Put, IdleWorker, outside
  <2> QED BY <2>1 DEF Delivering
<1> QED BY <1>2, <1>3, <1>4, <1>5, <1>6, <1>7, <1>8, <1>9, <1>10, <1>11 DEF Transfer

LEMMA DeliveredTransfer ==
  ASSUME TypedInv, Control, DeliveredInv, NEW w \in Workers, Transfer(w)
  PROVE  DeliveredInv'
<1> DEFINE r == worker[w].row
<1>1. /\ r \in Items /\ runs[r] = w /\ w # None /\ OneWriter /\ Fits(w) /\ Serving(w)
      /\ runs \in [Items -> Workers \cup {None}]
  BY TransferServes, NoneAssumption
  DEF TypedInv, WorkersOK, EngineOK, Control, OneWriter, RowFollowsWorker
<1>2. StaysComplete(w) BY TransferMarks
<1>3. TouchesOwnRow(w) /\ (Continues(w) \/ Leaves(w)) BY TransferEffect
<1>4. /\ delivered \subseteq delivered'
      /\ worker'[w].pc \in Delivering => worker[w].pc \in Delivering \/ r \in delivered'
      /\ item'[r].state = "complete" => item[r].state = "complete" \/ worker[w].pc = "complete"
      /\ (UNCHANGED original) \/ (RemoveOriginal(w) /\ original' = original \ {r})
  BY TransferDelivers
<1> HIDE DEF r
<1>5. ASSUME NEW x \in Workers, worker'[x].pc \in Delivering PROVE worker'[x].row \in delivered'
  <2>1. CASE x # w
    <3>1. worker'[x] = worker[x] BY <1>3, <2>1 DEF TouchesOwnRow
    <3> QED BY <1>4, <1>5, <3>1 DEF DeliveredInv
  <2>2. CASE x = w
    <3>1. worker'[w].row = r
      BY <1>3, <1>5, <2>2 DEF Continues, Leaves, Delivering, r
    <3>2. worker[w].pc \in Delivering => r \in delivered BY DEF DeliveredInv, r
    <3> QED BY <1>4, <1>5, <2>2, <3>1, <3>2
  <2> QED BY <2>1, <2>2
<1>6. ASSUME NEW i \in Items, item'[i].state = "complete" PROVE i \in delivered'
  <2>1. CASE i # r
    <3>1. item'[i] = item[i] BY <1>3, <2>1 DEF TouchesOwnRow, r
    <3> QED BY <1>4, <1>6, <3>1 DEF DeliveredInv
  <2>2. CASE i = r
    BY <1>1, <1>4, <1>6, <2>2 DEF DeliveredInv, Delivering, r
  <2> QED BY <2>1, <2>2
<1>7. ASSUME NEW i \in Items \ original' PROVE item'[i].state = "complete" /\ ~Persisting(i)'
  <2>1. CASE i # r
    <3>1. item'[i] = item[i] /\ i \notin original BY <1>3, <1>4, <2>1 DEF TouchesOwnRow, r
    <3>2. runs[i] # w BY <1>1, <2>1 DEF OneWriter, r
    <3>3. runs'[i] = runs[i] /\ (runs[i] # None => worker'[runs[i]] = worker[runs[i]])
      BY <1>1, <1>3, <2>1, <3>2 DEF TouchesOwnRow, Continues, Leaves, r
    <3> QED BY <3>1, <3>3 DEF DeliveredInv, Persisting
  <2>2. CASE i = r
    <3>1. item[r].state = "complete" /\ worker[w].pc # "persist"
      <4>1. CASE r \notin original
        BY <1>1, <4>1 DEF DeliveredInv, Persisting
      <4>2. CASE RemoveOriginal(w)
        BY <1>1, <4>2 DEF RemoveOriginal, At, Fits, r
      <4> QED BY <1>4, <1>7, <2>2, <4>1, <4>2
    <3>2. item'[r].state = "complete" /\ worker'[w].pc # "persist"
      BY <1>2, <3>1 DEF StaysComplete, r
    <3>3. runs'[r] \in {w, None} BY <1>1, <1>3 DEF Continues, Leaves, r
    <3> QED BY <2>2, <3>2, <3>3 DEF Persisting
  <2> QED BY <2>1, <2>2
<1> QED BY <1>5, <1>6, <1>7 DEF DeliveredInv

LEMMA DeliveredStep ==
  TypedInv /\ Control /\ CallsInv /\ DeliveredInv /\ [Next]_vars => DeliveredInv'
<1> SUFFICES ASSUME TypedInv, Control, CallsInv, DeliveredInv, [Next]_vars PROVE DeliveredInv'
  OBVIOUS
<1>a. ASSUME UNCHANGED <<runs, worker, delivered>>,
             \A i \in Items : \/ item'[i].state = item[i].state
                              \/ item[i].state # "complete" /\ item'[i].state # "complete",
             \A i \in Items \ original' : i \in original =>
               item[i].state = "complete" /\ ~Persisting(i)
      PROVE  DeliveredInv'
  <2>1. \A i \in Items : item'[i].state = "complete" <=> item[i].state = "complete"
    BY <1>a
  <2>2. \A i \in Items : Persisting(i)' <=> Persisting(i) BY <1>a DEF Persisting
  <2>3. \A i \in Items \ original' : item[i].state = "complete" /\ ~Persisting(i)
    BY <1>a DEF DeliveredInv
  <2> QED BY <1>a, <2>1, <2>2, <2>3 DEF DeliveredInv
<1>1. ASSUME NEW c \in Clients, Call(c) \/ Serve(c) PROVE DeliveredInv'
  <2>1. \A i \in Items : /\ UNCHANGED <<runs, worker, delivered>>
                         /\ \/ item'[i].state = item[i].state
                            \/ /\ item[i].state # "complete"
                               /\ item'[i].state \in {"cancelled", "pending"}
    BY <1>1, CallStates
  <2>2. UNCHANGED <<runs, worker, delivered>>
    BY <1>1 DEF Call, Cancel, Retry, DeleteStaged, ClearFinished, Prune, Cleanup, Serve, CancelReap,
       ListDirs, Return, CancelDiscard, CancelInterrupt, RetryStale, RemoveDir, CleanupOne,
       engine, outside
  <2>3. CASE UNCHANGED original
    BY <1>a, <2>1, <2>2, <2>3
  <2>4. CASE \E i \in Items : CleanupOne(c, i)
    <3>1. PICK i \in Items : CleanupOne(c, i) BY <2>4
    <3>2. /\ client[c].op = "cleanup" /\ i \in client[c].todo
          /\ original \ {i} \subseteq original'
      BY <3>1 DEF CleanupOne
    <3>3. i \in Sole(client[c]) BY <3>2 DEF CallsInv, HeldInv, Shaped, Sole
    <3>4. item[i].state = "complete" /\ ~Persisting(i)
      BY <3>2, <3>3 DEF CallsInv, HeldInv, Quiet
    <3>5. \A k \in Items \ original' : k \in original => k = i BY <3>2
    <3> QED BY <1>a, <2>1, <2>2, <3>4, <3>5
  <2>5. UNCHANGED original \/ \E i \in Items : CleanupOne(c, i)
    BY <1>1 DEF Call, Cancel, Retry, DeleteStaged, ClearFinished, Prune, Cleanup, Serve, CancelReap,
       ListDirs, Return, CancelDiscard, CancelInterrupt, RetryStale, RemoveDir, outside
  <2> QED BY <2>3, <2>4, <2>5
<1>2. ASSUME NEW w \in Workers, NEW k \in Items, Dispatch(w, k) PROVE DeliveredInv'
  <2>1. /\ worker \in [Workers -> WorkerType] /\ item \in [Items -> ItemType]
        /\ runs \in [Items -> Workers \cup {None}] /\ OneWriter /\ w # None
    BY NoneAssumption DEF TypedInv, WorkersOK, RowsOK, EngineOK, Control
  <2>2. /\ UNCHANGED <<delivered, original>>
        /\ runs' = [runs EXCEPT ![k] = w] /\ item[k].state = "pending"
        /\ item'[k].state = "running" /\ worker[w].pc = "idle" /\ worker'[w].pc = "watch"
        /\ \A x \in Workers \ {w} : worker'[x] = worker[x]
        /\ \A i \in Items \ {k} : item'[i] = item[i]
    BY <1>2, <2>1 DEF Dispatch, Claimable, Put, IdleWorker, outside, ItemType
  <2>3. \A i \in Items : runs[i] # w BY <2>1, <2>2 DEF OneWriter, Serving
  <2>4. \A i \in Items \ {k} : Persisting(i)' <=> Persisting(i)
    BY <2>1, <2>2, <2>3 DEF Persisting
  <2>5. k \in original BY <2>2 DEF DeliveredInv
  <2>6. \A x \in Workers : worker'[x].pc \in Delivering => worker'[x].row \in delivered'
    BY <2>2 DEF DeliveredInv, Delivering
  <2> QED BY <2>2, <2>4, <2>5, <2>6 DEF DeliveredInv
<1>3. ASSUME NEW k \in Items, Enqueue(k) PROVE DeliveredInv'
  <2>1. /\ UNCHANGED <<runs, worker, delivered, original>> /\ item[k].state = "new"
        /\ \A i \in Items \ {k} : item'[i] = item[i]
        /\ item'[k].state \in {"pending", "failed"}
    BY <1>3 DEF Enqueue, outside, TypedInv, RowsOK, ItemType
  <2> QED BY <1>a, <2>1
<1>4. CASE \/ \E i \in Items : ApplySettings(i)
           \/ Shutdown \/ StopScheduler \/ UNCHANGED vars
  BY <1>a, <1>4 DEF ApplySettings, Shutdown, StopScheduler, vars, engine, outside
<1> QED BY <1>1, <1>2, <1>3, <1>4, DeliveredTransfer DEF Next

LEMMA DeliveredInit == Init => DeliveredInv
  BY DEF Init, Loaded, Row, DeliveredInv, IdleWorker, Delivering

\* No interleaving of completions, roll-backs and cleanups removes the original of
\* a file that is not delivered and complete.
THEOREM OriginalIsKept == Spec => []OriginalOutlivesDelivery
<1>1. Init => DeliveredInv BY DeliveredInit
<1>2. TypedInv /\ Control /\ CallsInv /\ DeliveredInv /\ [Next]_vars => DeliveredInv'
  BY DeliveredStep
<1>3. DeliveredInv => OriginalOutlivesDelivery
  BY DEF DeliveredInv, OriginalOutlivesDelivery
<1> QED BY <1>1, <1>2, <1>3, CallsInvariant, PTL DEF Spec

----------------------------------------------------------------------------
(* Upload jobs at the host.                                                  *)

\* Between BeginUpload's answer and the end of the job a goroutine knows its id.
HoldsJob == {"push", "abort", "committed"}

\* The id the goroutine knows is the one its row names ...
WorkJob(w) == IF worker[w].pc \in HoldsJob
              THEN worker[w].job \in Jobs /\ item[worker[w].row].job = worker[w].job
              ELSE worker[w].job = None

\* ... and a row names a job only while its goroutine is at it or once it is left
\* behind open, never one the host has already committed and been told about.
RowJob(i) ==
  item[i].job # None =>
    /\ item[i].state \notin {"new", "pending"}
    /\ upload[item[i].job].row = i
    /\ runs[i] # None => worker[runs[i]].pc \in HoldsJob
    /\ upload[item[i].job].st =
         IF runs[i] # None /\ worker[runs[i]].pc = "committed" THEN "committed" ELSE "open"

\* An open job is the one its row names, as long as every abort is answered.
OpenNamed ==
  \A j \in Jobs : upload[j].st = "open" => upload[j].row \in Items /\ item[upload[j].row].job = j

JobsInv == /\ \A w \in Workers : WorkJob(w)
           /\ \A i \in Items : RowJob(i)
           /\ CommittedNeverAborted
           /\ "abortFails" \notin Faults => OpenNamed

\* The six things a goroutine does with an upload job.
Plain(w) ==
  /\ worker[w].pc \notin HoldsJob /\ worker'[w].pc \notin HoldsJob
  /\ worker'[w].job \in {worker[w].job, None} /\ upload' = upload
  /\ item'[worker[w].row].job \in {item[worker[w].row].job, None}
Opens(w) ==
  \E j \in Jobs :
    /\ worker[w].pc = "begin" /\ worker'[w].pc = "push" /\ worker'[w].job = j /\ FreshJob(j)
    /\ upload' = [upload EXCEPT ![j] = [st |-> "open", row |-> worker[w].row]]
    /\ item'[worker[w].row].job = j
Commits(w) ==
  /\ worker[w].pc = "push" /\ worker'[w].pc = "committed" /\ worker'[w].job = worker[w].job
  /\ upload' = [upload EXCEPT ![worker[w].job].st = "committed"] /\ item' = item
GivesUp(w) ==
  /\ worker[w].pc = "push" /\ worker'[w].pc = "abort" /\ worker'[w].job = worker[w].job
  /\ upload' = upload /\ item' = item
Aborts(w) ==
  /\ worker[w].pc = "abort" /\ worker'[w].pc = "failed" /\ worker'[w].job = None
  /\ item[worker[w].row].job = worker[w].job => item'[worker[w].row].job = None
  /\ \/ upload' = Abort(worker[w].job)
     \/ "abortFails" \in Faults /\ upload' = upload
     \/ item[worker[w].row].job # worker[w].job
Forgets(w) ==
  /\ worker[w].pc = "committed" /\ worker'[w].pc = "check" /\ worker'[w].job = None
  /\ item[worker[w].row].job = worker[w].job => item'[worker[w].row].job = None
  /\ upload' = upload

LEMMA TransferJobs ==
  ASSUME TypedInv, Control, "answerLost" \notin Faults, NEW w \in Workers, Transfer(w)
  PROVE  Plain(w) \/ Opens(w) \/ Commits(w) \/ GivesUp(w) \/ Aborts(w) \/ Forgets(w)
<1> DEFINE i == worker[w].row
<1>1. /\ WorkersOK /\ i \in Items /\ worker \in [Workers -> WorkerType]
      /\ item \in [Items -> ItemType]
  BY TransferServes DEF TypedInv, WorkersOK, RowsOK
<1>a. ASSUME NEW p, p \notin HoldsJob, worker[w].pc \notin HoldsJob, upload' = upload,
             \E j \in {worker[w].job, None} : \E d : Lands(w, p, j, d),
             item'[i].job \in {item[i].job, None}
      PROVE  Plain(w)
  BY <1>a DEF Plain, Lands
<1>c. ASSUME NEW g, SetStage(i, g) PROVE item'[i].job = item[i].job
  BY <1>1, <1>c DEF SetStage, ItemType
<1>d. ASSUME NEW s, NEW g, item' = [item EXCEPT ![i] = [@ EXCEPT !.state = s, !.stage = g]]
      PROVE  item'[i].job = item[i].job
  BY <1>1, <1>d DEF ItemType
<1>g. ASSUME NEW p, NEW d, p \notin HoldsJob, worker[w].pc \notin HoldsJob, upload' = upload,
             Lands(w, p, worker[w].job, d), item'[i].job \in {item[i].job, None}
      PROVE  Plain(w)
  BY <1>g DEF Plain, Lands
<1>e. ASSUME NEW r, item' = [item EXCEPT ![i] = r] PROVE item'[i] = r
  BY <1>1, <1>e
<1>f. item[i] \in ItemType BY <1>1
<1> HIDE DEF i
<1>2. CASE \/ Watch(w) \/ DownloadFails(w) \/ AcquireSlot(w) \/ CheckCancelled(w)
           \/ RemoveOriginal(w) \/ Exit(w) \/ Discard(w)
  <2>1. /\ UNCHANGED <<item, upload>> /\ worker[w].pc \notin HoldsJob
    BY <1>2 DEF Watch, DownloadFails, AcquireSlot, CheckCancelled, RemoveOriginal, Exit, Discard,
       engine, outside, At, HoldsJob
  <2>2. \E p : p \notin HoldsJob /\ \E j \in {worker[w].job, None} : \E d : Lands(w, p, j, d)
    BY <1>1, <1>2, Landing DEF Watch, DownloadFails, AcquireSlot, CheckCancelled, RemoveOriginal,
       Exit, Discard, HoldsJob
  <2> QED BY <2>1, <2>2, <1>a
<1>3. CASE Failed(w)
  <2>1. /\ UNCHANGED <<item, upload>> /\ worker[w].pc \notin HoldsJob
    BY <1>3 DEF Failed, engine, outside, At, HoldsJob
  <2>2. \E p : p \notin HoldsJob /\ \E j \in {worker[w].job, None} : \E d : Lands(w, p, j, d)
    BY <1>1, <1>3, Landing DEF Failed, HoldsJob
  <2> QED BY <2>1, <2>2, <1>a
<1>4. CASE StageEnter(w) \/ DownloadDone(w) \/ Finishing(w)
  <2>1. /\ upload' = upload /\ worker[w].pc \notin HoldsJob
    BY <1>4 DEF StageEnter, DownloadDone, Finishing, outside, At, HoldsJob
  <2>2. \E p : p \notin HoldsJob /\ \E j \in {worker[w].job, None} : \E d : Lands(w, p, j, d)
    BY <1>1, <1>4, Landing DEF StageEnter, DownloadDone, Finishing, HoldsJob
  <2>3. item'[i].job = item[i].job
    BY <1>4, <1>c DEF StageEnter, DownloadDone, Finishing, i
  <2> QED BY <2>1, <2>2, <2>3, <1>a
<1>5. CASE DownloadSome(w)
  BY <1>5 DEF DownloadSome, At, HoldsJob, Plain, engine
<1>6. CASE BeginUpload(w)
  <2>1. ASSUME NEW j \in Jobs, FreshJob(j),
               upload' = [upload EXCEPT ![j] = [st |-> "open", row |-> i]],
               item' = [item EXCEPT ![i] = [@ EXCEPT !.stage = "uploading", !.job = j]],
               Put(w, [worker[w] EXCEPT !.pc = "push", !.job = j])
        PROVE  Opens(w)
    <3>1. worker'[w].pc = "push" /\ worker'[w].job = j
      <4>1. Lands(w, "push", j, worker[w].discard) BY <1>1, <2>1, Landing
      <4> QED BY <4>1 DEF Lands
    <3>2. item'[i].job = j
      <4> DEFINE r == [item[i] EXCEPT !.stage = "uploading", !.job = j]
      <4>1. r.job = j BY <1>f DEF ItemType
      <4>2. item' = [item EXCEPT ![i] = r] BY <2>1
      <4> HIDE DEF r
      <4> QED BY <4>1, <4>2, <1>e
    <3>3. worker[w].pc = "begin" BY <1>6 DEF BeginUpload, At
    <3> QED BY <2>1, <3>1, <3>2, <3>3 DEF Opens, i
  <2>2. ASSUME NEW g, SetStage(i, g), FailWith(w, "retry"), upload' = upload PROVE Plain(w)
    <3>1. Lands(w, "failed", worker[w].job, worker[w].discard) BY <1>1, <2>2, Landing
    <3>2. item'[i].job = item[i].job BY <2>2, <1>c
    <3>3. worker[w].pc = "begin" BY <1>6 DEF BeginUpload, At
    <3>4. "failed" \notin HoldsJob /\ "begin" \notin HoldsJob BY DEF HoldsJob
    <3> QED BY <2>2, <3>1, <3>2, <3>3, <3>4, <1>g
  <2>3. CASE \E j \in Jobs :
               /\ FreshJob(j)
               /\ upload' = [upload EXCEPT ![j] = [st |-> "open", row |-> i]]
               /\ item' = [item EXCEPT ![i] = [@ EXCEPT !.stage = "uploading", !.job = j]]
               /\ Put(w, [worker[w] EXCEPT !.pc = "push", !.job = j])
    BY <2>1, <2>3
  <2>4. CASE (\E g : SetStage(i, g)) /\ FailWith(w, "retry") /\ upload' = upload
    BY <2>2, <2>4
  <2> QED BY <1>6, <2>3, <2>4 DEF BeginUpload, AnswerLost, i
<1>7. CASE Push(w)
  <2>1. worker[w].pc = "push" /\ item' = item BY <1>7 DEF Push, At, engine
  <2>2. \/ upload' = upload /\ Goto(w, "abort")
        \/ /\ upload' = [upload EXCEPT ![worker[w].job].st = "committed"]
           /\ Goto(w, "committed")
    BY <1>7 DEF Push, AnswerLost
  <2>3. ASSUME NEW p, Goto(w, p) PROVE worker'[w].pc = p /\ worker'[w].job = worker[w].job
    BY <1>1, <2>3, Landing DEF Lands
  <2> QED BY <2>1, <2>2, <2>3 DEF Commits, GivesUp
<1>8. CASE AbortOwn(w)
  <2>1. worker'[w].pc = "failed" /\ worker'[w].job = None
    <3>1. Put(w, [worker[w] EXCEPT !.pc = "failed", !.out = "retry", !.job = None])
      BY <1>8 DEF AbortOwn
    <3>2. Lands(w, "failed", None, worker[w].discard) BY <1>1, <3>1, Landing
    <3> QED BY <3>2 DEF Lands
  <2>2. item[i].job = worker[w].job =>
          /\ item' = [item EXCEPT ![i].job = None]
          /\ (upload' = Abort(worker[w].job)) \/ ("abortFails" \in Faults /\ upload' = upload)
    BY <1>8 DEF AbortOwn, i
  <2>3. item' = [item EXCEPT ![i].job = None] => item'[i].job = None
    BY <1>1 DEF ItemType
  <2>4. worker[w].pc = "abort" BY <1>8 DEF AbortOwn, At
  <2> QED BY <2>1, <2>2, <2>3, <2>4 DEF Aborts, i
<1>9. CASE ForgetJob(w)
  <2>1. worker'[w].pc = "check" /\ worker'[w].job = None
    <3>1. Put(w, [worker[w] EXCEPT !.pc = "check", !.job = None]) BY <1>9 DEF ForgetJob
    <3>2. Lands(w, "check", None, worker[w].discard) BY <1>1, <3>1, Landing
    <3> QED BY <3>2 DEF Lands
  <2>2. item[i].job = worker[w].job => item'[i].job = None
    <3> DEFINE j == IF item[i].job = worker[w].job THEN None ELSE item[i].job
    <3>1. item' = [item EXCEPT ![i].job = j] BY <1>9 DEF ForgetJob, i
    <3> HIDE DEF j
    <3>2. item'[i].job = j BY <1>1, <3>1 DEF ItemType
    <3> QED BY <3>2 DEF j
  <2>3. worker[w].pc = "committed" /\ upload' = upload
    BY <1>9 DEF ForgetJob, At, outside
  <2> QED BY <2>1, <2>2, <2>3 DEF Forgets, i
<1>10. CASE Complete(w)
  <2>1. worker[w].pc \notin HoldsJob /\ upload' = upload
    BY <1>10 DEF Complete, At, outside, HoldsJob
  <2>2. item'[i].job = item[i].job BY <1>10, <1>d DEF Complete, i
  <2>3. \E p : p \notin HoldsJob /\ \E j \in {worker[w].job, None} : \E d : Lands(w, p, j, d)
    BY <1>1, <1>10, Landing DEF Complete, HoldsJob
  <2> QED BY <2>1, <2>2, <2>3, <1>a
<1>11. CASE PersistComplete(w)
  <2>1. worker[w].pc \notin HoldsJob /\ upload' = upload /\ item' = item
    BY <1>11 DEF PersistComplete, At, HoldsJob
  <2>2. PICK d : Put(w, [worker[w] EXCEPT !.pc = "remove", !.discard = d])
    BY <1>11 DEF PersistComplete
  <2>3. Lands(w, "remove", worker[w].job, d) BY <1>1, <2>2, Landing
  <2> QED BY <2>1, <2>3, <1>a DEF HoldsJob
<1>12. CASE RollBackComplete(w)
  <2>1. worker[w].pc \notin HoldsJob /\ upload' = upload
    BY <1>12 DEF RollBackComplete, At, outside, HoldsJob
  <2>2. item'[i].job = item[i].job BY <1>12, <1>d DEF RollBackComplete, i
  <2>3. Lands(w, "settle", worker[w].job, FALSE)
    BY <1>1, <1>12, Landing DEF RollBackComplete
  <2>4. "settle" \notin HoldsJob BY DEF HoldsJob
  <2> QED BY <2>1, <2>2, <2>3, <2>4, <1>g
<1>13. CASE Settle(w)
  <2>1. worker[w].pc \notin HoldsJob /\ upload' = upload
    BY <1>13 DEF Settle, At, HoldsJob
  <2>2. item'[i].job \in {item[i].job, None}
    <3>1. Settled(w, item[i]).job \in {item[i].job, None}
      <4>1. \A c : Requeued(item[i], c).job = None
        BY <1>f DEF Requeued, ItemType
      <4>2. [item[i] EXCEPT !.state = "failed", !.stage = "idle"].job = item[i].job
        BY <1>f DEF ItemType
      <4> QED BY <4>1, <4>2 DEF Settled
    <3>2. \/ item' = [item EXCEPT ![i] = item[i]]
          \/ item' = [item EXCEPT ![i] = Settled(w, item[i])]
      BY <1>13 DEF Settle, i
    <3> QED BY <3>1, <3>2, <1>e
  <2>3. Lands(w, "exit", worker[w].job, worker[w].discard)
    BY <1>1, <1>13, Landing DEF Settle
  <2>4. "exit" \notin HoldsJob BY DEF HoldsJob
  <2> QED BY <2>1, <2>2, <2>3, <2>4, <1>g
<1>14. CASE Release(w)
  <2>1. worker[w].pc \notin HoldsJob /\ UNCHANGED <<upload, item>>
    BY <1>14 DEF Release, At, HoldsJob, outside
  <2>2. worker'[w].pc = "idle" /\ worker'[w].job = None
    BY <1>1, <1>14 DEF Release, Put, IdleWorker
  <2> QED BY <2>1, <2>2 DEF Plain, HoldsJob
<1> QED BY <1>2, <1>3, <1>4, <1>5, <1>6, <1>7, <1>8, <1>9, <1>10, <1>11, <1>12, <1>13, <1>14
        DEF Transfer

LEMMA JobsTransfer ==
  ASSUME TypedInv, Control, JobsInv, "answerLost" \notin Faults, NEW w \in Workers, Transfer(w)
  PROVE  JobsInv'
<1>0. PICK r, j : r = worker[w].row /\ j = worker[w].job OBVIOUS
<1>1. /\ r \in Items /\ runs[r] = w /\ w # None /\ OneWriter /\ Serving(w)
      /\ runs \in [Items -> Workers \cup {None}] /\ item \in [Items -> ItemType]
      /\ upload \in [Jobs -> UploadType] /\ worker \in [Workers -> WorkerType]
      /\ None \notin Jobs
  BY <1>0, TransferServes, NoneAssumption
  DEF TypedInv, WorkersOK, RowsOK, EngineOK, OutsideOK, Control, OneWriter
<1>2. TouchesOwnRow(w) /\ (Continues(w) \/ Leaves(w)) BY TransferEffect
<1>3. \A k \in Items \ {r} :
        /\ item'[k] = item[k] /\ runs'[k] = runs[k] /\ runs[k] # w
        /\ runs[k] # None => worker'[runs[k]] = worker[runs[k]]
  <2>1. \A k \in Items \ {r} : runs[k] # w BY <1>1 DEF OneWriter
  <2> QED BY <1>0, <1>1, <1>2, <2>1 DEF TouchesOwnRow, Continues, Leaves
<1>4. /\ worker'[w].pc # "idle" => /\ runs'[r] = w /\ worker'[w].row = r
                                   /\ Fits(w)'
      /\ worker'[w].pc = "idle" => runs'[r] = None
  BY <1>0, <1>1, <1>2 DEF Continues, Leaves, Serving
<1>5. /\ worker[w].pc \in HoldsJob => j \in Jobs /\ item[r].job = j
      /\ worker[w].pc \notin HoldsJob => j = None
      /\ item[r].job # None => /\ item[r].state \notin {"new", "pending"}
                               /\ upload[item[r].job].row = r
                               /\ worker[w].pc \in HoldsJob
                               /\ upload[item[r].job].st =
                                    IF worker[w].pc = "committed" THEN "committed" ELSE "open"
  BY <1>0, <1>1 DEF JobsInv, WorkJob, RowJob
<1>6. \A k \in Items \ {r} :
        item[k].job # None => item[k].job \in Jobs /\ upload[item[k].job].row = k
  BY <1>1 DEF JobsInv, RowJob, ItemType
<1>a. ASSUME \A k \in Items \ {r} : item[k].job # None => upload'[item[k].job] = upload[item[k].job],
             WorkJob(w)', RowJob(r)', CommittedNeverAborted',
             "abortFails" \notin Faults => OpenNamed'
      PROVE  JobsInv'
  <2>1. ASSUME NEW x \in Workers \ {w} PROVE WorkJob(x)'
    <3>1. worker'[x] = worker[x] BY <1>2 DEF TouchesOwnRow
    <3>2. WorkJob(x) BY DEF JobsInv
    <3>3. worker[x].pc \in HoldsJob => worker[x].row \in Items \ {r}
      BY <1>0, <1>1 DEF HoldsJob, TypedInv, WorkersOK, Serving, OneWriter
    <3> QED BY <1>3, <3>1, <3>2, <3>3 DEF WorkJob
  <2>2. ASSUME NEW k \in Items \ {r} PROVE RowJob(k)'
    <3>1. RowJob(k) BY DEF JobsInv
    <3> QED BY <1>3, <1>a, <3>1 DEF RowJob
  <2> QED BY <1>a, <2>1, <2>2 DEF JobsInv
<1>b. ASSUME item'[r].job = None PROVE RowJob(r)'
  BY <1>b DEF RowJob
<1>c. ASSUME worker'[w].pc \notin HoldsJob, worker'[w].job = None PROVE WorkJob(w)'
  BY <1>c DEF WorkJob
<1>7. CASE Plain(w)
  <2>1. item[r].job = None /\ item'[r].job = None /\ upload' = upload
    BY <1>0, <1>5, <1>7 DEF Plain
  <2>2. worker'[w].pc \notin HoldsJob /\ worker'[w].job = None
    BY <1>0, <1>5, <1>7 DEF Plain
  <2>3. CommittedNeverAborted' BY <2>1 DEF CommittedNeverAborted, JobsInv
  <2>4. OpenNamed => OpenNamed'
    BY <1>1, <1>3, <2>1 DEF OpenNamed
  <2> QED BY <1>a, <1>b, <1>c, <2>1, <2>2, <2>3, <2>4 DEF JobsInv
<1>8. CASE Opens(w)
  <2>1. PICK n \in Jobs :
          /\ worker[w].pc = "begin" /\ worker'[w].pc = "push" /\ worker'[w].job = n /\ FreshJob(n)
          /\ upload' = [upload EXCEPT ![n] = [st |-> "open", row |-> r]] /\ item'[r].job = n
    BY <1>0, <1>8 DEF Opens
  <2>2. item[r].job = None /\ \A k \in Items : item[k].job # n
    BY <1>5, <2>1 DEF HoldsJob, FreshJob
  <2>3. /\ upload'[n].st = "open" /\ upload'[n].row = r
        /\ \A m \in Jobs \ {n} : upload'[m] = upload[m]
    BY <1>1, <2>1
  <2>4. runs'[r] = w /\ worker'[w].row = r /\ item'[r].state \notin {"new", "pending"}
    BY <1>4, <2>1 DEF Fits, Serving, Working, PCs
  <2>5. WorkJob(w)' /\ RowJob(r)'
    BY <1>1, <2>1, <2>3, <2>4 DEF WorkJob, RowJob, HoldsJob
  <2>6. CommittedNeverAborted' BY <2>3 DEF CommittedNeverAborted, JobsInv
  <2>7. OpenNamed => OpenNamed'
    BY <1>1, <1>3, <2>1, <2>2, <2>3 DEF OpenNamed
  <2>8. \A k \in Items \ {r} : item[k].job # None => upload'[item[k].job] = upload[item[k].job]
    BY <1>6, <2>2, <2>3
  <2> QED BY <1>a, <2>5, <2>6, <2>7, <2>8 DEF JobsInv
<1>9. CASE Commits(w)
  <2>1. /\ worker[w].pc = "push" /\ worker'[w].pc = "committed" /\ worker'[w].job = j
        /\ upload' = [upload EXCEPT ![j].st = "committed"] /\ item' = item
    BY <1>0, <1>9 DEF Commits
  <2>2. j \in Jobs /\ item[r].job = j /\ j # None /\ upload[j].row = r
        /\ item[r].state \notin {"new", "pending"}
    BY <1>1, <1>5, <2>1 DEF HoldsJob
  <2>3. /\ upload'[j].st = "committed" /\ upload'[j].row = r
        /\ \A m \in Jobs \ {j} : upload'[m] = upload[m]
    BY <1>1, <2>1, <2>2 DEF UploadType
  <2>4. runs'[r] = w /\ worker'[w].row = r BY <1>4, <2>1
  <2>5. WorkJob(w)' /\ RowJob(r)'
    BY <1>1, <2>1, <2>2, <2>3, <2>4 DEF WorkJob, RowJob, HoldsJob
  <2>6. CommittedNeverAborted' BY <2>3 DEF CommittedNeverAborted, JobsInv
  <2>7. OpenNamed => OpenNamed' BY <2>1, <2>3 DEF OpenNamed
  <2>8. \A k \in Items \ {r} : item[k].job # None => upload'[item[k].job] = upload[item[k].job]
    BY <1>6, <2>2, <2>3
  <2> QED BY <1>a, <2>5, <2>6, <2>7, <2>8 DEF JobsInv
<1>10. CASE GivesUp(w)
  <2>1. /\ worker[w].pc = "push" /\ worker'[w].pc = "abort" /\ worker'[w].job = j
        /\ upload' = upload /\ item' = item
    BY <1>0, <1>10 DEF GivesUp
  <2>2. j \in Jobs /\ item[r].job = j /\ j # None /\ upload[j].row = r /\ upload[j].st = "open"
        /\ item[r].state \notin {"new", "pending"}
    BY <1>1, <1>5, <2>1 DEF HoldsJob
  <2>3. runs'[r] = w /\ worker'[w].row = r BY <1>4, <2>1
  <2>4. WorkJob(w)' /\ RowJob(r)'
    BY <1>1, <2>1, <2>2, <2>3 DEF WorkJob, RowJob, HoldsJob
  <2>5. CommittedNeverAborted' BY <2>1 DEF CommittedNeverAborted, JobsInv
  <2>6. OpenNamed => OpenNamed' BY <2>1 DEF OpenNamed
  <2> QED BY <1>a, <2>1, <2>4, <2>5, <2>6 DEF JobsInv
<1>11. CASE Aborts(w)
  <2>1. worker[w].pc = "abort" /\ worker'[w].pc = "failed" /\ worker'[w].job = None
    BY <1>11 DEF Aborts
  <2>2. j \in Jobs /\ item[r].job = j /\ j # None /\ upload[j].st = "open" /\ upload[j].row = r
    BY <1>1, <1>5, <2>1 DEF HoldsJob
  <2>3. /\ item'[r].job = None
        /\ (upload' = Abort(j)) \/ ("abortFails" \in Faults /\ upload' = upload)
    BY <1>0, <1>11, <2>2 DEF Aborts
  <2>4. ASSUME upload' = Abort(j)
        PROVE  upload'[j].st = "aborted" /\ \A m \in Jobs \ {j} : upload'[m] = upload[m]
    BY <1>1, <2>2, <2>4 DEF Abort, UploadType
  <2>5. WorkJob(w)' /\ RowJob(r)' BY <1>b, <1>c, <2>1, <2>3 DEF HoldsJob
  <2>6. CommittedNeverAborted'
    BY <2>3, <2>4 DEF CommittedNeverAborted, JobsInv
  <2>7. "abortFails" \notin Faults => OpenNamed'
    <3>1. SUFFICES ASSUME "abortFails" \notin Faults PROVE OpenNamed' OBVIOUS
    <3>2. OpenNamed /\ upload' = Abort(j) BY <2>3, <3>1 DEF JobsInv
    <3> QED BY <1>3, <2>2, <2>4, <3>2 DEF OpenNamed
  <2>8. \A k \in Items \ {r} : item[k].job # None => upload'[item[k].job] = upload[item[k].job]
    BY <1>6, <2>2, <2>3, <2>4
  <2> QED BY <1>a, <2>5, <2>6, <2>7, <2>8
<1>12. CASE Forgets(w)
  <2>1. /\ worker[w].pc = "committed" /\ worker'[w].pc = "check" /\ worker'[w].job = None
        /\ upload' = upload
    BY <1>12 DEF Forgets
  <2>2. j \in Jobs /\ item[r].job = j /\ j # None /\ upload[j].st = "committed"
    BY <1>1, <1>5, <2>1 DEF HoldsJob
  <2>3. item'[r].job = None BY <1>0, <1>12, <2>2 DEF Forgets
  <2>4. WorkJob(w)' /\ RowJob(r)' BY <1>b, <1>c, <2>1, <2>3 DEF HoldsJob
  <2>5. CommittedNeverAborted' BY <2>1 DEF CommittedNeverAborted, JobsInv
  <2>6. OpenNamed => OpenNamed' BY <1>3, <2>1, <2>2 DEF OpenNamed
  <2> QED BY <1>a, <2>1, <2>4, <2>5, <2>6 DEF JobsInv
<1> QED BY <1>7, <1>8, <1>9, <1>10, <1>11, <1>12, TransferJobs

\* Nothing about jobs changes, and no row that names one starts to wait.
LEMMA JobsStay ==
  ASSUME TypedInv, JobsInv, UNCHANGED <<worker, runs, upload>>,
         \A i \in Items : /\ item'[i].job = item[i].job
                          /\ item[i].job # None =>
                               \/ item'[i].state = item[i].state
                               \/ item'[i].state \notin {"new", "pending"}
  PROVE  JobsInv'
<1>1. ASSUME NEW x \in Workers PROVE WorkJob(x)'
  <2>1. worker[x].pc \in HoldsJob => worker[x].row \in Items
    BY DEF HoldsJob, TypedInv, WorkersOK, Serving
  <2> QED BY <2>1 DEF JobsInv, WorkJob
<1>2. ASSUME NEW k \in Items PROVE RowJob(k)'
  BY DEF JobsInv, RowJob
<1>3. CommittedNeverAborted' BY DEF CommittedNeverAborted, JobsInv
<1>4. OpenNamed => OpenNamed' BY DEF OpenNamed
<1> QED BY <1>1, <1>2, <1>3, <1>4 DEF JobsInv

\* A call takes the job off a row nobody serves and aborts it.
LEMMA JobLetGo ==
  ASSUME TypedInv, Control, JobsInv, UNCHANGED <<worker, runs>>, NEW i \in Items, runs[i] = None,
         \A k \in Items \ {i} : item'[k] = item[k], item'[i].job = None,
         \/ item[i].job # None /\ upload' = Abort(item[i].job)
         \/ item[i].job = None /\ upload' = upload
         \/ "abortFails" \in Faults /\ upload' = upload
  PROVE  JobsInv'
<1>1. /\ None \notin Jobs /\ upload \in [Jobs -> UploadType] /\ None \notin Workers
      /\ item \in [Items -> ItemType]
  BY NoneAssumption DEF TypedInv, OutsideOK, RowsOK
<1>0. PICK j : j = item[i].job OBVIOUS
<1>2. j # None => j \in Jobs /\ upload[j].row = i /\ upload[j].st = "open"
  BY <1>0, <1>1 DEF JobsInv, RowJob, ItemType
<1>3. ASSUME j # None, upload' = Abort(j)
      PROVE  upload'[j].st = "aborted" /\ \A m \in Jobs \ {j} : upload'[m] = upload[m]
  BY <1>1, <1>2, <1>3 DEF Abort, UploadType
<1>4. \A k \in Items \ {i} : item[k].job # None =>
        item[k].job \in Jobs /\ upload[item[k].job].row = k
  BY <1>1 DEF JobsInv, RowJob, ItemType
<1>5. \A k \in Items \ {i} : item[k].job # None => upload'[item[k].job] = upload[item[k].job]
  BY <1>0, <1>2, <1>3, <1>4
<1>6. ASSUME NEW x \in Workers PROVE WorkJob(x)'
  <2>1. worker[x].pc \in HoldsJob => worker[x].row \in Items \ {i}
    BY <1>1 DEF HoldsJob, TypedInv, WorkersOK, Serving, Control, OneWriter
  <2>2. WorkJob(x) BY DEF JobsInv
  <2> QED BY <2>1, <2>2 DEF WorkJob
<1>7. ASSUME NEW k \in Items PROVE RowJob(k)'
  <2>1. CASE k = i BY <2>1 DEF RowJob
  <2>2. CASE k # i
    <3>1. RowJob(k) BY DEF JobsInv
    <3> QED BY <1>5, <2>2, <3>1 DEF RowJob
  <2> QED BY <2>1, <2>2
<1>8. CommittedNeverAborted'
  BY <1>0, <1>3 DEF CommittedNeverAborted, JobsInv
<1>9. "abortFails" \notin Faults => OpenNamed'
  <2>1. SUFFICES ASSUME "abortFails" \notin Faults PROVE OpenNamed' OBVIOUS
  <2>2. OpenNamed BY <2>1 DEF JobsInv
  <2>3. CASE j = None
    <3>1. upload' = upload BY <1>0, <2>3
    <3> QED BY <1>0, <1>1, <2>2, <2>3, <3>1 DEF OpenNamed
  <2>4. CASE j # None
    <3>1. upload' = Abort(j) BY <1>0, <2>1, <2>4
    <3> QED BY <1>0, <1>3, <2>2, <2>4, <3>1 DEF OpenNamed
  <2> QED BY <2>3, <2>4
<1> QED BY <1>6, <1>7, <1>8, <1>9 DEF JobsInv

LEMMA JobsDispatch ==
  ASSUME TypedInv, Control, JobsInv, NEW w \in Workers, NEW k \in Items, Dispatch(w, k)
  PROVE  JobsInv'
<1>1. /\ worker \in [Workers -> WorkerType] /\ item \in [Items -> ItemType]
      /\ runs \in [Items -> Workers \cup {None}] /\ OneWriter /\ w # None
  BY NoneAssumption DEF TypedInv, WorkersOK, RowsOK, EngineOK, Control
<1>2. /\ upload' = upload /\ runs' = [runs EXCEPT ![k] = w] /\ item[k].state = "pending"
      /\ worker[w].pc = "idle" /\ worker'[w].pc = "watch" /\ worker'[w].job = None
      /\ \A x \in Workers \ {w} : worker'[x] = worker[x]
      /\ \A i \in Items \ {k} : item'[i] = item[i]
  BY <1>1 DEF Dispatch, Claimable, Put, IdleWorker, outside
<1>3. item[k].job = None /\ item'[k].job = None
  <2>1. item[k].job = None BY <1>2 DEF JobsInv, RowJob
  <2>2. item'[k].job = item[k].job BY <1>1 DEF Dispatch, ItemType
  <2> QED BY <2>1, <2>2
<1>4. \A i \in Items : runs[i] # w BY <1>1, <1>2 DEF OneWriter, Serving
<1>5. ASSUME NEW x \in Workers PROVE WorkJob(x)'
  <2>1. CASE x = w BY <1>2, <2>1 DEF WorkJob, HoldsJob
  <2>2. CASE x # w
    <3>1. worker[x].pc \in HoldsJob => worker[x].row \in Items
      BY DEF HoldsJob, TypedInv, WorkersOK, Serving
    <3>2. WorkJob(x) BY DEF JobsInv
    <3> QED BY <1>2, <1>3, <2>2, <3>1, <3>2 DEF WorkJob
  <2> QED BY <2>1, <2>2
<1>6. ASSUME NEW i \in Items PROVE RowJob(i)'
  <2>1. CASE i = k BY <1>3, <2>1 DEF RowJob
  <2>2. CASE i # k
    <3>1. RowJob(i) /\ runs'[i] = runs[i] /\ (runs[i] # None => worker'[runs[i]] = worker[runs[i]])
      BY <1>1, <1>2, <1>4, <2>2 DEF JobsInv
    <3> QED BY <1>2, <2>2, <3>1 DEF RowJob
  <2> QED BY <2>1, <2>2
<1>7. CommittedNeverAborted' BY <1>2 DEF CommittedNeverAborted, JobsInv
<1>8. OpenNamed => OpenNamed' BY <1>2, <1>3 DEF OpenNamed
<1> QED BY <1>5, <1>6, <1>7, <1>8 DEF JobsInv

LEMMA JobsStep ==
  TypedInv /\ Control /\ CallsInv /\ JobsInv /\ "answerLost" \notin Faults /\ [Next]_vars => JobsInv'
<1> SUFFICES ASSUME TypedInv, Control, CallsInv, JobsInv, "answerLost" \notin Faults, [Next]_vars
             PROVE  JobsInv'
  OBVIOUS
<1>0. item \in [Items -> ItemType] /\ None \notin Workers
  BY NoneAssumption DEF TypedInv, RowsOK
<1>1. ASSUME NEW c \in Clients, NEW ids \in SUBSET Items, Cancel(c, ids) PROVE JobsInv'
  <2>1. UNCHANGED <<worker, runs, upload>> BY <1>1 DEF Cancel, outside
  <2>2. \A i \in Items : /\ item'[i].job = item[i].job
                         /\ item'[i].state \in {item[i].state, "cancelled"}
    BY <1>0, <1>1 DEF Cancel, ItemType
  <2> QED BY <2>1, <2>2, JobsStay
<1>2. ASSUME NEW c \in Clients, NEW ids \in SUBSET Items, Retry(c, ids) PROVE JobsInv'
  <2>1. UNCHANGED <<worker, runs, upload>> BY <1>2 DEF Retry, outside
  <2>2. \A i \in Items : ResetForRetry(item[i]).job = None
    BY <1>0 DEF ResetForRetry, ItemType
  <2>3. \A i \in Items : item'[i].job = item[i].job /\ (item[i].job # None => item'[i] = item[i])
    BY <1>2, <2>2 DEF Retry
  <2> QED BY <2>1, <2>3, JobsStay
<1>3. ASSUME NEW c \in Clients, NEW i \in Items, RetryStale(c, i) PROVE JobsInv'
  <2>1. i \in Sole(client[c]) /\ client[c].op = "retry"
    BY <1>3 DEF RetryStale, Sole, CallsInv, HeldInv, Shaped
  <2>2. runs[i] = None BY <2>1 DEF CallsInv, HeldInv, Quiet
  <2>3. UNCHANGED <<worker, runs>> BY <1>3 DEF RetryStale
  <2>4. CASE UNCHANGED <<item, upload>>
    BY <2>3, <2>4, JobsStay
  <2>5. CASE /\ item' = [item EXCEPT ![i] = ResetForRetry(item[i])]
             /\ upload' = IF item[i].job # None THEN Abort(item[i].job) ELSE upload
    <3>1. ResetForRetry(item[i]).job = None BY <1>0 DEF ResetForRetry, ItemType
    <3>2. item'[i].job = None /\ \A k \in Items \ {i} : item'[k] = item[k]
      BY <1>0, <2>5, <3>1
    <3> QED BY <2>2, <2>3, <2>5, <3>2, JobLetGo
  <2> QED BY <1>3, <2>2, <2>4, <2>5 DEF RetryStale
<1>4. ASSUME NEW c \in Clients, CancelReap(c) PROVE JobsInv'
  <2>0. PICK i : i = client[c].cur OBVIOUS
  <2>1. /\ UNCHANGED <<worker, runs>> /\ client[c].op = "cancel" /\ i # None
        /\ i \notin client[c].todo => runs[i] = None
    BY <1>4, <2>0 DEF CancelReap
  <2>2. i \in Items /\ runs[i] = None
    <3>1. i \in Items BY <2>0, <2>1 DEF TypedInv, CallsOK, ClientType
    <3>2. i \in client[c].todo => i \in Sole(client[c]) BY <2>1 DEF Sole
    <3>3. i \in Sole(client[c]) => runs[i] = None BY <2>1 DEF CallsInv, HeldInv, Quiet
    <3> QED BY <2>1, <3>1, <3>2, <3>3
  <2>3. CASE item[i].job = None
    <3>1. UNCHANGED <<item, upload>> BY <1>4, <2>0, <2>3 DEF CancelReap
    <3> QED BY <2>1, <3>1, JobsStay
  <2>4. CASE item[i].job # None
    <3>1. /\ item' = [item EXCEPT ![i].job = None]
          /\ (upload' = Abort(item[i].job)) \/ ("abortFails" \in Faults /\ upload' = upload)
      BY <1>4, <2>0, <2>4 DEF CancelReap
    <3>2. item'[i].job = None /\ \A k \in Items \ {i} : item'[k] = item[k]
      BY <1>0, <2>2, <3>1 DEF ItemType
    <3> QED BY <2>1, <2>2, <2>4, <3>1, <3>2, JobLetGo
  <2> QED BY <2>3, <2>4
<1>5. ASSUME NEW k \in Items, Enqueue(k) PROVE JobsInv'
  <2>1. UNCHANGED <<worker, runs, upload>> /\ item[k].state = "new" BY <1>5 DEF Enqueue, outside
  <2>2. item[k].job = None BY <2>1 DEF JobsInv, RowJob
  <2>3. item'[k].job = item[k].job /\ \A i \in Items \ {k} : item'[i] = item[i]
    BY <1>0, <1>5 DEF Enqueue, ItemType
  <2> QED BY <2>1, <2>2, <2>3, JobsStay
<1>6. CASE \/ \E i \in Items : ApplySettings(i)
           \/ Shutdown \/ StopScheduler \/ UNCHANGED vars
  <2>1. UNCHANGED <<worker, runs, upload, item>>
    BY <1>6 DEF ApplySettings, Shutdown, StopScheduler, vars, engine, outside
  <2> QED BY <2>1, JobsStay
<1>7. ASSUME NEW c \in Clients,
             \/ Prune(c) \/ Cleanup(c) \/ ListDirs(c) \/ Return(c)
             \/ \E ids \in SUBSET Items : DeleteStaged(c, ids) \/ ClearFinished(c, ids)
             \/ \E k \in Items : \/ CancelDiscard(c, k) \/ CancelInterrupt(c, k)
                                 \/ RemoveDir(c, k) \/ CleanupOne(c, k)
      PROVE  JobsInv'
  <2>1. UNCHANGED <<worker, runs, upload, item>>
    BY <1>7 DEF Prune, Cleanup, ListDirs, Return, DeleteStaged, ClearFinished,
       CancelDiscard, CancelInterrupt, RemoveDir, CleanupOne, engine, outside
  <2> QED BY <2>1, JobsStay
<1> QED BY <1>1, <1>2, <1>3, <1>4, <1>5, <1>6, <1>7, JobsTransfer, JobsDispatch
        DEF Next, Call, Serve

LEMMA JobsInit == Init => JobsInv
<1> SUFFICES ASSUME Init PROVE JobsInv OBVIOUS
<1>1. PICK left \in (Items \ NewItems) \cup {None}, kept \in SUBSET (Items \ NewItems),
           j \in Jobs : Loaded(left, kept, j)
  BY DEF Init
<1>2. /\ \A i \in Items : runs[i] = None
      /\ \A w \in Workers : worker[w].pc = "idle" /\ worker[w].job = None
      /\ None \notin Items /\ None \notin Jobs
  BY NoneAssumption DEF Init, IdleWorker
<1>3. \A i \in Items : /\ item[i].job \in {j, None}
                       /\ item[i].job = j <=> (i = left)
                       /\ i = left => item[i].state = "cancelled"
  <2>1. \A i \in Items : \/ i = left /\ item[i] = Row("cancelled", 1, j)
                         \/ i # left /\ item[i] \in {Row("new", 0, None), Row("pending", 0, None),
                                                    Row("failed", MaxAttempts, None)}
    BY <1>1 DEF Loaded
  <2>2. \A s, a, k : Row(s, a, k).job = k /\ Row(s, a, k).state = s BY DEF Row
  <2> QED BY <1>2, <2>1, <2>2
<1>4. \A k \in Jobs : /\ k = j /\ left # None => upload[k].st = "open" /\ upload[k].row = left
                      /\ ~(k = j /\ left # None) => upload[k].st = "free"
  BY <1>1 DEF Loaded
<1>5. \A w \in Workers : WorkJob(w) BY <1>2 DEF WorkJob, HoldsJob
<1>6. \A i \in Items : RowJob(i) BY <1>2, <1>3, <1>4 DEF RowJob
<1>7. CommittedNeverAborted /\ OpenNamed
  BY <1>1, <1>2, <1>3, <1>4 DEF CommittedNeverAborted, OpenNamed
<1> QED BY <1>5, <1>6, <1>7 DEF JobsInv

LEMMA JobsInvariant ==
  ASSUME "answerLost" \notin Faults PROVE Spec => [](TypedInv /\ Control /\ JobsInv)
<1>1. TypedInv /\ Control /\ CallsInv /\ JobsInv /\ [Next]_vars => JobsInv'
  BY JobsStep
<1> QED BY <1>1, JobsInit, CallsInvariant, PTL DEF Spec

\* As long as the answer to a commit is not lost with the run's context, neither
\* upload's own abort nor the one Cancel or Retry sends can reach a committed job.
\* (MCCancelCommit shows that a lost answer does break it.)
THEOREM AbortSparesCommitted ==
  ASSUME "answerLost" \notin Faults PROVE Spec => []CommittedNeverAborted
<1>1. JobsInv => CommittedNeverAborted BY DEF JobsInv
<1> QED BY <1>1, JobsInvariant, PTL

\* When moreover every abort is answered, a job that is open at the host is always
\* named by its row: whoever gives the row up knows what to abort.
THEOREM NoJobForgotten ==
  ASSUME "answerLost" \notin Faults, "abortFails" \notin Faults PROVE Spec => []NoOrphanUpload
<1>1. JobsInv => NoOrphanUpload BY DEF JobsInv, OpenNamed, NoOrphanUpload
<1> QED BY <1>1, JobsInvariant, PTL

LEMMA RetryClosesStep ==
  ASSUME TypedInv, Control, [Next]_vars, NEW i \in Items,
         item[i].state \in {"failed", "cancelled"}, item'[i].state = "pending", item[i].job # None
  PROVE  upload'[item[i].job].st # "open"
<1>1. item \in [Items -> ItemType] /\ upload \in [Jobs -> UploadType]
  BY DEF TypedInv, RowsOK, OutsideOK
<1>2. ASSUME UNCHANGED item PROVE FALSE BY <1>2
<1>3. ASSUME NEW w \in Workers, Transfer(w) PROVE FALSE
  <2>1. TouchesOwnRow(w) /\ (Continues(w) \/ Leaves(w)) BY <1>3, TransferEffect
  <2> QED BY <2>1 DEF TouchesOwnRow, Continues, Leaves
<1>4. ASSUME NEW w \in Workers, NEW k \in Items, Dispatch(w, k) PROVE FALSE
  BY <1>1, <1>4 DEF Dispatch, Claimable
<1>5. ASSUME NEW c \in Clients, NEW ids \in SUBSET Items, Cancel(c, ids) PROVE FALSE
  BY <1>1, <1>5 DEF Cancel, ItemType
<1>6. ASSUME NEW c \in Clients, NEW ids \in SUBSET Items, Retry(c, ids) PROVE FALSE
  BY <1>6 DEF Retry
<1>7. ASSUME NEW c \in Clients, NEW k \in Items, RetryStale(c, k)
      PROVE  upload'[item[i].job].st # "open"
  <2>1. k = i /\ upload' = Abort(item[i].job)
    BY <1>1, <1>7 DEF RetryStale
  <2>2. item[i].job \in Jobs BY <1>1 DEF ItemType
  <2>3. ASSUME NEW j \in Jobs PROVE Abort(j)[j].st # "open"
    BY <1>1 DEF Abort, UploadType
  <2> QED BY <2>1, <2>2, <2>3
<1>8. ASSUME NEW c \in Clients, CancelReap(c) PROVE FALSE
  BY <1>1, <1>8 DEF CancelReap, ItemType
<1>9. ASSUME NEW k \in Items, Enqueue(k) PROVE FALSE
  BY <1>1, <1>9 DEF Enqueue, ItemType
<1>10. ASSUME NEW c \in Clients,
              \/ Prune(c) \/ Cleanup(c) \/ ListDirs(c) \/ Return(c)
              \/ \E ids \in SUBSET Items : DeleteStaged(c, ids) \/ ClearFinished(c, ids)
              \/ \E k \in Items : \/ CancelDiscard(c, k) \/ CancelInterrupt(c, k)
                                  \/ RemoveDir(c, k) \/ CleanupOne(c, k)
       PROVE  FALSE
  BY <1>10, <1>2 DEF Prune, Cleanup, ListDirs, Return, DeleteStaged, ClearFinished,
     CancelDiscard, CancelInterrupt, RemoveDir, CleanupOne, engine
<1>11. CASE \/ \E k \in Items : ApplySettings(k)
            \/ Shutdown \/ StopScheduler \/ UNCHANGED vars
  BY <1>11, <1>2 DEF ApplySettings, Shutdown, StopScheduler, vars, engine
<1> QED BY <1>3, <1>4, <1>5, <1>6, <1>7, <1>8, <1>9, <1>10, <1>11 DEF Next, Call, Serve

\* A row that still names an upload of an earlier attempt is reopened only by the
\* step that has had this upload aborted, whatever the host may refuse or lose.
THEOREM RetryClosesUpload == Spec => RetryClosesOldUpload
<1>1. TypedInv /\ Control /\ [Next]_vars =>
        \A i \in Items :
          /\ item[i].state \in {"failed", "cancelled"} /\ item'[i].state = "pending"
          /\ item[i].job # None
          => upload'[item[i].job].st # "open"
  BY RetryClosesStep
<1> QED BY <1>1, Invariant, PTL DEF Spec, RetryClosesOldUpload

----------------------------------------------------------------------------
(* What becomes of the staged bytes.                                         *)

\* A goroutine that has decided to drop the bytes ends a cancelled or complete row.
Over(i) == item[i].state \in {"complete", "cancelled"}
Drops(w) ==
  /\ worker[w].pc = "settle" => worker[w].discard = FALSE
  /\ worker[w].pc = "exit" => worker[w].discard = FALSE \/ Over(worker[w].row)
  /\ worker[w].pc = "discard" => Over(worker[w].row)

\* What ClearFinished and PruneStaged sweep is out of the queue for good; before the
\* directories are listed a row no scan has seen may be among it, but none with bytes.
Gone(c, i) ==
  i \in client[c].todo =>
    /\ client[c].op \in {"clear", "prune", "sweep"} => i \notin queue
    /\ client[c].op \in {"clear", "sweep"} => item[i].state # "new"

BytesInv == /\ \A w \in Workers : Drops(w)
            /\ \A c \in Clients, i \in Items : Gone(c, i)
            /\ \A i \in Items : item[i].state = "new" => staged[i] = "none"

LEMMA TransferDrops ==
  ASSUME TypedInv, Control, NEW w \in Workers, Drops(w), Transfer(w)
  PROVE  Drops(w)'
<1>0. PICK i : i = worker[w].row OBVIOUS
<1>1. /\ WorkersOK /\ i \in Items /\ worker \in [Workers -> WorkerType]
      /\ item \in [Items -> ItemType] /\ runs[i] = w /\ w # None /\ Fits(w) /\ Serving(w)
  BY <1>0, TransferServes, NoneAssumption
  DEF TypedInv, WorkersOK, RowsOK, Control, OneWriter, RowFollowsWorker
<1>2. StoppedByCancel(w) => Over(i)
  BY <1>0, <1>1 DEF StoppedByCancel, CancellationRequested, Fits, Over
<1>a. ASSUME worker'[w].pc \notin {"settle", "exit", "discard"} PROVE Drops(w)'
  BY <1>a DEF Drops
<1>b. ASSUME NEW p, NEW j, p # "discard", Lands(w, p, j, FALSE) PROVE Drops(w)'
  BY <1>b DEF Drops, Lands
<1>c. ASSUME NEW p, NEW j, NEW d, p # "settle", Lands(w, p, j, d), Over(i), UNCHANGED item
      PROVE  Drops(w)'
  <2>1. worker'[w].row = i /\ worker'[w].pc = p BY <1>0, <1>c DEF Lands
  <2>2. Over(i)' BY <1>c DEF Over
  <2> QED BY <1>c, <2>1, <2>2 DEF Drops, Over
<1>3. CASE Watch(w) \/ StageEnter(w) \/ DownloadDone(w) \/ DownloadFails(w) \/ AcquireSlot(w)
           \/ Push(w) \/ Finishing(w) \/ Discard(w)
  BY <1>1, <1>3, <1>a, LandsAt DEF Watch, StageEnter, DownloadDone, DownloadFails, AcquireSlot,
     Push, Finishing, Discard
<1>4. CASE DownloadSome(w)
  <2>1. worker' = worker /\ worker[w].pc = "download" BY <1>4 DEF DownloadSome, At
  <2> QED BY <2>1, <1>a
<1>5. CASE BeginUpload(w)
  <2>1. ASSUME NEW j, Put(w, [worker[w] EXCEPT !.pc = "push", !.job = j]) PROVE Drops(w)'
    BY <1>1, <2>1, <1>a, LandsAt
  <2>2. ASSUME FailWith(w, "retry") PROVE Drops(w)'
    BY <1>1, <2>2, <1>a, LandsAt
  <2> QED BY <1>5, <2>1, <2>2 DEF BeginUpload
<1>6. CASE AbortOwn(w) \/ ForgetJob(w)
  <2>1. worker'[w].pc = "failed" \/ worker'[w].pc = "check"
    BY <1>1, <1>6, LandsAt DEF AbortOwn, ForgetJob
  <2> QED BY <2>1, <1>a
<1>7. CASE CheckCancelled(w) \/ Failed(w)
  <2>1. UNCHANGED item BY <1>7 DEF CheckCancelled, Failed, engine
  <2>2. CASE StoppedByCancel(w)
    <3>1. Goto(w, "exit") BY <1>7, <2>2 DEF CheckCancelled, Failed
    <3>2. Lands(w, "exit", worker[w].job, worker[w].discard) BY <1>1, <3>1, Landing
    <3> QED BY <1>2, <1>c, <2>1, <2>2, <3>2
  <2>3. CASE ~StoppedByCancel(w) /\ CheckCancelled(w)
    BY <1>1, <2>3, <1>a, LandsAt DEF CheckCancelled
  <2>4. CASE ~StoppedByCancel(w) /\ Failed(w)
    <3>1. Put(w, [worker[w] EXCEPT !.pc = "settle", !.discard = FALSE])
      BY <2>4 DEF Failed
    <3>2. Lands(w, "settle", worker[w].job, FALSE) BY <1>1, <3>1, Landing
    <3> QED BY <1>b, <3>2
  <2> QED BY <1>7, <2>2, <2>3, <2>4
<1>8. CASE Complete(w)
  <2>1. CASE Stopped(i)
    <3>1. Put(w, [worker[w] EXCEPT !.pc = "exit", !.discard = FALSE])
      BY <1>0, <1>8, <2>1 DEF Complete
    <3>2. Lands(w, "exit", worker[w].job, FALSE) BY <1>1, <3>1, Landing
    <3> QED BY <1>b, <3>2
  <2>2. CASE ~Stopped(i)
    BY <1>0, <1>1, <1>8, <2>2, <1>a, LandsAt DEF Complete
  <2> QED BY <2>1, <2>2
<1>9. CASE PersistComplete(w)
  <2>1. PICK d : Put(w, [worker[w] EXCEPT !.pc = "remove", !.discard = d])
    BY <1>9 DEF PersistComplete
  <2> QED BY <1>1, <2>1, <1>a, LandsAt
<1>10. CASE RollBackComplete(w)
  <2>1. Lands(w, "settle", worker[w].job, FALSE)
    BY <1>1, <1>10, Landing DEF RollBackComplete
  <2> QED BY <1>b, <2>1
<1>11. CASE RemoveOriginal(w)
  <2>1. Over(i) /\ UNCHANGED item
    BY <1>0, <1>1, <1>11 DEF RemoveOriginal, At, Fits, Over, engine
  <2>2. Lands(w, "exit", worker[w].job, worker[w].discard)
    BY <1>1, <1>11, Landing DEF RemoveOriginal
  <2> QED BY <1>c, <2>1, <2>2
<1>12. CASE Settle(w)
  <2>1. worker[w].discard = FALSE BY <1>12 DEF Settle, At, Drops
  <2>2. Lands(w, "exit", worker[w].job, worker[w].discard)
    BY <1>1, <1>12, Landing DEF Settle
  <2>3. Lands(w, "exit", worker[w].job, FALSE) BY <2>1, <2>2 DEF Lands
  <2> QED BY <1>b, <2>3
<1>13. CASE Exit(w)
  <2>1. UNCHANGED item BY <1>13 DEF Exit, engine
  <2>2. CASE worker[w].discard \/ StoppedByCancel(w)
    <3>1. Lands(w, "discard", worker[w].job, worker[w].discard)
      BY <1>1, <1>13, <2>2, Landing DEF Exit
    <3>2. Over(i)
      <4>1. worker[w].discard = FALSE \/ Over(i) BY <1>0, <1>13 DEF Exit, At, Drops
      <4> QED BY <1>2, <2>2, <4>1
    <3> QED BY <1>c, <2>1, <3>1, <3>2
  <2>3. CASE ~(worker[w].discard \/ StoppedByCancel(w))
    BY <1>1, <1>13, <2>3, <1>a, LandsAt DEF Exit
  <2> QED BY <2>2, <2>3
<1>14. CASE Release(w)
  <2>1. worker'[w].pc = "idle" BY <1>1, <1>14 DEF Release, Put, IdleWorker
  <2> QED BY <2>1, <1>a
<1> QED BY <1>3, <1>4, <1>5, <1>6, <1>7, <1>8, <1>9, <1>10, <1>11, <1>12, <1>13, <1>14
        DEF Transfer

\* Nothing turns a row of the queue back into one no scan has seen, and no call
\* reopens a row that a goroutine still serves.
LEMMA NewIsOver ==
  ASSUME TypedInv, Control, CallsInv, [Next]_vars, NEW i \in Items, item[i].state # "new"
  PROVE  item'[i].state # "new"
<1>0. item \in [Items -> ItemType] BY DEF TypedInv, RowsOK
<1>1. ASSUME NEW c \in Clients, Call(c) \/ Serve(c) PROVE item'[i].state # "new"
  BY <1>1, CallStates
<1>2. ASSUME NEW w \in Workers, Transfer(w) PROVE item'[i].state # "new"
  <2>1. TouchesOwnRow(w) /\ (Continues(w) \/ Leaves(w)) BY <1>2, TransferEffect
  <2> QED BY <2>1 DEF TouchesOwnRow, Continues, Leaves
<1>3. ASSUME NEW w \in Workers, NEW k \in Items, Dispatch(w, k) PROVE item'[i].state # "new"
  BY <1>0, <1>3 DEF Dispatch, ItemType
<1>4. ASSUME NEW k \in Items, Enqueue(k) PROVE item'[i].state # "new"
  BY <1>0, <1>4 DEF Enqueue, ItemType
<1>5. CASE \/ \E k \in Items : ApplySettings(k)
           \/ Shutdown \/ StopScheduler \/ UNCHANGED vars
  BY <1>5 DEF ApplySettings, Shutdown, StopScheduler, vars, engine
<1> QED BY <1>1, <1>2, <1>3, <1>4, <1>5 DEF Next

LEMMA OverStays ==
  ASSUME TypedInv, Control, CallsInv, [Next]_vars, NEW i \in Items, Over(i),
         runs[i] # None, ~Transfer(runs[i])
  PROVE  Over(i)'
<1>0. item \in [Items -> ItemType] BY DEF TypedInv, RowsOK
<1>1. CASE item[i].state = "cancelled"
  <2>1. item'[i].state = "cancelled" BY <1>1, CancelSticksStep
  <2> QED BY <2>1 DEF Over
<1>2. CASE item[i].state = "complete"
  <2>1. ASSUME NEW c \in Clients, Call(c) \/ Serve(c) PROVE item'[i].state = "complete"
    BY <1>2, <2>1, CallStates
  <2>2. ASSUME NEW w \in Workers, Transfer(w) PROVE item'[i].state = "complete"
    <3>1. worker[w].row # i
      BY <2>2, TransferServes DEF Control, OneWriter
    <3>2. TouchesOwnRow(w) BY <2>2, TransferEffect
    <3> QED BY <1>2, <3>1, <3>2 DEF TouchesOwnRow
  <2>3. ASSUME NEW w \in Workers, NEW k \in Items, Dispatch(w, k) PROVE item'[i].state = "complete"
    BY <1>0, <1>2, <2>3 DEF Dispatch, Claimable
  <2>4. ASSUME NEW k \in Items, Enqueue(k) PROVE item'[i].state = "complete"
    BY <1>0, <1>2, <2>4 DEF Enqueue
  <2>5. ASSUME \/ \E k \in Items : ApplySettings(k)
               \/ Shutdown \/ StopScheduler \/ UNCHANGED vars
        PROVE  item'[i].state = "complete"
    BY <1>2, <2>5 DEF ApplySettings, Shutdown, StopScheduler, vars, engine
  <2> QED BY <2>1, <2>2, <2>3, <2>4, <2>5 DEF Next, Over
<1> QED BY <1>1, <1>2 DEF Over

\* PruneStaged reads the queue and then the directories: no scan appends a row in
\* between (MCPruneRace shows what happens if one does).
RowBetweenReads == \E k \in Items, c \in Clients : Enqueue(k) /\ client[c].op = "prune"
NoRowBetweenReads == [][~RowBetweenReads]_vars

Sweeps == {"clear", "prune", "sweep"}
LEMMA SweptIsGone ==
  ASSUME TypedInv, BytesInv, [Next]_vars, NEW c \in Clients, NEW i \in Items,
         client'[c].op \in Sweeps, i \in client'[c].todo
  PROVE  \/ client[c].op = client'[c].op /\ i \in client[c].todo
         \/ i \notin queue' /\ (item'[i].state # "new" \/ client'[c].op = "prune")
<1>0. client \in [Clients -> ClientType] BY DEF TypedInv, CallsOK
<1>1. ASSUME client'[c] = client[c] PROVE client[c].op = client'[c].op /\ i \in client[c].todo
  BY <1>1
<1>2. ASSUME NEW d \in Clients, d # c, Call(d) \/ Serve(d) PROVE client'[c] = client[c]
  <2>1. CASE Call(d) \/ ListDirs(d)
    <3>1. \E op, todo, held : Begin(d, op, todo, held)
      BY <2>1 DEF Call, Cancel, Retry, DeleteStaged, ClearFinished, Prune, Cleanup, ListDirs
    <3> QED BY <1>2, <3>1 DEF Begin
  <2>4. ASSUME NEW v, client' = [client EXCEPT ![d] = v] PROVE client'[c] = client[c]
    BY <1>0, <1>2, <2>4
  <2>2. CASE CancelReap(d) \/ Return(d) \/ \E k \in Items : RetryStale(d, k)
    <3>1. \E v : client' = [client EXCEPT ![d] = v]
      BY <2>2 DEF CancelReap, Return, RetryStale, Finish
    <3> QED BY <2>4, <3>1
  <2>3. ASSUME NEW k \in Items, \/ CancelDiscard(d, k) \/ CancelInterrupt(d, k)
                                \/ RemoveDir(d, k) \/ CleanupOne(d, k)
        PROVE  client'[c] = client[c]
    <3>1. \E v : client' = [client EXCEPT ![d] = v]
      BY <2>3 DEF CancelDiscard, CancelInterrupt, RemoveDir, CleanupOne
    <3> QED BY <2>4, <3>1
  <2> QED BY <1>2, <2>1, <2>2, <2>3 DEF Serve
<1>3. ASSUME NEW ids \in SUBSET Items, ClearFinished(c, ids)
      PROVE  i \notin queue' /\ item'[i].state # "new"
  <2> DEFINE hit == {k \in ids \cap queue :
                       item[k].state \in {"complete", "failed", "cancelled"} /\ Free(k)}
  <2>1. Begin(c, "clear", hit, {}) /\ queue' = queue \ hit /\ item' = item
    BY <1>3 DEF ClearFinished
  <2>2. i \in hit
    <3> HIDE DEF hit
    <3> QED BY <1>0, <2>1 DEF Begin
  <2> QED BY <2>1, <2>2
<1>4. ASSUME Prune(c) PROVE i \notin queue' /\ client'[c].op = "prune"
  <2>1. Begin(c, "prune", Items \ queue, {}) /\ queue' = queue
    BY <1>4 DEF Prune, engine
  <2> QED BY <1>0, <2>1 DEF Begin
<1>5. ASSUME ListDirs(c) PROVE i \notin queue' /\ item'[i].state # "new"
  <2> DEFINE todo == {k \in client[c].todo : staged[k] # "none"}
  <2>1. /\ client[c].op = "prune" /\ Begin(c, "sweep", todo, {})
        /\ queue' = queue /\ item' = item
    BY <1>5 DEF ListDirs, engine
  <2>2. i \in todo
    <3> HIDE DEF todo
    <3> QED BY <1>0, <2>1 DEF Begin
  <2>3. i \notin queue /\ item[i].state # "new" BY <2>1, <2>2 DEF BytesInv, Gone
  <2> QED BY <2>1, <2>3
<1>6. ASSUME NEW op, NEW todo, NEW held, op \notin Sweeps, Begin(c, op, todo, held) PROVE FALSE
  BY <1>0, <1>6 DEF Begin
<1>7. ASSUME \/ Cleanup(c)
             \/ \E ids \in SUBSET Items : Cancel(c, ids) \/ Retry(c, ids) \/ DeleteStaged(c, ids)
      PROVE  FALSE
  <2>1. \E op, todo, held : op \notin Sweeps /\ Begin(c, op, todo, held)
    BY <1>7 DEF Cleanup, Cancel, Retry, DeleteStaged, Sweeps
  <2> QED BY <2>1, <1>6
<1>8. ASSUME Return(c) PROVE FALSE
  BY <1>0, <1>8 DEF Return, IdleClient, Sweeps
<1>9. ASSUME CancelReap(c) \/ \E k \in Items : RetryStale(c, k) \/ CancelDiscard(c, k) \/ CancelInterrupt(c, k)
      PROVE  FALSE
  <2>1. client[c].op \notin Sweeps
    BY <1>9 DEF CancelReap, RetryStale, CancelDiscard, CancelInterrupt, Sweeps
  <2>2. ASSUME NEW k, Finish(c, k) PROVE client'[c].op = client[c].op
    BY <1>0, <2>2 DEF Finish, ClientType
  <2>3. ASSUME NEW k, client' = [client EXCEPT ![c].cur = k] PROVE client'[c].op = client[c].op
    BY <1>0, <2>3 DEF ClientType
  <2>4. \E k : Finish(c, k) \/ client' = [client EXCEPT ![c].cur = k]
    BY <1>9 DEF CancelReap, RetryStale, CancelDiscard, CancelInterrupt
  <2> QED BY <2>1, <2>2, <2>3, <2>4
<1>10. ASSUME NEW k \in Items, RemoveDir(c, k) \/ CleanupOne(c, k)
       PROVE  client[c].op = client'[c].op /\ i \in client[c].todo
  BY <1>0, <1>10 DEF RemoveDir, CleanupOne, ClientType
<1>11. ASSUME NEW d \in Clients, Call(d) \/ Serve(d)
       PROVE  \/ client[c].op = client'[c].op /\ i \in client[c].todo
              \/ i \notin queue' /\ (item'[i].state # "new" \/ client'[c].op = "prune")
  <2>1. CASE d = c
    BY <1>3, <1>4, <1>5, <1>7, <1>8, <1>9, <1>10, <1>11, <2>1 DEF Call, Serve
  <2> QED BY <1>1, <1>2, <1>11, <2>1
<1>12. ASSUME NEW w \in Workers, Transfer(w) PROVE client'[c] = client[c]
  BY <1>12 DEF Transfer, Watch, StageEnter, DownloadSome, DownloadDone, DownloadFails, AcquireSlot,
     BeginUpload, Push, AbortOwn, ForgetJob, CheckCancelled, Finishing, Complete, PersistComplete,
     RollBackComplete, RemoveOriginal, Failed, Settle, Exit, Discard, Release
<1>13. ASSUME \/ \E w \in Workers, k \in Items : Dispatch(w, k)
              \/ \E k \in Items : Enqueue(k) \/ ApplySettings(k)
              \/ Shutdown \/ StopScheduler \/ UNCHANGED vars
       PROVE  client'[c] = client[c]
  BY <1>13 DEF Dispatch, Enqueue, ApplySettings, Shutdown, StopScheduler, vars
<1> QED BY <1>1, <1>11, <1>12, <1>13 DEF Next

\* Bytes come only to a row that is served.
LEMMA NewHasNoBytes ==
  ASSUME TypedInv, Control, CallsInv, BytesInv, [Next]_vars, NEW i \in Items,
         item'[i].state = "new"
  PROVE  staged'[i] = "none"
<1>0. staged \in [Items -> {"none", "partial", "full"}] BY DEF TypedInv, OutsideOK
<1>1. item[i].state = "new" BY NewIsOver
<1>2. staged[i] = "none" BY <1>1 DEF BytesInv
<1>3. ASSUME NEW w \in Workers, Transfer(w) PROVE staged'[i] = "none"
  <2>1. CASE DownloadSome(w) \/ DownloadDone(w)
    <3>1. Serving(w) /\ Fits(w)
      BY <1>3, TransferServes DEF Control, RowFollowsWorker
    <3>2. worker[w].row # i BY <1>1, <3>1 DEF Fits
    <3> QED BY <1>0, <1>2, <2>1, <3>2 DEF DownloadSome, DownloadDone
  <2>2. CASE PersistComplete(w) \/ Settle(w)
    <3>1. \E gone : staged' = Wipe(gone) BY <2>2 DEF PersistComplete, Settle
    <3> QED BY <1>2, <3>1 DEF Wipe
  <2>3. CASE Discard(w) BY <1>0, <1>2, <2>3 DEF Discard
  <2>4. CASE ~(DownloadSome(w) \/ DownloadDone(w) \/ PersistComplete(w) \/ Settle(w) \/ Discard(w))
    <3>1. UNCHANGED staged
      BY <1>3, <2>4 DEF Transfer, Watch, StageEnter, DownloadFails, AcquireSlot, BeginUpload, Push,
         AbortOwn, ForgetJob, CheckCancelled, Finishing, Complete, RollBackComplete,
         RemoveOriginal, Failed, Exit, Release, outside
    <3> QED BY <1>2, <3>1
  <2> QED BY <2>1, <2>2, <2>3, <2>4
<1>4. ASSUME NEW c \in Clients, NEW k \in Items, CancelDiscard(c, k) \/ RemoveDir(c, k)
      PROVE  staged'[i] = "none"
  BY <1>0, <1>2, <1>4 DEF CancelDiscard, RemoveDir
<1>5. ASSUME NEW c \in Clients, Call(c) \/ Serve(c),
             ~\E k \in Items : CancelDiscard(c, k) \/ RemoveDir(c, k)
      PROVE  staged'[i] = "none"
  <2>1. UNCHANGED staged
    BY <1>5 DEF Call, Cancel, Retry, DeleteStaged, ClearFinished, Prune, Cleanup, Serve, CancelReap,
       ListDirs, Return, CancelInterrupt, RetryStale, CleanupOne, outside
  <2> QED BY <1>2, <2>1
<1>6. CASE \/ \E w \in Workers, k \in Items : Dispatch(w, k)
           \/ \E k \in Items : Enqueue(k) \/ ApplySettings(k)
           \/ Shutdown \/ StopScheduler \/ UNCHANGED vars
  BY <1>2, <1>6 DEF Dispatch, Enqueue, ApplySettings, Shutdown, StopScheduler, vars, outside
<1> QED BY <1>3, <1>4, <1>5, <1>6 DEF Next

LEMMA BytesStep ==
  TypedInv /\ Control /\ CallsInv /\ BytesInv /\ [Next]_vars /\ [~RowBetweenReads]_vars =>
    BytesInv'
<1> SUFFICES ASSUME TypedInv, Control, CallsInv, BytesInv, [Next]_vars, [~RowBetweenReads]_vars
             PROVE  BytesInv'
  OBVIOUS
<1>1. ASSUME NEW w \in Workers PROVE Drops(w)'
  <2>0. Drops(w) BY DEF BytesInv
  <2>1. CASE Transfer(w) BY <2>0, <2>1, TransferDrops
  <2>2. CASE ~Transfer(w) /\ worker'[w] = worker[w]
    <3>1. CASE ~Serving(w) BY <2>2, <3>1 DEF Drops, Serving
    <3>2. CASE Serving(w)
      <4>0. PICK i : i = worker[w].row OBVIOUS
      <4>1. i \in Items /\ runs[i] = w /\ w # None
        BY <3>2, <4>0, NoneAssumption DEF TypedInv, WorkersOK, Control, OneWriter
      <4>2. Over(i) => Over(i)' BY <2>2, <4>1, OverStays
      <4> QED BY <2>0, <2>2, <4>0, <4>2 DEF Drops, Over
    <3> QED BY <3>1, <3>2
  <2>3. ASSUME worker'[w] # worker[w], ~Transfer(w) PROVE \E k \in Items : Dispatch(w, k)
    <3>1. ASSUME NEW x \in Workers, Transfer(x), x # w PROVE worker'[w] = worker[w]
      BY <3>1, TransferEffect DEF TouchesOwnRow
    <3>2. ASSUME NEW x \in Workers, NEW k \in Items, Dispatch(x, k), x # w PROVE worker'[w] = worker[w]
      BY <3>2 DEF Dispatch, Put
    <3>3. ASSUME NEW c \in Clients, Call(c) \/ Serve(c) PROVE worker' = worker
      BY <3>3 DEF Call, Cancel, Retry, DeleteStaged, ClearFinished, Prune, Cleanup, Serve, CancelReap,
         ListDirs, Return, CancelDiscard, CancelInterrupt, RetryStale, RemoveDir, CleanupOne
    <3>4. ASSUME \/ \E k \in Items : Enqueue(k) \/ ApplySettings(k)
                 \/ Shutdown \/ StopScheduler \/ UNCHANGED vars
          PROVE  worker' = worker
      BY <3>4 DEF Enqueue, ApplySettings, Shutdown, StopScheduler, vars
    <3> QED BY <2>3, <3>1, <3>2, <3>3, <3>4 DEF Next
  <2>4. ASSUME NEW k \in Items, Dispatch(w, k) PROVE Drops(w)'
    <3>1. worker'[w].pc = "watch"
      BY <2>4 DEF Dispatch, Put, IdleWorker, TypedInv, WorkersOK
    <3> QED BY <3>1 DEF Drops
  <2> QED BY <2>1, <2>2, <2>3, <2>4
<1>2. ASSUME NEW c \in Clients, NEW i \in Items PROVE Gone(c, i)'
  <2>1. queue' \subseteq queue \/ \E k \in Items : Enqueue(k)
    <3>1. ASSUME NEW w \in Workers, Transfer(w) PROVE queue' \subseteq queue
      BY <3>1, TransferEffect DEF TouchesOwnRow
    <3>2. ASSUME NEW d \in Clients, Call(d) \/ Serve(d) PROVE queue' \subseteq queue
      BY <3>2 DEF Call, Cancel, Retry, DeleteStaged, ClearFinished, Prune, Cleanup, Serve,
         CancelReap, ListDirs, Return, CancelDiscard, CancelInterrupt, RetryStale, RemoveDir,
         CleanupOne, engine
    <3>3. ASSUME \/ \E w \in Workers, k \in Items : Dispatch(w, k)
                 \/ \E k \in Items : ApplySettings(k)
                 \/ Shutdown \/ StopScheduler \/ UNCHANGED vars
          PROVE  queue' \subseteq queue
      BY <3>3 DEF Dispatch, ApplySettings, Shutdown, StopScheduler, vars, engine
    <3> QED BY <3>1, <3>2, <3>3 DEF Next
  <2>2. ASSUME i \notin queue, item[i].state # "new"
        PROVE  i \notin queue' /\ item'[i].state # "new"
    <3>1. item'[i].state # "new" BY <2>2, NewIsOver
    <3>2. ASSUME NEW k \in Items, Enqueue(k) PROVE i \notin queue'
      BY <2>2, <3>2 DEF Enqueue
    <3> QED BY <2>1, <2>2, <3>1, <3>2
  <2>3. ASSUME i \notin queue, client[c].op = "prune" PROVE i \notin queue'
    <3>1. ASSUME NEW k \in Items, Enqueue(k) PROVE i \notin queue'
      <4>1. RowBetweenReads BY <2>3, <3>1 DEF RowBetweenReads
      <4>2. UNCHANGED vars BY <4>1
      <4> QED BY <2>3, <4>2 DEF vars, engine
    <3> QED BY <2>1, <2>3, <3>1
  <2>4. ASSUME client'[c].op \in Sweeps, i \in client'[c].todo
        PROVE  i \notin queue' /\ (item'[i].state # "new" \/ client'[c].op = "prune")
    <3>1. CASE client[c].op = client'[c].op /\ i \in client[c].todo
      <4>1. i \notin queue /\ (client[c].op # "prune" => item[i].state # "new")
        BY <2>4, <3>1 DEF BytesInv, Gone, Sweeps
      <4> QED BY <2>2, <2>3, <3>1, <4>1
    <3> QED BY <2>4, <3>1, SweptIsGone
  <2> QED BY <2>4 DEF Gone, Sweeps
<1>3. \A i \in Items : item'[i].state = "new" => staged'[i] = "none"
  BY NewHasNoBytes
<1> QED BY <1>1, <1>2, <1>3 DEF BytesInv

LEMMA BytesInit == Init => BytesInv
<1> SUFFICES ASSUME Init PROVE BytesInv OBVIOUS
<1>1. \A w \in Workers : Drops(w) BY DEF Init, IdleWorker, Drops
<1>2. \A c \in Clients, i \in Items : Gone(c, i) BY DEF Init, IdleClient, Gone
<1>3. \A i \in Items : item[i].state = "new" => staged[i] = "none"
  <2>1. PICK left \in (Items \ NewItems) \cup {None}, kept \in SUBSET (Items \ NewItems), j \in Jobs :
          Loaded(left, kept, j)
    BY DEF Init
  <2> QED BY <2>1 DEF Loaded, Row
<1> QED BY <1>1, <1>2, <1>3 DEF BytesInv

LEMMA BytesInvariant ==
  Spec /\ NoRowBetweenReads => [](TypedInv /\ Control /\ CallsInv /\ BytesInv)
<1>1. TypedInv /\ Control /\ CallsInv /\ BytesInv /\ [Next]_vars /\ [~RowBetweenReads]_vars =>
        BytesInv'
  BY BytesStep
<1> QED BY <1>1, BytesInit, CallsInvariant, PTL DEF Spec, NoRowBetweenReads

LEMMA BytesGoForReason ==
  ASSUME TypedInv, Control, CallsInv, BytesInv, [Next]_vars, NEW i \in Items,
         staged[i] # "none", staged'[i] = "none"
  PROVE  Forgone(i)
<1>0. staged \in [Items -> {"none", "partial", "full"}] BY DEF TypedInv, OutsideOK
<1>a. ASSUME UNCHANGED staged PROVE FALSE BY <1>a
<1>b. Over(i) => Forgone(i) BY DEF Over, Forgone
<1>1. ASSUME NEW w \in Workers, Transfer(w) PROVE Forgone(i)
  <2>0. PICK r : r = worker[w].row OBVIOUS
  <2>1. /\ r \in Items /\ Fits(w) /\ Serving(w) /\ Drops(w)
    BY <1>1, <2>0, TransferServes
    DEF TypedInv, WorkersOK, Control, RowFollowsWorker, BytesInv
  <2>2. CASE DownloadSome(w) \/ DownloadDone(w)
    BY <1>0, <2>2 DEF DownloadSome, DownloadDone
  <2>3. CASE PersistComplete(w)
    <3>1. PICK gone : /\ staged' = Wipe(gone \cup {r}) \/ staged' = Wipe(gone)
                      /\ gone \cap queue' = {}
      BY <2>0, <2>3 DEF PersistComplete
    <3>2. i \in gone \/ i = r BY <3>1 DEF Wipe
    <3>3. item[r].state = "complete" BY <2>0, <2>1, <2>3 DEF PersistComplete, At, Fits
    <3> QED BY <3>1, <3>2, <3>3 DEF Forgone
  <2>4. CASE Settle(w)
    <3>1. PICK old : staged' = Wipe(old) /\ queue' = queue \ old BY <2>4 DEF Settle
    <3>2. i \in old BY <3>1 DEF Wipe
    <3> QED BY <3>1, <3>2 DEF Forgone
  <2>5. CASE Discard(w)
    <3>1. i = r BY <1>0, <2>0, <2>5 DEF Discard
    <3>2. Over(r) BY <2>0, <2>1, <2>5 DEF Discard, At, Drops
    <3> QED BY <1>b, <3>1, <3>2
  <2>6. CASE ~(DownloadSome(w) \/ DownloadDone(w) \/ PersistComplete(w) \/ Settle(w) \/ Discard(w))
    <3>1. UNCHANGED staged
      BY <1>1, <2>6 DEF Transfer, Watch, StageEnter, DownloadFails, AcquireSlot, BeginUpload, Push,
         AbortOwn, ForgetJob, CheckCancelled, Finishing, Complete, RollBackComplete,
         RemoveOriginal, Failed, Exit, Release, outside
    <3> QED BY <1>a, <3>1
  <2> QED BY <2>2, <2>3, <2>4, <2>5, <2>6
<1>2. ASSUME NEW c \in Clients, NEW k \in Items, CancelDiscard(c, k) PROVE Forgone(i)
  <2>1. i = k BY <1>0, <1>2 DEF CancelDiscard
  <2>2. client[c].op = "cancel" /\ k \in Sole(client[c]) BY <1>2 DEF CancelDiscard, Sole
  <2>3. item[k].state = "cancelled" BY <2>2 DEF CallsInv, HeldInv, Quiet
  <2> QED BY <2>1, <2>3 DEF Forgone
<1>3. ASSUME NEW c \in Clients, NEW k \in Items, RemoveDir(c, k) PROVE Forgone(i)
  <2>1. i = k /\ i \in client[c].todo /\ queue' = queue
    BY <1>0, <1>3 DEF RemoveDir, engine
  <2>2. CASE client[c].op = "deleteStaged" BY <2>1, <2>2 DEF Forgone
  <2>3. CASE client[c].op \in {"clear", "sweep"}
    BY <2>1, <2>3 DEF BytesInv, Gone, Forgone
  <2> QED BY <1>3, <2>2, <2>3 DEF RemoveDir
<1>4. ASSUME NEW c \in Clients, Call(c) \/ Serve(c),
             ~\E k \in Items : CancelDiscard(c, k) \/ RemoveDir(c, k)
      PROVE  Forgone(i)
  <2>1. UNCHANGED staged
    BY <1>4 DEF Call, Cancel, Retry, DeleteStaged, ClearFinished, Prune, Cleanup, Serve, CancelReap,
       ListDirs, Return, CancelInterrupt, RetryStale, CleanupOne, outside
  <2> QED BY <1>a, <2>1
<1>5. CASE \/ \E w \in Workers, k \in Items : Dispatch(w, k)
           \/ \E k \in Items : Enqueue(k) \/ ApplySettings(k)
           \/ Shutdown \/ StopScheduler \/ UNCHANGED vars
  BY <1>5, <1>a DEF Dispatch, Enqueue, ApplySettings, Shutdown, StopScheduler, vars, outside
<1> QED BY <1>1, <1>2, <1>3, <1>4, <1>5 DEF Next

\* No failure, roll-back, trimming or call takes the bytes of a row that still
\* needs them: only a cancelled, delivered or dropped row, or one somebody asked to
\* delete, loses them.  In a behaviour in which no scan appends a row between the two
\* reads of a prune.
THEOREM BytesKept == Spec /\ NoRowBetweenReads => FailureKeepsBytes
<1>1. TypedInv /\ Control /\ CallsInv /\ BytesInv /\ [Next]_vars =>
        \A i \in Items : staged[i] # "none" /\ staged'[i] = "none" => Forgone(i)
  BY BytesGoForReason
<1> QED BY <1>1, BytesInvariant, PTL DEF Spec, FailureKeepsBytes
=============================================================================
