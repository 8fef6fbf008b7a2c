------------------------- MODULE ChunkDownloadProofs -------------------------
(***************************************************************************)
(* What holds of the chunked download for any number of chunks, workers    *)
(* and faults, as long as the drive reports the hash of a file that may be *)
(* replaced: the sidecar never claims bytes the device does not have.      *)
(* And, hashes or not: an error keeps what was received (ProgressInv).     *)
(* The inductive invariant follows a byte on its way to the sidecar: from  *)
(* the worker that wrote it into the page cache (WorkerInv), through the   *)
(* offsets and the snapshot of the flusher (FlusherInv), to the record in  *)
(* memory (RecordInv) and the sidecar (SidecarInv).                        *)
(***************************************************************************)
EXTENDS ChunkDownload, TLAPS

\* What doc claims is on the device, and nothing newer hides it.
Durable(doc) == \A c \in Chunk, u \in Unit :
                  Claims(doc, c, u) => device[c][u] = source /\ page[c][u] = source

\* The first n units of chunk c are in the page cache; on the device too.
Read(c, n) == \A u \in Unit : u < n => page[c][u] = source
Stored(c, n) == \A u \in Unit : u < n => device[c][u] = source /\ page[c][u] = source

SidecarInv ==
  /\ place = "none" => sidecar = NoDoc
  /\ sidecar # NoDoc => sidecar.hash # 0 /\ sidecar.hash <= source
  /\ sidecar # NoDoc /\ sidecar.hash = source /\ place = "part" => Durable(sidecar)

RecordInv ==
  attempt.pc \in {"save", "pool", "last", "flushed", "rename"} =>
    place = "part" /\ record.hash = source /\ Durable(record)

\* Behind a worker's position and a flusher's offsets there is data.
Backed(r) ==
  /\ r.pc = "fetch" => Read(r.chunk, r.off)
  /\ r.pc \in {"forget", "sync"} => Read(r.chunk, Units)
  /\ r.pc = "mark" => Stored(r.chunk, Units)

FlushBacked(f) == \A c \in Chunk :
  /\ Read(c, f.offsets[c])
  /\ f.pc = "sync" => Read(c, f.snapshot[c])
  /\ f.pc = "write" => Stored(c, f.snapshot[c])

WorkerInv == attempt.pc = "pool" => \A w \in Workers : Backed(worker[w])

FlusherInv ==
  /\ flusher.pc # "idle" => attempt.pc \in {"pool", "last", "flushed"}
  /\ attempt.pc \in {"pool", "last", "flushed"} => FlushBacked(flusher)

DurableInv == TypeOK /\ SidecarInv /\ RecordInv /\ WorkerInv /\ FlusherInv

----------------------------------------------------------------------------
(* Types. *)

LEMMA ConstantTypes ==
  /\ Chunk \subseteq Nat /\ Unit \subseteq Nat /\ 0 \in Chunk /\ 0 \in Unit
  /\ Units \in Nat /\ Units # 0 /\ Retry \in Nat /\ Retry # 0 /\ 1 \in Revision
  /\ Revision \subseteq Nat /\ 0 \notin Revision /\ MaxFaults \in Nat
  /\ Unit \subseteq 0..Units /\ \A n \in 0..Units : n < Units => n \in Unit /\ n + 1 \in 0..Units
BY SizeAssumption, BoundAssumption DEF Chunk, Unit, Revision

LEMMA EmptyTypes ==
  /\ Zeros \in Content
  /\ NoOffsets \in Offsets /\ NoOffsets \in [Chunk -> Unit]
  /\ \A hash \in Revision \cup {0} : EmptyDoc(hash) \in Doc
BY ConstantTypes DEF Zeros, Content, NoOffsets, Offsets, EmptyDoc, Doc

\* The records the code derives from a record are records.
LEMMA DocTypes ==
  ASSUME NEW doc \in Doc
  PROVE  /\ \A hash \in Revision \cup {0} : [doc EXCEPT !.hash = hash] \in Doc
         /\ \A c \in Chunk : Marked(doc, c) \in Doc
         /\ \A offsets \in Offsets : Partials(doc, offsets) \in Doc
         /\ doc.partial \in Offsets /\ doc.partial \in [Chunk -> Unit]
         /\ Pending(doc) \subseteq Chunk
BY ConstantTypes DEF Doc, Marked, Partials, Offsets, Pending

LEMMA FieldTypes ==
  /\ \A r \in Fetcher : r.chunk \in Chunk /\ r.off \in 0..Units /\ r.tries \in 0..(Retry - 1)
  /\ \A r \in FlushState : r.offsets \in Offsets /\ r.snapshot \in Offsets /\ r.changed \in BOOLEAN
  /\ \A r \in AttemptState : r.todo \subseteq Chunk /\ r.cancelled \in BOOLEAN
BY DEF Fetcher, FlushState, AttemptState

LEMMA InitialStates ==
  NoFlush \in FlushState /\ NoAttempt \in AttemptState /\ IdleWorker \in Fetcher
<1> USE ConstantTypes, EmptyTypes
<1>1. NoFlush \in FlushState
  BY DEF NoFlush, FlushState
<1>2. NoAttempt \in AttemptState
  BY DEF NoAttempt, AttemptState
<1>3. IdleWorker \in Fetcher
  BY DEF IdleWorker, Fetcher
<1> QED
  BY <1>1, <1>2, <1>3

LEMMA FetcherTypes ==
  ASSUME NEW r \in Fetcher,
         NEW p \in {"take", "try", "fetch", "forget", "sync", "mark", "end"}
  PROVE  /\ [r EXCEPT !.pc = p] \in Fetcher
         /\ \A n \in 0..Units : [r EXCEPT !.pc = p, !.off = n] \in Fetcher
         /\ \A n \in 0..Units : [r EXCEPT !.off = n, !.pc = p] \in Fetcher
         /\ \A n \in 0..(Retry - 1) : [r EXCEPT !.pc = p, !.tries = n] \in Fetcher
BY DEF Fetcher

LEMMA FetcherFields ==
  ASSUME NEW r \in Fetcher, NEW p
  PROVE  /\ [r EXCEPT !.pc = p].pc = p /\ [r EXCEPT !.pc = p].chunk = r.chunk
         /\ \A n : /\ [r EXCEPT !.pc = p, !.off = n].pc = p
                   /\ [r EXCEPT !.pc = p, !.off = n].off = n
                   /\ [r EXCEPT !.pc = p, !.off = n].chunk = r.chunk
                   /\ [r EXCEPT !.off = n, !.pc = p].pc = p
                   /\ [r EXCEPT !.off = n, !.pc = p].off = n
                   /\ [r EXCEPT !.off = n, !.pc = p].chunk = r.chunk
                   /\ [r EXCEPT !.pc = p, !.tries = n].pc = p
BY DEF Fetcher

LEMMA FlushTypes ==
  ASSUME NEW r \in FlushState, NEW b \in BOOLEAN, NEW p \in {"idle", "sync", "write"}
  PROVE  /\ [r EXCEPT !.pc = p] \in FlushState
         /\ \A offs \in Offsets :
              [r EXCEPT !.pc = p, !.changed = b, !.snapshot = offs] \in FlushState
         /\ \A offs \in Offsets :
              [r EXCEPT !.pc = p, !.snapshot = offs, !.changed = b] \in FlushState
         /\ \A c \in Chunk, n \in 0..Units :
              [r EXCEPT !.offsets[c] = n, !.changed = b] \in FlushState
<1>1. \A c \in Chunk, n \in 0..Units : [r.offsets EXCEPT ![c] = n] \in Offsets
  BY FieldTypes DEF Offsets
<1> QED
  BY <1>1 DEF FlushState

LEMMA AttemptTypes ==
  ASSUME NEW r \in AttemptState
  PROVE  /\ [r EXCEPT !.cancelled = TRUE] \in AttemptState
         /\ \A p \in {"idle", "save", "pool", "last", "flushed", "rename", "remove"} :
              [r EXCEPT !.pc = p] \in AttemptState
         /\ \A t \in SUBSET Chunk : /\ [r EXCEPT !.todo = t] \in AttemptState
                                   /\ [r EXCEPT !.pc = "pool", !.todo = t] \in AttemptState
BY DEF AttemptState

\* No step of a worker, of the flusher or from outside leaves the types of ChunkDownload.
THEOREM DownloadTypes == Spec => []TypeOK
<1> USE ConstantTypes, EmptyTypes, NoDocAssumption, InitialStates, FieldTypes
<1>1. Init => TypeOK
  BY DEF Init, TypeOK
<1>2. TypeOK /\ [Next]_vars => TypeOK'
  <2> SUFFICES ASSUME TypeOK, [Next]_vars PROVE TypeOK'
    OBVIOUS
  <2> USE DEF TypeOK, disk
  <2>f. \A kind : Fault(kind) => faults' \in 0..MaxFaults
    BY DEF Fault
  <2>w. ASSUME NEW doc \in Doc, Write(doc)
        PROVE  sidecar' \in Doc \cup {NoDoc} /\ faults' \in 0..MaxFaults
    BY <2>w, <2>f DEF Write
  <2>p. ASSUME NEW w \in Workers, NEW r \in Fetcher, Put(w, r)
        PROVE  worker' \in [Workers -> Fetcher]
    BY <2>p DEF Put
  <2>g. ASSUME NEW w \in Workers, NEW p \in {"take", "sync", "mark", "end"}, Goto(w, p)
        PROVE  worker' \in [Workers -> Fetcher]
    <3>1. [worker[w] EXCEPT !.pc = p] \in Fetcher
      BY FetcherTypes
    <3> QED
      BY <2>g, <2>p, <3>1 DEF Goto
  <2>u. ASSUME NEW w \in Workers, GiveUp(w)
        PROVE  worker' \in [Workers -> Fetcher] /\ attempt' \in AttemptState
    BY <2>u, <2>g, AttemptTypes DEF GiveUp
  <2>e. ASSUME NEW b \in BOOLEAN, FlushEnd(b)
        PROVE  flusher' \in FlushState
    BY <2>e, FlushTypes DEF FlushEnd
  <2>1. CASE Reuse
    BY <2>1 DEF Reuse
  <2>2. CASE Resume
    <3>1. PICK hash \in Revision \cup {0} :
            sidecar \in Doc /\ record' = [sidecar EXCEPT !.hash = hash]
      BY <2>2 DEF Resume, Reported, Matches
    <3>2. record' \in Doc
      BY <3>1, DocTypes
    <3> QED
      BY <2>2, <3>2, AttemptTypes DEF Resume
  <2>3. CASE StartOver
    BY <2>3, AttemptTypes DEF StartOver, Reported
  <2>4. CASE OpenPool
    <3>1. record.partial \in Offsets /\ Pending(record) \in SUBSET Chunk
      BY DocTypes
    <3>2. [NoFlush EXCEPT !.offsets = record.partial] \in FlushState
      BY <3>1 DEF NoFlush, FlushState
    <3>3. [w \in Workers |-> [IdleWorker EXCEPT !.pc = "take"]] \in [Workers -> Fetcher]
      BY FetcherTypes
    <3>4. attempt' \in AttemptState
      <4>1. /\ [attempt EXCEPT !.pc = "rename"] \in AttemptState
            /\ [attempt EXCEPT !.pc = "pool", !.todo = Pending(record)] \in AttemptState
        BY <3>1, AttemptTypes
      <4> QED
        BY <2>4, <4>1 DEF OpenPool
    <3>5. sidecar' \in Doc \cup {NoDoc} /\ faults' \in 0..MaxFaults
      BY <2>4, <2>w DEF OpenPool
    <3> QED
      BY <2>4, <3>2, <3>3, <3>4, <3>5 DEF OpenPool
  <2>5. CASE Drain
    BY <2>5, AttemptTypes DEF Drain
  <2>6. CASE Leave
    BY <2>6, AttemptTypes DEF Leave
  <2>7. CASE Rename
    BY <2>7, AttemptTypes DEF Rename
  <2>8. CASE RemoveSidecar
    BY <2>8 DEF RemoveSidecar
  <2>9. ASSUME NEW w \in Workers, Take(w) PROVE TypeOK'
    <3>1. attempt' \in AttemptState
      <4>1. \A c \in Chunk : attempt.todo \ {c} \in SUBSET Chunk
        OBVIOUS
      <4>2. \A c \in Chunk : [attempt EXCEPT !.todo = attempt.todo \ {c}] \in AttemptState
        BY <4>1, AttemptTypes
      <4>3. attempt.todo \subseteq Chunk
        OBVIOUS
      <4> QED
        BY <2>9, <4>2, <4>3 DEF Take
    <3>2. \A c \in Chunk : [pc |-> "try", chunk |-> c, tries |-> 0, off |-> 0] \in Fetcher
      BY DEF Fetcher
    <3>3. worker' \in [Workers -> Fetcher]
      BY <2>9, <2>p, <2>g, <3>2 DEF Take
    <3> QED
      BY <2>9, <3>1, <3>3 DEF Take
  <2>10. ASSUME NEW w \in Workers, Try(w) PROVE TypeOK'
    <3>1. record.partial[worker[w].chunk] \in 0..Units
      BY DocTypes DEF Offsets
    <3>2. worker' \in [Workers -> Fetcher] /\ attempt' \in AttemptState
      BY <2>10, <2>u, <2>p, <3>1, FetcherTypes DEF Try
    <3> QED
      BY <2>10, <3>2 DEF Try
  <2>11. ASSUME NEW w \in Workers, Receive(w) PROVE TypeOK'
    <3>1. worker[w].off \in Unit /\ worker[w].off + 1 \in 0..Units /\ worker[w].chunk \in Chunk
      BY <2>11 DEF Receive
    <3>2. page' \in Content
      BY <2>11, <3>1 DEF Receive, Content
    <3>3. flusher' \in FlushState
      BY <2>11, <3>1, FlushTypes DEF Receive
    <3>4. worker' \in [Workers -> Fetcher]
      BY <2>11, <3>1, <2>p, FetcherTypes DEF Receive
    <3> QED
      BY <2>11, <3>2, <3>3, <3>4 DEF Receive
  <2>12. ASSUME NEW w \in Workers, Break(w) PROVE TypeOK'
    <3>1. ASSUME worker[w].tries + 1 < Retry
          PROVE  [worker[w] EXCEPT !.pc = "try", !.tries = worker[w].tries + 1] \in Fetcher
      <4>1. worker[w].tries + 1 \in 0..(Retry - 1)
        BY <3>1
      <4> QED
        BY <4>1, FetcherTypes
    <3>2. worker' \in [Workers -> Fetcher] /\ attempt' \in AttemptState
      BY <2>12, <2>u, <2>p, <3>1 DEF Break
    <3> QED
      BY <2>12, <2>f, <3>2 DEF Break
  <2>13. ASSUME NEW w \in Workers, Forget(w) PROVE TypeOK'
    <3>1. flusher' \in FlushState
      BY <2>13, FlushTypes DEF Forget
    <3> QED
      BY <2>13, <2>g, <3>1 DEF Forget
  <2>14. ASSUME NEW w \in Workers, SyncChunk(w) PROVE TypeOK'
    BY <2>14, <2>f, <2>g, <2>u DEF SyncChunk
  <2>15. ASSUME NEW w \in Workers, MarkDone(w) PROVE TypeOK'
    <3>1. Marked(record, worker[w].chunk) \in Doc
      BY DocTypes
    <3> QED
      BY <2>15, <2>g, <2>w, <3>1 DEF MarkDone
  <2>16. CASE FlushStart
    BY <2>16, FlushTypes, AttemptTypes DEF FlushStart
  <2>17. CASE FlushSync
    BY <2>17, <2>f, <2>e, FlushTypes DEF FlushSync
  <2>18. CASE FlushWrite
    <3>1. Partials(record, flusher.snapshot) \in Doc
      BY DocTypes
    <3> QED
      BY <2>18, <2>f, <2>e, <3>1 DEF FlushWrite
  <2>19. CASE Cancel
    BY <2>19, <2>f, AttemptTypes DEF Cancel
  <2>20. CASE Replace
    BY <2>20, <2>f, BoundAssumption DEF Replace, Revision
  <2>21. CASE Discard
    BY <2>21, <2>f DEF Discard
  <2>22. CASE Kill
    BY <2>22, <2>f DEF Kill, Stopped
  <2>23. CASE PowerLoss
    <3>1. page' \in Content
      BY <2>23 DEF PowerLoss, Content
    <3> QED
      BY <2>23, <2>f, <3>1 DEF PowerLoss, Stopped
  <2>24. CASE UNCHANGED vars
    BY <2>24 DEF vars
  <2> QED
    BY <2>1, <2>2, <2>3, <2>4, <2>5, <2>6, <2>7, <2>8, <2>9, <2>10, <2>11, <2>12, <2>13, <2>14, <2>15, <2>16, <2>17, <2>18, <2>19, <2>20, <2>21, <2>22, <2>23, <2>24
       DEF Next, Download, Fetch, Flush
<1> QED
  BY <1>1, <1>2, PTL DEF Spec

----------------------------------------------------------------------------
(* Claims follow the data. *)

\* What the derived records claim.
LEMMA ClaimsOfRecords ==
  ASSUME NEW doc \in Doc, NEW d \in Chunk, NEW u \in Unit
  PROVE  /\ \A hash \in Revision \cup {0} :
              /\ EmptyDoc(hash).hash = hash /\ ~Claims(EmptyDoc(hash), d, u)
              /\ [doc EXCEPT !.hash = hash].hash = hash
              /\ Claims([doc EXCEPT !.hash = hash], d, u) => Claims(doc, d, u)
         /\ \A c \in Chunk : /\ Marked(doc, c).hash = doc.hash
                             /\ Claims(Marked(doc, c), d, u) => d = c \/ Claims(doc, d, u)
         /\ \A offsets \in Offsets :
              /\ Partials(doc, offsets).hash = doc.hash
              /\ Claims(Partials(doc, offsets), d, u) =>
                   u < offsets[d] \/ (d \in doc.done /\ Claims(doc, d, u))
<1> USE ConstantTypes DEF Claims, Doc
<1>1. \A hash \in Revision \cup {0} :
        /\ EmptyDoc(hash).hash = hash /\ ~Claims(EmptyDoc(hash), d, u)
        /\ [doc EXCEPT !.hash = hash].hash = hash
        /\ Claims([doc EXCEPT !.hash = hash], d, u) => Claims(doc, d, u)
  BY DEF EmptyDoc, NoOffsets
<1>2. \A c \in Chunk : /\ Marked(doc, c).hash = doc.hash
                       /\ Claims(Marked(doc, c), d, u) => d = c \/ Claims(doc, d, u)
  BY DEF Marked
<1>3. \A offsets \in Offsets :
        /\ Partials(doc, offsets).hash = doc.hash
        /\ Claims(Partials(doc, offsets), d, u) =>
             u < offsets[d] \/ (d \in doc.done /\ Claims(doc, d, u))
  BY DEF Partials, Offsets
<1> QED
  BY <1>1, <1>2, <1>3

\* A step on which no unit of the current revision is lost from either place.
Grows ==
  /\ source' = source
  /\ \A c \in Chunk, u \in Unit :
       /\ page[c][u] = source => page'[c][u] = source
       /\ device[c][u] = source /\ page[c][u] = source => device'[c][u] = source

\* The same predicates of the data after the step.
DurableNext(doc) == \A c \in Chunk, u \in Unit :
  Claims(doc, c, u) => device'[c][u] = source' /\ page'[c][u] = source'
ReadNext(c, n) == \A u \in Unit : u < n => page'[c][u] = source'
StoredNext(c, n) ==
  \A u \in Unit : u < n => device'[c][u] = source' /\ page'[c][u] = source'
BackedNext(r) ==
  /\ r.pc = "fetch" => ReadNext(r.chunk, r.off)
  /\ r.pc \in {"forget", "sync"} => ReadNext(r.chunk, Units)
  /\ r.pc = "mark" => StoredNext(r.chunk, Units)
FlushBackedNext(f) == \A c \in Chunk :
  /\ ReadNext(c, f.offsets[c])
  /\ f.pc = "sync" => ReadNext(c, f.snapshot[c])
  /\ f.pc = "write" => StoredNext(c, f.snapshot[c])

LEMMA GrowthKeeps ==
  ASSUME Grows
  PROVE  /\ \A doc \in Doc : Durable(doc) => DurableNext(doc)
         /\ \A c \in Chunk : \A n \in 0..Units :
              (Read(c, n) => ReadNext(c, n)) /\ (Stored(c, n) => StoredNext(c, n))
         /\ \A r \in Fetcher : Backed(r) => BackedNext(r)
         /\ \A f \in FlushState : FlushBacked(f) => FlushBackedNext(f)
<1>1. \A doc \in Doc : Durable(doc) => DurableNext(doc)
  BY DEF Grows, Durable, DurableNext
<1>2. \A c \in Chunk : \A n \in 0..Units :
        (Read(c, n) => ReadNext(c, n)) /\ (Stored(c, n) => StoredNext(c, n))
  BY DEF Grows, Read, ReadNext, Stored, StoredNext
<1>3. \A r \in Fetcher : Backed(r) => BackedNext(r)
  <2> SUFFICES ASSUME NEW r \in Fetcher, Backed(r) PROVE BackedNext(r)
    OBVIOUS
  <2>1. r.chunk \in Chunk /\ r.off \in 0..Units /\ Units \in 0..Units
    BY ConstantTypes, FieldTypes
  <2> QED
    BY <1>2, <2>1 DEF Backed, BackedNext
<1>4. \A f \in FlushState : FlushBacked(f) => FlushBackedNext(f)
  BY <1>2, FieldTypes DEF FlushBacked, FlushBackedNext, Offsets
<1> QED
  BY <1>1, <1>2, <1>3, <1>4

\* What is left to show of each conjunct of the invariant after a step.
LEMMA SidecarFrame ==
  ASSUME TypeOK, SidecarInv, Grows, place' = place,
         \/ sidecar' = sidecar
         \/ sidecar' = NoDoc
         \/ /\ place' = "part" /\ sidecar'.hash = source' /\ DurableNext(sidecar')
  PROVE  SidecarInv'
<1>1. source \in Nat /\ source # 0 /\ source' = source
  BY ConstantTypes DEF TypeOK, Grows
<1>2. CASE sidecar' = sidecar
  <2>1. sidecar # NoDoc /\ Durable(sidecar) => DurableNext(sidecar)
    BY GrowthKeeps DEF TypeOK
  <2>2. sidecar' # NoDoc /\ sidecar'.hash = source' /\ place' = "part" => DurableNext(sidecar')
    BY <1>1, <1>2, <2>1 DEF SidecarInv
  <2> QED
    BY <1>1, <1>2, <2>2 DEF SidecarInv, Durable, DurableNext
<1>3. CASE sidecar' = NoDoc
  BY <1>3 DEF SidecarInv
<1>4. CASE place' = "part" /\ sidecar'.hash = source' /\ DurableNext(sidecar')
  BY <1>1, <1>4 DEF SidecarInv, Durable, DurableNext
<1> QED
  BY <1>2, <1>3, <1>4

LEMMA RecordFrame ==
  ASSUME attempt'.pc \in {"save", "pool", "last", "flushed", "rename"} =>
           place' = "part" /\ record'.hash = source' /\ DurableNext(record')
  PROVE  RecordInv'
BY DEF RecordInv, Durable, DurableNext

LEMMA WorkerFrame ==
  ASSUME TypeOK, WorkerInv, Grows, attempt.pc = "pool", NEW w \in Workers,
         NEW r \in Fetcher, worker' = [worker EXCEPT ![w] = r], BackedNext(r)
  PROVE  WorkerInv'
<1>1. \A v \in Workers : BackedNext(worker[v])
  BY GrowthKeeps DEF TypeOK, WorkerInv
<1>2. \A v \in Workers : BackedNext(worker'[v])
  BY <1>1 DEF TypeOK
<1> QED
  BY <1>2 DEF WorkerInv, Backed, BackedNext, Read, ReadNext, Stored, StoredNext

LEMMA WorkersKept ==
  ASSUME TypeOK, WorkerInv, Grows, worker' = worker,
         attempt'.pc = "pool" => attempt.pc = "pool"
  PROVE  WorkerInv'
<1>1. attempt'.pc = "pool" => \A v \in Workers : BackedNext(worker'[v])
  BY GrowthKeeps DEF TypeOK, WorkerInv
<1> QED
  BY <1>1 DEF WorkerInv, Backed, BackedNext, Read, ReadNext, Stored, StoredNext

LEMMA FlusherFrame ==
  ASSUME flusher'.pc # "idle" => attempt'.pc \in {"pool", "last", "flushed"},
         attempt'.pc \in {"pool", "last", "flushed"} => FlushBackedNext(flusher')
  PROVE  FlusherInv'
BY DEF FlusherInv, FlushBacked, FlushBackedNext, Read, ReadNext, Stored, StoredNext

LEMMA FlusherKept ==
  ASSUME TypeOK, FlusherInv, Grows, flusher' = flusher,
         attempt'.pc = attempt.pc
  PROVE  FlusherInv'
<1>1. FlushBacked(flusher) => FlushBackedNext(flusher')
  BY GrowthKeeps DEF TypeOK
<1> QED
  BY <1>1, FlusherFrame DEF FlusherInv

----------------------------------------------------------------------------
(* The invariant is inductive. *)

\* The steps of Download and of the world outside.
LEMMA AttemptStep ==
  ASSUME TypeOK, TypeOK', SidecarInv, RecordInv, WorkerInv, FlusherInv,
         "noHash" \notin Faults,
         Download \/ Cancel \/ Replace \/ Discard \/ Kill \/ PowerLoss
  PROVE  SidecarInv' /\ RecordInv' /\ WorkerInv' /\ FlusherInv'
<1> USE ConstantTypes, EmptyTypes, NoDocAssumption, FieldTypes
<1> USE DEF disk
<1>r. source \in Revision /\ source' \in Revision
  BY DEF TypeOK
<1>n. Zeros \in Content /\ FlushBackedNext(NoFlush)
  BY DEF FlushBackedNext, NoFlush, NoOffsets, ReadNext
<1>1. CASE Reuse
  <2>1. SidecarInv'
    BY <1>1, <1>r DEF TypeOK, Reuse, SidecarInv, RecordInv, WorkerInv, FlusherInv, Durable
  <2>2. RecordInv'
    BY <1>1, <1>r DEF TypeOK, Reuse, SidecarInv, RecordInv, WorkerInv, FlusherInv, Durable
  <2>3. WorkerInv'
    BY <1>1, <1>r DEF TypeOK, Reuse, SidecarInv, RecordInv, WorkerInv, FlusherInv, Backed, Read, Stored
  <2>4. FlusherInv'
    BY <1>1, <1>r DEF TypeOK, Reuse, SidecarInv, RecordInv, WorkerInv, FlusherInv, FlushBacked, Read, Stored
  <2> QED
    BY <2>1, <2>2, <2>3, <2>4
<1>2. CASE Resume
  <2>1. PICK hash \in Reported : Matches(sidecar, hash) /\ record' = [sidecar EXCEPT !.hash = hash]
    BY <1>2 DEF Resume
  <2>2. hash = source /\ sidecar \in Doc /\ sidecar.hash = source
    BY <2>1, <1>r DEF TypeOK, Reported, Matches, SidecarInv
  <2>3. place = "part" /\ Durable(sidecar)
    BY <1>2, <2>2 DEF Resume, SidecarInv, TypeOK
  <2>4. Grows /\ sidecar' = sidecar /\ place' = place
    BY <1>2 DEF Resume, Grows
  <2>5. DurableNext(sidecar)
    BY <2>2, <2>3, <2>4, GrowthKeeps
  <2>6. record'.hash = source' /\ DurableNext(record')
    BY <2>1, <2>2, <2>4, <2>5, <1>r, ClaimsOfRecords DEF DurableNext, Grows
  <2>7. attempt.pc = "idle" /\ attempt'.pc = "save" /\ flusher' = flusher
    BY <1>2 DEF Resume, TypeOK, AttemptState
  <2>8. RecordInv'
    BY <2>3, <2>4, <2>6, RecordFrame
  <2>9. SidecarInv'
    BY <2>4, SidecarFrame
  <2>10. WorkerInv' /\ FlusherInv'
    BY <2>7 DEF WorkerInv, FlusherInv
  <2> QED
    BY <2>8, <2>9, <2>10
<1>3. CASE StartOver
  <2>1. PICK hash \in Reported : /\ place = "part" => ~Matches(sidecar, hash)
                                 /\ record' = EmptyDoc(hash)
    BY <1>3 DEF StartOver
  <2>2. hash = source /\ source' = source /\ place # "staged"
    BY <1>3, <2>1 DEF Reported, StartOver
  <2>3. sidecar = NoDoc \/ sidecar.hash # source
    BY <2>1, <2>2, <1>r DEF Matches, SidecarInv, TypeOK
  <2>4. SidecarInv'
    BY <1>3, <2>2, <2>3 DEF StartOver, SidecarInv
  <2>e. record \in Doc /\ EmptyDoc(source).hash = source /\ \A c \in Chunk, u \in Unit : ~Claims(EmptyDoc(source), c, u)
    BY <1>r, ClaimsOfRecords DEF EmptyDoc, TypeOK, Claims, NoOffsets
  <2>5. record'.hash = source' /\ DurableNext(record') /\ place' = "part"
    <3>1. record' = EmptyDoc(source) /\ place' = "part" /\ source' = source
      BY <1>3, <2>1, <2>2 DEF StartOver
    <3>2. \A c \in Chunk, u \in Unit : ~Claims(record', c, u)
      BY <2>e, <3>1
    <3> QED
      BY <2>e, <3>1, <3>2 DEF DurableNext
  <2>6. RecordInv'
    BY <2>5, RecordFrame
  <2>7. attempt.pc = "idle" /\ attempt'.pc = "save" /\ flusher' = flusher
    BY <1>3 DEF StartOver, TypeOK, AttemptState
  <2>8. WorkerInv' /\ FlusherInv'
    BY <2>7 DEF WorkerInv, FlusherInv
  <2> QED
    BY <2>4, <2>6, <2>8
<1>4. CASE OpenPool
  <2>1. Grows /\ place' = place /\ record' = record
    BY <1>4 DEF OpenPool, Grows
  <2>2. attempt.pc = "save" /\ attempt'.pc \in {"rename", "pool"}
    BY <1>4 DEF OpenPool, TypeOK, AttemptState
  <2>3. place = "part" /\ record.hash = source /\ Durable(record) /\ record \in Doc
    BY <2>2 DEF RecordInv, TypeOK
  <2>4. DurableNext(record)
    BY <2>1, <2>3, GrowthKeeps
  <2>5. sidecar' = record \/ sidecar' = sidecar
    BY <1>4 DEF OpenPool, Write
  <2>6. SidecarInv'
    BY <2>1, <2>3, <2>4, <2>5, SidecarFrame DEF Grows
  <2>7. RecordInv'
    BY <2>1, <2>3, <2>4, RecordFrame DEF Grows
  <2>8. CASE Pending(record) = {}
    <3>1. attempt'.pc = "rename" /\ flusher' = flusher
      BY <1>4, <2>8 DEF OpenPool, TypeOK, AttemptState
    <3> QED
      BY <2>2, <2>6, <2>7, <3>1 DEF WorkerInv, FlusherInv
  <2>9. CASE Pending(record) # {}
    <3>1. /\ worker' = [w \in Workers |-> [IdleWorker EXCEPT !.pc = "take"]]
          /\ flusher' = [NoFlush EXCEPT !.offsets = record.partial]
      BY <1>4, <2>9 DEF OpenPool
    <3>2. \A w \in Workers : worker'[w].pc = "take"
      BY <3>1 DEF IdleWorker
    <3>3. WorkerInv'
      BY <3>2 DEF WorkerInv, Backed
    <3>4. flusher'.pc = "idle" /\ flusher'.offsets = record.partial
      BY <3>1 DEF NoFlush
    <3>5. \A c \in Chunk : ReadNext(c, record.partial[c])
      BY <2>4 DEF DurableNext, ReadNext, Claims
    <3>6. FlushBackedNext(flusher')
      BY <3>4, <3>5 DEF FlushBackedNext
    <3>7. FlusherInv'
      BY <3>4, <3>6, FlusherFrame
    <3> QED
      BY <2>6, <2>7, <3>3, <3>7
  <2> QED
    BY <2>8, <2>9
<1>5. CASE Drain
  <2>1. SidecarInv'
    BY <1>5, <1>r DEF TypeOK, Drain, SidecarInv, RecordInv, WorkerInv, FlusherInv, Durable
  <2>2. RecordInv'
    BY <1>5, <1>r DEF TypeOK, Drain, SidecarInv, RecordInv, WorkerInv, FlusherInv, Durable
  <2>3. WorkerInv'
    BY <1>5, <1>r DEF TypeOK, Drain, SidecarInv, RecordInv, WorkerInv, FlusherInv, Backed, Read, Stored
  <2>4. FlusherInv'
    BY <1>5, <1>r DEF TypeOK, Drain, SidecarInv, RecordInv, WorkerInv, FlusherInv, FlushBacked, Read, Stored
  <2> QED
    BY <2>1, <2>2, <2>3, <2>4
<1>6. CASE Leave
  <2>1. SidecarInv'
    BY <1>6, <1>r DEF TypeOK, Leave, NoFlush, IdleWorker, NoAttempt, SidecarInv, RecordInv, WorkerInv, FlusherInv, Durable
  <2>2. RecordInv'
    BY <1>6, <1>r DEF TypeOK, Leave, NoFlush, IdleWorker, NoAttempt, SidecarInv, RecordInv, WorkerInv, FlusherInv, Durable
  <2>3. WorkerInv'
    BY <1>6, <1>r DEF TypeOK, Leave, NoFlush, IdleWorker, NoAttempt, SidecarInv, RecordInv, WorkerInv, FlusherInv, Backed, Read, Stored
  <2>4. FlusherInv'
    BY <1>6, <1>r DEF TypeOK, Leave, NoFlush, IdleWorker, NoAttempt, SidecarInv, RecordInv, WorkerInv, FlusherInv, FlushBacked, Read, Stored
  <2> QED
    BY <2>1, <2>2, <2>3, <2>4
<1>7. CASE Rename
  <2>1. SidecarInv'
    BY <1>7, <1>r DEF TypeOK, Rename, SidecarInv, RecordInv, WorkerInv, FlusherInv, Durable
  <2>2. RecordInv'
    BY <1>7, <1>r DEF TypeOK, Rename, SidecarInv, RecordInv, WorkerInv, FlusherInv, Durable
  <2>3. WorkerInv'
    BY <1>7, <1>r DEF TypeOK, Rename, SidecarInv, RecordInv, WorkerInv, FlusherInv, Backed, Read, Stored
  <2>4. FlusherInv'
    BY <1>7, <1>r DEF TypeOK, Rename, SidecarInv, RecordInv, WorkerInv, FlusherInv, FlushBacked, Read, Stored
  <2> QED
    BY <2>1, <2>2, <2>3, <2>4
<1>8. CASE RemoveSidecar
  <2>1. SidecarInv'
    BY <1>8, <1>r DEF TypeOK, RemoveSidecar, NoAttempt, SidecarInv, RecordInv, WorkerInv, FlusherInv, Durable
  <2>2. RecordInv'
    BY <1>8, <1>r DEF TypeOK, RemoveSidecar, NoAttempt, SidecarInv, RecordInv, WorkerInv, FlusherInv, Durable
  <2>3. WorkerInv'
    BY <1>8, <1>r DEF TypeOK, RemoveSidecar, NoAttempt, SidecarInv, RecordInv, WorkerInv, FlusherInv, Backed, Read, Stored
  <2>4. FlusherInv'
    BY <1>8, <1>r DEF TypeOK, RemoveSidecar, NoAttempt, SidecarInv, RecordInv, WorkerInv, FlusherInv, FlushBacked, Read, Stored
  <2> QED
    BY <2>1, <2>2, <2>3, <2>4
<1>9. CASE Cancel
  <2>1. SidecarInv'
    BY <1>9, <1>r DEF TypeOK, Cancel, SidecarInv, RecordInv, WorkerInv, FlusherInv, Durable
  <2>2. RecordInv'
    BY <1>9, <1>r DEF TypeOK, Cancel, SidecarInv, RecordInv, WorkerInv, FlusherInv, Durable
  <2>3. WorkerInv'
    BY <1>9, <1>r DEF TypeOK, Cancel, SidecarInv, RecordInv, WorkerInv, FlusherInv, Backed, Read, Stored
  <2>4. FlusherInv'
    BY <1>9, <1>r DEF TypeOK, Cancel, SidecarInv, RecordInv, WorkerInv, FlusherInv, FlushBacked, Read, Stored
  <2> QED
    BY <2>1, <2>2, <2>3, <2>4
<1>10. CASE Replace
  <2>1. source' = source + 1 /\ sidecar' = sidecar /\ place' = place
    BY <1>10 DEF Replace
  <2>2. sidecar # NoDoc => sidecar.hash \in Nat /\ sidecar.hash <= source
    BY <1>r DEF TypeOK, Doc, SidecarInv
  <2>3. SidecarInv'
    BY <1>r, <2>1, <2>2 DEF SidecarInv
  <2>4. RecordInv' /\ WorkerInv' /\ FlusherInv'
    BY <1>10 DEF Replace, RecordInv, WorkerInv, FlusherInv
  <2> QED
    BY <2>3, <2>4
<1>11. CASE Discard
  <2>1. SidecarInv'
    BY <1>11, <1>r DEF TypeOK, Discard, SidecarInv, RecordInv, WorkerInv, FlusherInv, Durable
  <2>2. RecordInv'
    BY <1>11, <1>r DEF TypeOK, Discard, SidecarInv, RecordInv, WorkerInv, FlusherInv, Durable
  <2>3. WorkerInv'
    BY <1>11, <1>r DEF TypeOK, Discard, SidecarInv, RecordInv, WorkerInv, FlusherInv, Backed, Read, Stored
  <2>4. FlusherInv'
    BY <1>11, <1>r DEF TypeOK, Discard, SidecarInv, RecordInv, WorkerInv, FlusherInv, FlushBacked, Read, Stored
  <2> QED
    BY <2>1, <2>2, <2>3, <2>4
<1>12. CASE Kill
  <2>1. SidecarInv'
    BY <1>12, <1>r DEF TypeOK, Kill, Stopped, NoAttempt, NoFlush, SidecarInv, RecordInv, WorkerInv, FlusherInv, Durable
  <2>2. RecordInv'
    BY <1>12, <1>r DEF TypeOK, Kill, Stopped, NoAttempt, NoFlush, SidecarInv, RecordInv, WorkerInv, FlusherInv, Durable
  <2>3. WorkerInv'
    BY <1>12, <1>r DEF TypeOK, Kill, Stopped, NoAttempt, NoFlush, SidecarInv, RecordInv, WorkerInv, FlusherInv, Backed, Read, Stored
  <2>4. FlusherInv'
    BY <1>12, <1>r DEF TypeOK, Kill, Stopped, NoAttempt, NoFlush, SidecarInv, RecordInv, WorkerInv, FlusherInv, FlushBacked, Read, Stored
  <2> QED
    BY <2>1, <2>2, <2>3, <2>4
<1>13. CASE PowerLoss
  <2>1. SidecarInv'
    BY <1>13, <1>r DEF TypeOK, PowerLoss, Stopped, NoAttempt, NoFlush, SidecarInv, RecordInv, WorkerInv, FlusherInv, Durable
  <2>2. RecordInv'
    BY <1>13, <1>r DEF TypeOK, PowerLoss, Stopped, NoAttempt, NoFlush, SidecarInv, RecordInv, WorkerInv, FlusherInv, Durable
  <2>3. WorkerInv'
    BY <1>13, <1>r DEF TypeOK, PowerLoss, Stopped, NoAttempt, NoFlush, SidecarInv, RecordInv, WorkerInv, FlusherInv, Backed, Read, Stored
  <2>4. FlusherInv'
    BY <1>13, <1>r DEF TypeOK, PowerLoss, Stopped, NoAttempt, NoFlush, SidecarInv, RecordInv, WorkerInv, FlusherInv, FlushBacked, Read, Stored
  <2> QED
    BY <2>1, <2>2, <2>3, <2>4
<1> QED
  BY <1>1, <1>2, <1>3, <1>4, <1>5, <1>6, <1>7, <1>8, <1>9, <1>10, <1>11, <1>12, <1>13 DEF Download

\* The steps of the workers and the flusher.
LEMMA PoolStep ==
  ASSUME TypeOK, TypeOK', SidecarInv, RecordInv, WorkerInv, FlusherInv,
         Flush \/ \E w \in Workers : Fetch(w)
  PROVE  SidecarInv' /\ RecordInv' /\ WorkerInv' /\ FlusherInv'
<1> USE ConstantTypes, NoDocAssumption, FieldTypes
<1> USE DEF disk
<1>r. source \in Revision /\ source' \in Revision
  BY DEF TypeOK
<1>n. record \in Doc /\ record' \in Doc /\ flusher \in FlushState /\ flusher' \in FlushState
  BY DEF TypeOK
\* All there is to show when record and sidecar stand.
<1>k. ASSUME Grows, place' = place, sidecar' = sidecar, record' = record,
             attempt.pc \in {"pool", "last", "flushed"}
      PROVE  SidecarInv' /\ RecordInv'
  <2>1. place' = "part" /\ record'.hash = source' /\ DurableNext(record')
    BY <1>k, <1>n, GrowthKeeps DEF RecordInv, Grows
  <2> QED
    BY <1>k, <2>1, SidecarFrame, RecordFrame
\* And when the record changes to one that is durable.
<1>d. ASSUME Grows, place' = place, sidecar' \in {sidecar, record'}, DurableNext(record'),
             record'.hash = record.hash, attempt.pc \in {"pool", "last", "flushed"}
      PROVE  SidecarInv' /\ RecordInv'
  <2>1. place' = "part" /\ record'.hash = source'
    BY <1>d DEF RecordInv, Grows
  <2> QED
    BY <1>d, <2>1, SidecarFrame, RecordFrame
<1>1. ASSUME NEW w \in Workers, Take(w)
     PROVE  SidecarInv' /\ RecordInv' /\ WorkerInv' /\ FlusherInv'
  <2>1. Grows /\ place' = place /\ sidecar' = sidecar /\ record' = record /\ flusher' = flusher
    BY <1>1 DEF Take, Grows
  <2>2. attempt.pc = "pool" /\ attempt'.pc = "pool"
    BY <1>1 DEF Take, At, GiveUp, TypeOK, AttemptState
  <2>3. \A c \in Chunk : [pc |-> "try", chunk |-> c, tries |-> 0, off |-> 0] \in Fetcher
    BY DEF Fetcher
  <2>4. [worker[w] EXCEPT !.pc = "end"] \in Fetcher
    <3>1. worker[w] \in Fetcher
      BY DEF TypeOK
    <3> QED
      BY <3>1, FetcherTypes, FetcherFields
  <2>5. [worker[w] EXCEPT !.pc = "end"].pc = "end"
    BY DEF TypeOK, Fetcher
  <2>7. \E r \in Fetcher : worker' = [worker EXCEPT ![w] = r] /\ BackedNext(r)
    <3>1. CASE Goto(w, "end")
      BY <3>1, <2>4, <2>5 DEF Goto, Put, BackedNext
    <3>2. CASE ~Goto(w, "end")
      <4>1. PICK c \in attempt.todo : Put(w, [pc |-> "try", chunk |-> c, tries |-> 0, off |-> 0])
        BY <1>1, <3>2 DEF Take
      <4>2. c \in Chunk
        BY DEF TypeOK, AttemptState
      <4> QED
        BY <4>1, <4>2, <2>3 DEF Put, BackedNext
    <3> QED
      BY <3>1, <3>2
  <2>8. WorkerInv'
    BY <2>1, <2>2, <2>7, WorkerFrame
  <2>9. FlusherInv'
    BY <2>1, <2>2, FlusherKept
  <2> QED
    BY <1>k, <2>1, <2>2, <2>8, <2>9
<1>2. ASSUME NEW w \in Workers, Try(w)
     PROVE  SidecarInv' /\ RecordInv' /\ WorkerInv' /\ FlusherInv'
  <2>1. Grows /\ place' = place /\ sidecar' = sidecar /\ record' = record /\ flusher' = flusher
    BY <1>2 DEF Try, Grows
  <2>2. attempt.pc = "pool" /\ attempt'.pc = "pool"
    BY <1>2 DEF Try, At, GiveUp, TypeOK, AttemptState
  <2>3. [worker[w] EXCEPT !.pc = "end"] \in Fetcher /\ [worker[w] EXCEPT !.pc = "end"].pc = "end"
    <3>1. worker[w] \in Fetcher
      BY DEF TypeOK
    <3> QED
      BY <3>1, FetcherTypes, FetcherFields
  <2>4. record.partial[worker[w].chunk] \in 0..Units /\ worker[w].chunk \in Chunk
    BY DEF TypeOK, Doc
  <2>5. ReadNext(worker[w].chunk, record.partial[worker[w].chunk])
    <3>1. DurableNext(record)
      BY <1>n, <2>1, <2>2, GrowthKeeps DEF RecordInv
    <3> QED
      BY <3>1, <2>4 DEF DurableNext, ReadNext, Claims
  <2>6. ASSUME NEW r, r = [worker[w] EXCEPT !.pc = "fetch", !.off = record.partial[worker[w].chunk]]
        PROVE  r \in Fetcher /\ BackedNext(r)
    <3>1. worker[w] \in Fetcher
      BY DEF TypeOK
    <3>2. r \in Fetcher
      BY <2>4, <2>6, <3>1, FetcherTypes
    <3>3. r.pc = "fetch" /\ r.off = record.partial[worker[w].chunk] /\ r.chunk = worker[w].chunk
      BY <2>6, <3>1, FetcherFields
    <3> QED
      BY <2>5, <3>2, <3>3 DEF BackedNext
  <2>7. \E r \in Fetcher : worker' = [worker EXCEPT ![w] = r] /\ BackedNext(r)
    BY <1>2, <2>3, <2>6 DEF Try, GiveUp, Goto, Put, BackedNext
  <2>8. WorkerInv'
    BY <2>1, <2>2, <2>7, WorkerFrame
  <2>9. FlusherInv'
    BY <2>1, <2>2, FlusherKept
  <2> QED
    BY <1>k, <2>1, <2>2, <2>8, <2>9
<1>3. ASSUME NEW w \in Workers, Receive(w)
     PROVE  SidecarInv' /\ RecordInv' /\ WorkerInv' /\ FlusherInv'
  <2> DEFINE c == worker[w].chunk
               u == worker[w].off
  <2>1. c \in Chunk /\ u \in Unit /\ u + 1 \in 0..Units /\ worker[w] \in Fetcher /\ worker[w].pc = "fetch"
    BY <1>3 DEF Receive, At, TypeOK
  <2>2. page' = [page EXCEPT ![c][u] = source] /\ device' = device /\ source' = source
    BY <1>3 DEF Receive
  <2>3. Grows
    BY <2>1, <2>2 DEF Grows, TypeOK, Content
  <2>4. /\ place' = place /\ sidecar' = sidecar /\ record' = record
        /\ attempt' = attempt /\ attempt.pc = "pool"
    BY <1>3 DEF Receive, At
  <2>5. Read(c, u)
    BY <2>1, <2>4 DEF WorkerInv, Backed
  <2>6. ReadNext(c, u + 1)
    <3> SUFFICES ASSUME NEW v \in Unit, v < u + 1 PROVE page'[c][v] = source'
      BY DEF ReadNext
    <3>1. v = u \/ v < u
      <4>1. v \in Nat /\ u \in Nat
        BY <2>1
      <4> HIDE DEF u
      <4> QED
        BY <4>1
    <3>2. page'[c][v] = source
      BY <2>1, <2>2, <2>5, <3>1 DEF Read, TypeOK, Content
    <3> QED
      BY <2>2, <3>2
  <2>7. ASSUME NEW p \in {"forget", "fetch"}, p = "forget" => u + 1 = Units,
               NEW r, r = [worker[w] EXCEPT !.off = u + 1, !.pc = p]
        PROVE  r \in Fetcher /\ BackedNext(r)
    <3>1. r \in Fetcher
      BY <2>1, <2>7, FetcherTypes
    <3>2. r.pc = p /\ r.off = u + 1 /\ r.chunk = c
      BY <2>1, <2>7, FetcherFields
    <3> QED
      BY <2>6, <2>7, <3>1, <3>2 DEF BackedNext
  <2>8. \E r \in Fetcher : worker' = [worker EXCEPT ![w] = r] /\ BackedNext(r)
    <3> DEFINE p == IF u + 1 = Units THEN "forget" ELSE "fetch"
    <3>1. worker' = [worker EXCEPT ![w] = [worker[w] EXCEPT !.off = u + 1, !.pc = p]]
      BY <1>3 DEF Receive, Put
    <3> QED
      BY <2>7, <3>1
  <2>9. WorkerInv'
    BY <2>3, <2>4, <2>8, WorkerFrame
  <2>10. /\ flusher'.pc = flusher.pc /\ flusher'.snapshot = flusher.snapshot
         /\ flusher'.offsets = [flusher.offsets EXCEPT ![c] = u + 1]
    BY <1>3, <1>n DEF Receive, FlushState
  <2>11. FlushBackedNext(flusher)
    BY <1>n, <2>3, <2>4, GrowthKeeps DEF FlusherInv
  <2>12. FlushBackedNext(flusher')
    BY <1>n, <2>1, <2>6, <2>10, <2>11 DEF FlushBackedNext, Offsets
  <2>13. FlusherInv'
    BY <2>4, <2>12, FlusherFrame
  <2> QED
    BY <1>k, <2>3, <2>4, <2>9, <2>13
<1>4. ASSUME NEW w \in Workers, Break(w)
     PROVE  SidecarInv' /\ RecordInv' /\ WorkerInv' /\ FlusherInv'
  <2>1. Grows /\ place' = place /\ sidecar' = sidecar /\ record' = record /\ flusher' = flusher
    BY <1>4 DEF Break, Grows
  <2>2. attempt.pc = "pool" /\ attempt'.pc = "pool"
    BY <1>4 DEF Break, At, GiveUp, TypeOK, AttemptState
  <2>3. [worker[w] EXCEPT !.pc = "end"] \in Fetcher /\ [worker[w] EXCEPT !.pc = "end"].pc = "end"
    <3>1. worker[w] \in Fetcher
      BY DEF TypeOK
    <3> QED
      BY <3>1, FetcherTypes, FetcherFields
  <2>6. ASSUME worker[w].tries + 1 < Retry,
               NEW r, r = [worker[w] EXCEPT !.pc = "try", !.tries = worker[w].tries + 1]
        PROVE  r \in Fetcher /\ BackedNext(r)
    <3>1. worker[w].tries + 1 \in 0..(Retry - 1)
      BY <2>6 DEF TypeOK
    <3>2. r \in Fetcher
      BY <3>1, <2>6, FetcherTypes DEF TypeOK
    <3> QED
      BY <3>2, <2>6, FetcherFields DEF TypeOK, BackedNext
  <2>7. \E r \in Fetcher : worker' = [worker EXCEPT ![w] = r] /\ BackedNext(r)
    BY <1>4, <2>3, <2>6 DEF Break, GiveUp, Goto, Put, BackedNext
  <2>8. WorkerInv'
    BY <2>1, <2>2, <2>7, WorkerFrame
  <2>9. FlusherInv'
    BY <2>1, <2>2, FlusherKept
  <2> QED
    BY <1>k, <2>1, <2>2, <2>8, <2>9
<1>5. ASSUME NEW w \in Workers, Forget(w)
     PROVE  SidecarInv' /\ RecordInv' /\ WorkerInv' /\ FlusherInv'
  <2> DEFINE c == worker[w].chunk
               r == [worker[w] EXCEPT !.pc = "sync"]
  <2>1. c \in Chunk /\ worker[w] \in Fetcher /\ worker[w].pc = "forget"
    BY <1>5 DEF Forget, At, TypeOK
  <2>2. /\ Grows /\ place' = place /\ sidecar' = sidecar /\ record' = record
        /\ attempt' = attempt /\ attempt.pc = "pool"
    BY <1>5 DEF Forget, At, Grows
  <2>3. r \in Fetcher /\ BackedNext(r)
    <3>1. BackedNext(worker[w])
      BY <2>1, <2>2, GrowthKeeps DEF WorkerInv
    <3> QED
      <4>1. r \in Fetcher
        BY <2>1, FetcherTypes
      <4>2. r.pc = "sync" /\ r.chunk = c
        BY <2>1, FetcherFields
      <4> QED
        BY <2>1, <3>1, <4>1, <4>2 DEF BackedNext
  <2>4. WorkerInv'
    <3>1. worker' = [worker EXCEPT ![w] = r]
      BY <1>5 DEF Forget, Goto, Put
    <3> QED
      BY <2>2, <2>3, <3>1, WorkerFrame
  <2>5. /\ flusher'.pc = flusher.pc /\ flusher'.snapshot = flusher.snapshot
        /\ flusher'.offsets = [flusher.offsets EXCEPT ![c] = 0]
    BY <1>5, <1>n DEF Forget, FlushState
  <2>6. FlushBackedNext(flusher)
    BY <1>n, <2>2, GrowthKeeps DEF FlusherInv
  <2>7. FlushBackedNext(flusher')
    <3>1. ReadNext(c, 0)
      BY SizeAssumption DEF ReadNext, Unit
    <3>2. \A d \in Chunk : flusher'.offsets[d] = IF d = c THEN 0 ELSE flusher.offsets[d]
      BY <1>n, <2>5 DEF Offsets
    <3> QED
      BY <2>5, <2>6, <3>1, <3>2 DEF FlushBackedNext
  <2>8. FlusherInv'
    BY <2>2, <2>7, FlusherFrame
  <2> QED
    BY <1>k, <2>2, <2>4, <2>8
<1>6. ASSUME NEW w \in Workers, SyncChunk(w)
     PROVE  SidecarInv' /\ RecordInv' /\ WorkerInv' /\ FlusherInv'
  <2>1. /\ Grows /\ place' = place /\ sidecar' = sidecar /\ record' = record
        /\ attempt'.pc = "pool" /\ attempt.pc = "pool" /\ flusher' = flusher
        /\ worker[w] \in Fetcher /\ worker[w].pc = "sync"
    BY <1>6 DEF SyncChunk, At, Grows, GiveUp, TypeOK, AttemptState
  <2>2. Read(worker[w].chunk, Units)
    BY <2>1 DEF WorkerInv, Backed
  <2>3. device' = page => StoredNext(worker[w].chunk, Units)
    BY <1>6, <2>1, <2>2 DEF Read, StoredNext, SyncChunk, Grows
  <2>4. ASSUME NEW p \in {"mark", "end"}, p = "mark" => device' = page, NEW r, r = [worker[w] EXCEPT !.pc = p]
        PROVE  r \in Fetcher /\ BackedNext(r)
    <3>1. r \in Fetcher
      BY <2>1, <2>4, FetcherTypes
    <3>2. r.pc = p /\ r.chunk = worker[w].chunk
      BY <2>1, <2>4, FetcherFields
    <3> QED
      BY <2>3, <2>4, <3>1, <3>2 DEF BackedNext
  <2>5. \E r \in Fetcher : worker' = [worker EXCEPT ![w] = r] /\ BackedNext(r)
    BY <1>6, <2>4 DEF SyncChunk, GiveUp, Goto, Put
  <2>6. WorkerInv'
    BY <2>1, <2>5, WorkerFrame
  <2>7. FlusherInv'
    BY <2>1, FlusherKept
  <2> QED
    BY <1>k, <2>1, <2>6, <2>7
<1>7. ASSUME NEW w \in Workers, MarkDone(w)
     PROVE  SidecarInv' /\ RecordInv' /\ WorkerInv' /\ FlusherInv'
  <2> DEFINE c == worker[w].chunk
               r == [worker[w] EXCEPT !.pc = "take"]
  <2>1. /\ Grows /\ place' = place /\ record' = Marked(record, c) /\ sidecar' \in {sidecar, record'}
        /\ attempt' = attempt /\ attempt.pc = "pool" /\ flusher' = flusher
        /\ worker[w] \in Fetcher /\ worker[w].pc = "mark" /\ c \in Chunk
    BY <1>7 DEF MarkDone, At, Write, Grows, TypeOK
  <2>2. StoredNext(c, Units) /\ DurableNext(record)
    <3>1. Stored(c, Units) /\ Durable(record)
      BY <2>1 DEF WorkerInv, Backed, RecordInv
    <3>2. Units \in 0..Units
      OBVIOUS
    <3> QED
      BY <1>n, <2>1, <3>1, <3>2, GrowthKeeps
  <2>3. DurableNext(record') /\ record'.hash = record.hash
    <3>1. \A u \in Unit : u < Units
      BY SizeAssumption DEF Unit
    <3> QED
      BY <1>n, <2>1, <2>2, <3>1, ClaimsOfRecords DEF DurableNext, StoredNext
  <2>4. r \in Fetcher /\ BackedNext(r)
    <3>1. r \in Fetcher
      BY <2>1, FetcherTypes
    <3>2. r.pc = "take"
      BY <2>1, FetcherFields
    <3> QED
      BY <3>1, <3>2 DEF BackedNext
  <2>5. WorkerInv'
    <3>1. worker' = [worker EXCEPT ![w] = r]
      BY <1>7 DEF MarkDone, Goto, Put
    <3> QED
      BY <2>1, <2>4, <3>1, WorkerFrame
  <2>6. FlusherInv'
    BY <2>1, FlusherKept
  <2> QED
    BY <1>d, <2>1, <2>3, <2>5, <2>6
<1>8. CASE FlushStart
  <2>1. /\ Grows /\ place' = place /\ sidecar' = sidecar /\ record' = record /\ worker' = worker
        /\ attempt.pc \in {"pool", "last"} /\ attempt'.pc \in {"pool", "flushed"}
        /\ attempt'.pc = "pool" => attempt.pc = "pool"
    BY <1>8 DEF FlushStart, Grows, TypeOK, AttemptState
  <2>2. /\ flusher'.pc = "sync" /\ flusher'.offsets = flusher.offsets
        /\ flusher'.snapshot = flusher.offsets
    BY <1>8, <1>n DEF FlushStart, FlushState
  <2>3. FlushBackedNext(flusher)
    BY <1>n, <2>1, GrowthKeeps DEF FlusherInv
  <2>4. FlushBackedNext(flusher')
    BY <2>2, <2>3 DEF FlushBackedNext
  <2>5. FlusherInv'
    BY <2>1, <2>4, FlusherFrame
  <2>6. WorkerInv'
    BY <2>1, WorkersKept
  <2> QED
    BY <1>k, <2>1, <2>5, <2>6
<1>9. CASE FlushSync
  <2>1. /\ Grows /\ place' = place /\ sidecar' = sidecar /\ record' = record /\ worker' = worker
        /\ attempt' = attempt /\ attempt.pc \in {"pool", "last", "flushed"} /\ flusher.pc = "sync"
    BY <1>9 DEF FlushSync, Grows, FlusherInv
  <2>2. FlushBackedNext(flusher)
    BY <1>n, <2>1, GrowthKeeps DEF FlusherInv
  <2>3. ASSUME flusher' = [flusher EXCEPT !.pc = "write"], device' = page
        PROVE  FlusherInv'
    <3>1. flusher'.pc = "write" /\ flusher'.offsets = flusher.offsets /\ flusher'.snapshot = flusher.snapshot
      BY <1>n, <2>3 DEF FlushState
    <3>2. \A c \in Chunk : Read(c, flusher.snapshot[c])
      BY <2>1 DEF FlusherInv, FlushBacked
    <3>3. \A c \in Chunk : StoredNext(c, flusher.snapshot[c])
      BY <1>9, <2>3, <3>2 DEF Read, StoredNext, FlushSync
    <3>4. FlushBackedNext(flusher')
      BY <2>2, <3>1, <3>3 DEF FlushBackedNext
    <3> QED
      BY <2>1, <3>4, FlusherFrame
  <2>4. ASSUME FlushEnd(TRUE) PROVE FlusherInv'
    <3>1. flusher'.pc = "idle" /\ flusher'.offsets = flusher.offsets
      BY <1>n, <2>4 DEF FlushEnd, FlushState
    <3>2. FlushBackedNext(flusher')
      BY <2>2, <3>1 DEF FlushBackedNext
    <3> QED
      BY <2>1, <3>2, FlusherFrame
  <2>5. FlusherInv'
    BY <1>9, <2>3, <2>4 DEF FlushSync
  <2>6. WorkerInv'
    BY <2>1, WorkersKept
  <2> QED
    BY <1>k, <2>1, <2>5, <2>6
<1>10. CASE FlushWrite
  <2>1. /\ Grows /\ place' = place /\ record' = Partials(record, flusher.snapshot)
        /\ sidecar' \in {sidecar, record'} /\ worker' = worker
        /\ attempt' = attempt /\ attempt.pc \in {"pool", "last", "flushed"} /\ flusher.pc = "write"
    BY <1>10 DEF FlushWrite, Grows, FlusherInv
  <2>2. FlushBackedNext(flusher) /\ DurableNext(record)
    BY <1>n, <2>1, GrowthKeeps DEF FlusherInv, RecordInv
  <2>3. \A c \in Chunk : StoredNext(c, flusher.snapshot[c])
    BY <2>1, <2>2 DEF FlushBackedNext
  <2>4. flusher.snapshot \in Offsets
    BY <1>n
  <2>5. DurableNext(record') /\ record'.hash = record.hash
    BY <1>n, <2>1, <2>2, <2>3, <2>4, ClaimsOfRecords DEF DurableNext, StoredNext
  <2>6. flusher'.pc = "idle" /\ flusher'.offsets = flusher.offsets
    BY <1>10, <1>n DEF FlushWrite, FlushEnd, FlushState
  <2>7. FlusherInv'
    BY <2>1, <2>2, <2>6, FlusherFrame DEF FlushBackedNext
  <2>8. WorkerInv'
    BY <2>1, WorkersKept
  <2> QED
    BY <1>d, <2>1, <2>5, <2>7, <2>8
<1> QED
  BY <1>1, <1>2, <1>3, <1>4, <1>5, <1>6, <1>7, <1>8, <1>9, <1>10 DEF Fetch, Flush

\* Every byte is followed from the worker to the sidecar: what each of them claims is in
\* the page cache, and what has been synced is on the device (chunkFlusher, saveCheckpoint).
THEOREM DurableInvariant ==
  ASSUME "noHash" \notin Faults
  PROVE  Spec => []DurableInv
<1>1. Init => DurableInv
  <2>1. Init => TypeOK
    BY ConstantTypes, EmptyTypes, InitialStates DEF Init, TypeOK
  <2> QED
    BY <2>1 DEF Init, DurableInv, SidecarInv, RecordInv, WorkerInv, FlusherInv,
               NoAttempt, NoFlush
<1>2. DurableInv /\ TypeOK' /\ [Next]_vars => DurableInv'
  <2> SUFFICES ASSUME DurableInv, TypeOK', [Next]_vars PROVE DurableInv'
    OBVIOUS
  <2>1. CASE Next
    BY <2>1, AttemptStep, PoolStep DEF Next, DurableInv
  <2>2. CASE UNCHANGED vars
    BY <2>2 DEF vars, disk, DurableInv, SidecarInv, RecordInv, WorkerInv, FlusherInv,
                Durable, Backed, FlushBacked, Read, Stored
  <2> QED
    BY <2>1, <2>2
<1> QED
  BY <1>1, <1>2, DownloadTypes, PTL DEF Spec

\* Whatever is killed, cancelled or loses its power, a sidecar a later attempt
\* resumes from claims only bytes the device has (source_checkpoint.go:276-279).
\* It is false of a drive that leaves the hash out: see the run hash_erased.
THEOREM ClaimsDurable ==
  ASSUME "noHash" \notin Faults
  PROVE  Spec => []ClaimsAreDurable
<1>1. DurableInv => ClaimsAreDurable
  BY DEF DurableInv, SidecarInv, Durable, ClaimsAreDurable
<1> QED
  BY <1>1, DurableInvariant, PTL

\* A file renamed to its final name lost nothing on the way there.
StagedInv ==
  /\ attempt.pc = "rename" => Pending(record) = {}
  /\ StagedIsWhole

\* The file under its final name is one whole revision, also after a power loss
\* (source_download.go:249-254).
THEOREM StagedWhole ==
  ASSUME "noHash" \notin Faults
  PROVE  Spec => []StagedIsWhole
<1>1. Init => StagedInv
  BY DEF Init, StagedInv, StagedIsWhole, NoAttempt
<1>2. ASSUME DurableInv, DurableInv', StagedInv, [Next]_vars
      PROVE  StagedInv'
  <2> USE <1>2, ConstantTypes DEF disk
  <2>p. attempt.pc \in {"save", "pool", "last", "flushed", "rename"} => place = "part"
    BY DEF DurableInv, RecordInv
  <2>f. flusher.pc # "idle" => attempt.pc \in {"pool", "last", "flushed"}
    BY DEF DurableInv, FlusherInv
  <2>t. attempt \in AttemptState /\ page \in Content /\ device \in Content /\ source \in Revision
    BY DEF DurableInv, TypeOK
  \* The record that is renamed is complete.
  <2>1. attempt'.pc = "rename" => Pending(record') = {}
    <3> SUFFICES ASSUME attempt'.pc = "rename"
                 PROVE  Pending(record) = {} /\ record' = record
      OBVIOUS
    <3>1. CASE Download
      <4>1. CASE OpenPool
        BY <2>t, <4>1 DEF OpenPool, AttemptState
      <4>2. CASE Leave
        BY <2>t, <4>2 DEF Leave, NoAttempt
      <4>3. CASE Reuse \/ Resume \/ StartOver \/ Drain \/ Rename \/ RemoveSidecar
        BY <2>t, <4>3
           DEF Reuse, Resume, StartOver, Drain, Rename, RemoveSidecar, NoAttempt,
               AttemptState
      <4> QED
        BY <3>1, <4>1, <4>2, <4>3 DEF Download
    <3>2. ASSUME NEW w \in Workers, Fetch(w) PROVE FALSE
      BY <2>t, <3>2
         DEF Fetch, Take, Try, Receive, Break, Forget, SyncChunk, MarkDone, At, GiveUp,
             AttemptState
    <3>3. CASE Flush
      BY <2>f, <2>t, <3>3
         DEF Flush, FlushStart, FlushSync, FlushWrite, AttemptState
    <3>4. CASE Cancel \/ Replace \/ Discard \/ Kill \/ PowerLoss
      BY <2>t, <3>4
         DEF Cancel, Replace, Discard, Kill, PowerLoss, Stopped, NoAttempt, AttemptState
    <3>5. CASE UNCHANGED vars
      BY <3>5 DEF vars, StagedInv
    <3> QED
      BY <3>1, <3>2, <3>3, <3>4, <3>5 DEF Next
  \* The rename itself.
  <2>2. CASE Rename
    <3>1. Durable(record) /\ Pending(record) = {} /\ page' = page /\ device' = device
      BY <2>2 DEF Rename, DurableInv, RecordInv, StagedInv
    <3>2. \A c \in Chunk, u \in Unit : page[c][u] = source /\ device[c][u] = source
      BY <3>1 DEF Durable, Claims, Pending
    <3>3. /\ page = [c \in Chunk |-> [u \in Unit |-> source]]
          /\ device = [c \in Chunk |-> [u \in Unit |-> source]]
      BY <2>t, <3>2 DEF Content
    <3>4. StagedIsWhole'
      BY <2>t, <3>1, <3>3 DEF StagedIsWhole
    <3> QED
      BY <2>1, <3>4 DEF StagedInv
  \* Nothing else touches the data of a staged file.
  <2>3. CASE ~Rename
    <3>1. ASSUME place' = "staged"
          PROVE  place = "staged"
      BY <2>3, <3>1
         DEF Next, Download, Reuse, Resume, StartOver, OpenPool, Drain, Leave,
             RemoveSidecar, Fetch, Take, Try, Receive, Break, Forget, SyncChunk, MarkDone,
             Flush, FlushStart, FlushSync, FlushWrite, Cancel, Replace, Discard, Kill,
             PowerLoss, vars
    <3>2. ASSUME place' = "staged", place = "staged", ~PowerLoss
          PROVE  page' = page /\ device' = device
      BY <2>3, <2>p, <2>f, <3>2
         DEF Next, Download, Reuse, Resume, StartOver, OpenPool, Drain, Leave,
             RemoveSidecar, Fetch, Take, Try, Receive, Break, Forget, SyncChunk, MarkDone,
             At, Flush, FlushStart, FlushSync, FlushWrite, Cancel, Replace, Discard, Kill,
             vars
    <3>3. ASSUME place = "staged", PowerLoss
          PROVE  page' = page /\ device' = device
      <4>1. page = device
        BY <3>3 DEF StagedInv, StagedIsWhole
      <4>2. page' = page
        BY <2>t, <3>3, <4>1 DEF PowerLoss, Content
      <4> QED
        BY <3>3, <4>1, <4>2 DEF PowerLoss
    <3>4. StagedIsWhole'
      BY <3>1, <3>2, <3>3 DEF StagedInv, StagedIsWhole
    <3> QED
      BY <2>1, <3>4 DEF StagedInv
  <2> QED
    BY <2>2, <2>3
<1>3. StagedInv => StagedIsWhole
  BY DEF StagedInv
<1> QED
  BY <1>1, <1>2, <1>3, DurableInvariant, PTL DEF Spec

----------------------------------------------------------------------------
(* What an attempt that ends leaves behind.  Chunks go to one worker at a    *)
(* time (ApartInv); an offset belongs to a chunk that is not done, and only  *)
(* a worker about to forget it has it full (OffsetInv); and when the flusher *)
(* rests with nothing to flush, record and sidecar have every offset that is *)
(* worth keeping (KeptInv).  Whether the drive reports hashes is no matter.  *)
Engaged == {"try", "fetch", "forget", "sync", "mark"}
Running == attempt.pc \in {"pool", "last", "flushed"}
Tidy(doc) == \A c \in doc.done : doc.partial[c] = 0
Saved(c, n) == record.partial[c] = n /\ sidecar # NoDoc /\ sidecar.partial[c] = n

ApartInv ==
  /\ attempt.pc = "pool" =>
       /\ attempt.todo \cap record.done = {}
       /\ \A w \in Workers : worker[w].pc \in Engaged =>
            /\ worker[w].chunk \notin attempt.todo \cup record.done
            /\ \A v \in Workers :
                 worker[v].pc \in Engaged /\ worker[v].chunk = worker[w].chunk => v = w
  /\ attempt.pc \in {"last", "flushed"} => \A w \in Workers : worker[w].pc = "end"

OffsetInv == Running => \A c \in Chunk :
  /\ flusher.offsets[c] # 0 => c \notin record.done
  /\ flusher.offsets[c] = Units =>
       \E w \in Workers : worker[w].pc = "forget" /\ worker[w].chunk = c
  /\ \A w \in Workers : worker[w].pc \in {"sync", "mark"} /\ worker[w].chunk = c =>
       flusher.offsets[c] = 0

KeptInv ==
  /\ flusher.pc # "idle" => Running
  /\ Tidy(record) /\ (sidecar # NoDoc => Tidy(sidecar))
  /\ attempt.pc = "save" => \A c \in Chunk :
       record.partial[c] # 0 => Saved(c, record.partial[c])
  /\ Running /\ ~flusher.changed =>
       IF flusher.pc = "idle"
       THEN \A c \in Chunk : flusher.offsets[c] \notin {0, Units} => Saved(c, flusher.offsets[c])
       ELSE flusher.snapshot = flusher.offsets

ProgressInv == ApartInv /\ OffsetInv /\ KeptInv

\* A worker that moves on takes no chunk it did not have.
LEMMA ApartMoves ==
  ASSUME TypeOK, ApartInv, attempt.pc = "pool", attempt'.pc = "pool",
         attempt'.todo = attempt.todo, record'.done = record.done,
         NEW w \in Workers, NEW r \in Fetcher, worker' = [worker EXCEPT ![w] = r],
         r.pc \in Engaged => worker[w].pc \in Engaged /\ r.chunk = worker[w].chunk
  PROVE  ApartInv'
<1>1. \A v \in Workers : worker'[v] = IF v = w THEN r ELSE worker[v]
  BY DEF TypeOK
<1>2. \A v \in Workers : worker'[v].pc \in Engaged =>
        worker[v].pc \in Engaged /\ worker'[v].chunk = worker[v].chunk
  BY <1>1
<1> QED
  BY <1>2 DEF ApartInv

\* What the moves of a worker share.
LEMMA WorkerMoves ==
  ASSUME TypeOK, NEW w \in Workers, Fetch(w)
  PROVE  /\ attempt.pc = "pool" /\ attempt'.pc = "pool" /\ place' = place
         /\ worker[w] \in Fetcher /\ worker[w].chunk \in Chunk
         /\ \A v \in Workers : v # w => worker'[v] = worker[v]
         /\ attempt'.todo \subseteq attempt.todo
<1>1. worker[w] \in Fetcher /\ worker[w].chunk \in Chunk
  BY FieldTypes DEF TypeOK
<1>2. attempt.pc = "pool" /\ attempt'.pc = "pool" /\ attempt'.todo \subseteq attempt.todo
  BY DEF Fetch, Take, Try, Receive, Break, Forget, SyncChunk, MarkDone, At, GiveUp, TypeOK,
         AttemptState
<1>3. \A v \in Workers : v # w => worker'[v] = worker[v]
  BY DEF Fetch, Take, Try, Receive, Break, Forget, SyncChunk, MarkDone, GiveUp, Goto, Put,
         TypeOK
<1>4. place' = place
  BY DEF Fetch, Take, Try, Receive, Break, Forget, SyncChunk, MarkDone, disk
<1> QED
  BY <1>1, <1>2, <1>3, <1>4

LEMMA ApartFetch ==
  ASSUME TypeOK, ApartInv, NEW w \in Workers, Fetch(w)
  PROVE  ApartInv'
<1>1. /\ attempt.pc = "pool" /\ attempt'.pc = "pool" /\ worker[w] \in Fetcher
      /\ \A v \in Workers : v # w => worker'[v] = worker[v]
  BY WorkerMoves
<1>2. ASSUME NEW p \in {"end", "sync", "mark"}, worker[w].pc \in Engaged \/ p = "end",
             Goto(w, p), UNCHANGED record, attempt'.todo = attempt.todo
      PROVE  ApartInv'
  <2>1. PICK r \in Fetcher : r = [worker[w] EXCEPT !.pc = p]
    BY <1>1, FetcherTypes
  <2>2. r.pc = p /\ r.chunk = worker[w].chunk
    BY <1>1, <2>1, FetcherFields
  <2>3. worker' = [worker EXCEPT ![w] = r]
    BY <1>2, <2>1 DEF Goto, Put
  <2> QED
    BY <1>1, <1>2, <2>2, <2>3, ApartMoves DEF Engaged
<1>3. GiveUp(w) => Goto(w, "end") /\ attempt'.todo = attempt.todo
  BY DEF GiveUp, TypeOK, AttemptState
<1>4. CASE Take(w)
  <2>1. UNCHANGED record
    BY <1>4 DEF Take
  <2>2. ASSUME NEW c \in attempt.todo, Put(w, [pc |-> "try", chunk |-> c, tries |-> 0, off |-> 0]),
               attempt' = [attempt EXCEPT !.todo = attempt.todo \ {c}]
        PROVE  ApartInv'
    <3>1. worker'[w].pc = "try" /\ worker'[w].chunk = c
      BY <2>2 DEF Put, TypeOK
    <3>2. attempt'.todo = attempt.todo \ {c}
      BY <2>2 DEF TypeOK, AttemptState
    <3>3. c \notin record.done
      BY <1>1, <2>2 DEF ApartInv
    <3>4. \A v \in Workers : v # w /\ worker[v].pc \in Engaged => worker[v].chunk # c
      BY <1>1, <2>2 DEF ApartInv
    <3>5. \A v \in Workers : worker'[v].pc \in Engaged =>
            /\ worker'[v].chunk \notin attempt'.todo \cup record'.done
            /\ \A x \in Workers :
                 worker'[x].pc \in Engaged /\ worker'[x].chunk = worker'[v].chunk => x = v
      BY <1>1, <2>1, <3>1, <3>2, <3>3, <3>4 DEF ApartInv
    <3>6. attempt'.todo \cap record'.done = {}
      BY <1>1, <2>1, <3>2 DEF ApartInv
    <3> QED
      BY <1>1, <3>5, <3>6 DEF ApartInv
  <2>3. CASE Goto(w, "end") /\ UNCHANGED attempt
    BY <1>2, <2>1, <2>3
  <2> QED
    BY <1>4, <2>2, <2>3 DEF Take
<1>5. CASE Try(w)
  <2>1. UNCHANGED record /\ worker[w].pc = "try"
    BY <1>5 DEF Try, At
  <2>2. CASE GiveUp(w)
    BY <1>2, <1>3, <2>1, <2>2
  <2>3. CASE UNCHANGED attempt /\ Put(w, [worker[w] EXCEPT !.pc = "fetch",
                                           !.off = record.partial[worker[w].chunk]])
    <3>1. PICK n \in 0..Units : n = record.partial[worker[w].chunk]
      BY ConstantTypes, WorkerMoves DEF TypeOK, Doc
    <3>2. PICK r \in Fetcher : r = [worker[w] EXCEPT !.pc = "fetch", !.off = n]
      BY <1>1, FetcherTypes
    <3>3. r.pc = "fetch" /\ r.chunk = worker[w].chunk
      BY <1>1, <3>2, FetcherFields
    <3>4. worker' = [worker EXCEPT ![w] = r]
      BY <2>3, <3>1, <3>2 DEF Put
    <3> QED
      BY <1>1, <2>1, <2>3, <3>3, <3>4, ApartMoves DEF Engaged
  <2> QED
    BY <1>5, <2>2, <2>3 DEF Try
<1>6. CASE Receive(w)
  <2>1. UNCHANGED <<record, attempt>> /\ worker[w].pc = "fetch"
    BY <1>6 DEF Receive, At
  <2>2. worker[w].off + 1 \in 0..Units
    BY <1>1, <1>6, ConstantTypes, FieldTypes DEF Receive
  <2>3. PICK n \in 0..Units : n = worker[w].off + 1
    BY <2>2
  <2>4. PICK p \in {"forget", "fetch"} : p = IF n = Units THEN "forget" ELSE "fetch"
    OBVIOUS
  <2>5. PICK r \in Fetcher : r = [worker[w] EXCEPT !.off = n, !.pc = p]
    BY <1>1, FetcherTypes
  <2>6. r.pc = p /\ r.chunk = worker[w].chunk
    BY <1>1, <2>5, FetcherFields
  <2>7. worker' = [worker EXCEPT ![w] = r]
    BY <1>6, <2>3, <2>4, <2>5 DEF Receive, Put
  <2> QED
    BY <1>1, <2>1, <2>6, <2>7, ApartMoves DEF Engaged
<1>7. CASE Break(w)
  <2>1. UNCHANGED record /\ worker[w].pc = "fetch"
    BY <1>7 DEF Break, At
  <2>2. CASE GiveUp(w)
    BY <1>2, <1>3, <2>1, <2>2
  <2>3. CASE /\ UNCHANGED attempt /\ worker[w].tries + 1 < Retry
             /\ Put(w, [worker[w] EXCEPT !.pc = "try", !.tries = worker[w].tries + 1])
    <3>1. PICK n \in 0..(Retry - 1) : n = worker[w].tries + 1
      BY <1>1, <2>3, ConstantTypes, FieldTypes
    <3>2. PICK r \in Fetcher : r = [worker[w] EXCEPT !.pc = "try", !.tries = n]
      BY <1>1, FetcherTypes
    <3>3. r.pc = "try" /\ r.chunk = worker[w].chunk
      BY <1>1, <3>2 DEF Fetcher
    <3>4. worker' = [worker EXCEPT ![w] = r]
      BY <2>3, <3>1, <3>2 DEF Put
    <3> QED
      BY <1>1, <2>1, <2>3, <3>3, <3>4, ApartMoves DEF Engaged
  <2> QED
    BY <1>7, <2>2, <2>3 DEF Break
<1>8. CASE Forget(w)
  BY <1>2, <1>8 DEF Forget, At, Engaged
<1>9. CASE SyncChunk(w)
  <2>1. UNCHANGED record /\ worker[w].pc = "sync" /\ worker[w].pc \in Engaged
    BY <1>9 DEF SyncChunk, At, Engaged
  <2>2. GiveUp(w) \/ (Goto(w, "mark") /\ UNCHANGED attempt)
    BY <1>9 DEF SyncChunk
  <2> QED
    BY <1>2, <1>3, <2>1, <2>2
<1>10. CASE MarkDone(w)
  <2>1. UNCHANGED attempt /\ worker[w].pc = "mark" /\ worker[w].pc \in Engaged
    BY <1>10 DEF MarkDone, At, Engaged
  <2>2. worker'[w].pc = "take"
    BY <1>1, <1>10 DEF MarkDone, Goto, Put, TypeOK, Fetcher
  <2>3. record'.done = record.done \cup {worker[w].chunk}
    BY <1>10 DEF MarkDone, Marked, TypeOK, Doc
  <2>4. "take" \notin Engaged
    BY DEF Engaged
  <2>5. \A v \in Workers : worker'[v].pc \in Engaged => v # w /\ worker'[v] = worker[v]
    BY <1>1, <2>2, <2>4
  <2>6. attempt'.todo \cap record'.done = {}
    BY <1>1, <2>1, <2>3 DEF ApartInv
  <2>7. \A v \in Workers : worker'[v].pc \in Engaged =>
          /\ worker'[v].chunk \notin attempt'.todo \cup record'.done
          /\ \A x \in Workers :
               worker'[x].pc \in Engaged /\ worker'[x].chunk = worker'[v].chunk => x = v
    BY <1>1, <2>1, <2>3, <2>5 DEF ApartInv
  <2> QED
    BY <1>1, <2>6, <2>7 DEF ApartInv
<1> QED
  BY <1>4, <1>5, <1>6, <1>7, <1>8, <1>9, <1>10 DEF Fetch

LEMMA ApartStep ==
  ASSUME TypeOK, TypeOK', KeptInv, ApartInv, [Next]_vars
  PROVE  ApartInv'
<1>1. ASSUME NEW w \in Workers, Fetch(w) PROVE ApartInv'
  BY <1>1, ApartFetch
<1>2. attempt'.pc = "idle" => ApartInv'
  BY DEF ApartInv
<1>3. CASE Download
  <2>1. CASE OpenPool
    <3>1. CASE Pending(record) = {}
      <4>1. attempt'.pc = "rename"
        BY <2>1, <3>1 DEF OpenPool, TypeOK, AttemptState
      <4> QED
        BY <4>1 DEF ApartInv
    <3>2. CASE Pending(record) # {}
      <4>1. attempt'.pc = "pool" /\ attempt'.todo = Pending(record) /\ UNCHANGED record
        BY <2>1, <3>2 DEF OpenPool, TypeOK, AttemptState
      <4>2. \A w \in Workers : worker'[w].pc = "take"
        BY <2>1, <3>2 DEF OpenPool, IdleWorker
      <4> QED
        BY <4>1, <4>2 DEF ApartInv, Pending, Engaged
    <3> QED
      BY <3>1, <3>2
  <2>2. CASE Drain
    BY <2>2 DEF Drain, ApartInv, TypeOK, AttemptState
  <2>3. CASE Reuse \/ Resume \/ StartOver \/ Leave \/ Rename \/ RemoveSidecar
    <3>1. attempt'.pc \notin {"pool", "last", "flushed"}
      BY <2>3 DEF Reuse, Resume, StartOver, Leave, Rename, RemoveSidecar, NoAttempt, TypeOK,
                  AttemptState
    <3> QED
      BY <3>1 DEF ApartInv
  <2> QED
    BY <1>3, <2>1, <2>2, <2>3 DEF Download
<1>4. CASE Flush
  <2>1. /\ UNCHANGED worker /\ record'.done = record.done
        /\ attempt' = attempt \/ (attempt.pc = "last" /\ attempt'.pc = "flushed")
    BY <1>4 DEF Flush, FlushStart, FlushSync, FlushWrite, Partials, disk, TypeOK, Doc,
                AttemptState
  <2> QED
    BY <2>1 DEF ApartInv
<1>5. CASE Cancel
  <2>1. /\ UNCHANGED <<worker, record>> /\ attempt'.pc = attempt.pc
        /\ attempt'.todo = attempt.todo
    BY <1>5 DEF Cancel, TypeOK, AttemptState
  <2> QED
    BY <2>1 DEF ApartInv
<1>6. CASE Replace \/ Discard \/ Kill \/ PowerLoss
  <2>1. attempt'.pc = "idle"
    BY <1>6 DEF Replace, Discard, Kill, PowerLoss, Stopped, NoAttempt
  <2> QED
    BY <1>2, <2>1
<1>7. CASE UNCHANGED vars
  BY <1>7 DEF vars, ApartInv
<1> QED
  BY <1>1, <1>3, <1>4, <1>5, <1>6, <1>7 DEF Next

\* A step that moves no offset: the chunks that are done and the workers stay, or
\* one worker leaves a chunk whose offset is 0 or below the end.
LEMMA OffsetKept ==
  ASSUME OffsetInv, Running, flusher'.offsets = flusher.offsets,
         record'.done = record.done,
         \A v \in Workers : worker[v].pc = "forget" => worker'[v] = worker[v],
         \A v \in Workers : worker'[v].pc \in {"sync", "mark"} =>
           worker[v].pc \in {"sync", "mark"} /\ worker'[v].chunk = worker[v].chunk
  PROVE  OffsetInv'
<1> SUFFICES ASSUME NEW c \in Chunk
             PROVE  /\ flusher.offsets[c] # 0 => c \notin record.done
                    /\ flusher.offsets[c] = Units =>
                         \E w \in Workers : worker'[w].pc = "forget" /\ worker'[w].chunk = c
                    /\ \A w \in Workers :
                         worker'[w].pc \in {"sync", "mark"} /\ worker'[w].chunk = c =>
                           flusher.offsets[c] = 0
  BY DEF OffsetInv
<1>1. flusher.offsets[c] # 0 => c \notin record.done
  BY DEF OffsetInv
<1>2. flusher.offsets[c] = Units =>
        \E w \in Workers : worker'[w].pc = "forget" /\ worker'[w].chunk = c
  BY DEF OffsetInv
<1>3. \A w \in Workers : worker'[w].pc \in {"sync", "mark"} /\ worker'[w].chunk = c =>
        flusher.offsets[c] = 0
  BY DEF OffsetInv
<1> QED
  BY <1>1, <1>2, <1>3

\* The offset of one worker's chunk moves.
LEMMA OffsetMoves ==
  ASSUME TypeOK, OffsetInv, ApartInv, Running, attempt.pc = "pool",
         NEW w \in Workers, worker[w].pc \in Engaged,
         NEW n \in 0..Units, flusher'.offsets = [flusher.offsets EXCEPT ![worker[w].chunk] = n],
         record'.done = record.done,
         \A v \in Workers : v # w => worker'[v] = worker[v],
         worker'[w].chunk = worker[w].chunk,
         n = Units => worker'[w].pc = "forget",
         n # 0 => worker[w].pc \notin {"sync", "mark"} /\ worker'[w].pc \notin {"sync", "mark"}
  PROVE  OffsetInv'
<1> DEFINE c == worker[w].chunk
<1>1. c \in Chunk /\ flusher.offsets \in Offsets
  BY FieldTypes DEF TypeOK
<1>2. \A d \in Chunk : flusher'.offsets[d] = IF d = c THEN n ELSE flusher.offsets[d]
  BY <1>1 DEF Offsets
<1>3. c \notin record.done /\ \A v \in Workers : v # w /\ worker[v].pc \in Engaged => worker[v].chunk # c
  BY DEF ApartInv
<1> HIDE DEF c
<1>4. ASSUME NEW d \in Chunk, flusher'.offsets[d] # 0  PROVE d \notin record'.done
  BY <1>2, <1>3, <1>4 DEF OffsetInv
<1>5. ASSUME NEW d \in Chunk, flusher'.offsets[d] = Units
      PROVE  \E v \in Workers : worker'[v].pc = "forget" /\ worker'[v].chunk = d
  <2>1. CASE d = c
    BY <1>2, <1>5, <2>1 DEF c
  <2>2. CASE d # c
    <3>1. PICK v \in Workers : worker[v].pc = "forget" /\ worker[v].chunk = d
      BY <1>2, <1>5, <2>2 DEF OffsetInv
    <3>2. v # w
      BY <2>2, <3>1 DEF c
    <3> QED
      BY <3>1, <3>2
  <2> QED
    BY <2>1, <2>2
<1>6. ASSUME NEW d \in Chunk, NEW v \in Workers, worker'[v].pc \in {"sync", "mark"},
             worker'[v].chunk = d
      PROVE  flusher'.offsets[d] = 0
  <2>1. CASE v = w
    BY <1>2, <1>6, <2>1 DEF c
  <2>2. CASE v # w
    <3>1. worker[v].pc \in {"sync", "mark"} /\ worker[v].chunk = d
      BY <1>6, <2>2
    <3>2. d # c
      BY <1>3, <2>2, <3>1 DEF Engaged
    <3> QED
      BY <1>2, <3>1, <3>2 DEF OffsetInv
  <2> QED
    BY <2>1, <2>2
<1> QED
  BY <1>4, <1>5, <1>6 DEF OffsetInv

\* Receiving and forgetting, as the flusher sees them.
LEMMA OffsetIsNoted ==
  ASSUME TypeOK, NEW w \in Workers, Receive(w) \/ Forget(w)
  PROVE  \E n \in 0..Units :
           /\ flusher'.offsets = [flusher.offsets EXCEPT ![worker[w].chunk] = n]
           /\ flusher'.pc = flusher.pc /\ flusher'.snapshot = flusher.snapshot
           /\ ~flusher'.changed => ~flusher.changed /\ flusher'.offsets = flusher.offsets
           /\ worker'[w].chunk = worker[w].chunk /\ worker[w].pc \in {"fetch", "forget"}
           /\ n = Units => worker'[w].pc = "forget"
           /\ n # 0 => worker'[w].pc # "sync" /\ worker'[w].pc # "mark"
<1>1. worker[w] \in Fetcher /\ worker[w].chunk \in Chunk /\ flusher \in FlushState
      /\ flusher.offsets \in Offsets
  BY FieldTypes DEF TypeOK
<1>2. ASSUME NEW n \in 0..Units, NEW b \in BOOLEAN,
             b = (flusher.changed \/ flusher.offsets[worker[w].chunk] # n),
             flusher' = [flusher EXCEPT !.offsets[worker[w].chunk] = n, !.changed = b]
      PROVE  /\ flusher'.offsets = [flusher.offsets EXCEPT ![worker[w].chunk] = n]
             /\ flusher'.pc = flusher.pc /\ flusher'.snapshot = flusher.snapshot
             /\ ~flusher'.changed => ~flusher.changed /\ flusher'.offsets = flusher.offsets
  <2>1. /\ flusher'.offsets = [flusher.offsets EXCEPT ![worker[w].chunk] = n]
        /\ flusher'.pc = flusher.pc /\ flusher'.snapshot = flusher.snapshot
        /\ flusher'.changed = b
    BY <1>1, <1>2 DEF FlushState
  <2>2. flusher.offsets[worker[w].chunk] = n =>
          [flusher.offsets EXCEPT ![worker[w].chunk] = n] = flusher.offsets
    BY <1>1 DEF Offsets
  <2> QED
    BY <1>2, <2>1, <2>2
<1>3. CASE Receive(w)
  <2>1. worker[w].pc = "fetch" /\ worker[w].off + 1 \in 0..Units /\ worker[w].off \in Nat
    BY <1>1, <1>3, ConstantTypes, FieldTypes DEF Receive, At
  <2>2. PICK n \in 0..Units : n = worker[w].off + 1
    BY <2>1
  <2>3. n # 0
    BY <2>1, <2>2
  <2>4. PICK p \in {"forget", "fetch"} : p = IF n = Units THEN "forget" ELSE "fetch"
    OBVIOUS
  <2>5. worker'[w] = [worker[w] EXCEPT !.off = n, !.pc = p]
    BY <1>3, <2>2, <2>4 DEF Receive, Put, TypeOK
  <2>6. worker'[w].pc = p /\ worker'[w].chunk = worker[w].chunk
    BY <1>1, <2>5, FetcherFields
  <2>7. PICK b \in BOOLEAN : b = (flusher.changed \/ flusher.offsets[worker[w].chunk] # n)
    OBVIOUS
  <2>8. flusher' = [flusher EXCEPT !.offsets[worker[w].chunk] = n, !.changed = b]
    BY <1>1, <1>3, <2>2, <2>7 DEF Receive
  <2> QED
    BY <1>2, <2>1, <2>3, <2>4, <2>6, <2>7, <2>8
<1>4. CASE Forget(w)
  <2>1. worker[w].pc = "forget" /\ 0 \in 0..Units /\ Units # 0
    BY <1>4, ConstantTypes DEF Forget, At
  <2>2. worker'[w] = [worker[w] EXCEPT !.pc = "sync"]
    BY <1>4 DEF Forget, Goto, Put, TypeOK
  <2>3. worker'[w].chunk = worker[w].chunk
    BY <1>1, <2>2, FetcherFields
  <2>4. PICK b \in BOOLEAN : b = (flusher.changed \/ flusher.offsets[worker[w].chunk] # 0)
    OBVIOUS
  <2>5. flusher' = [flusher EXCEPT !.offsets[worker[w].chunk] = 0, !.changed = b]
    BY <1>1, <1>4, <2>4 DEF Forget
  <2> QED
    BY <1>2, <2>1, <2>3, <2>4, <2>5
<1> QED
  BY <1>3, <1>4

LEMMA OffsetStep ==
  ASSUME TypeOK, TypeOK', ProgressInv, [Next]_vars
  PROVE  OffsetInv'
<1> USE DEF ProgressInv
<1>0. ~Running' => OffsetInv'
  BY DEF OffsetInv
<1>1. ASSUME NEW w \in Workers, Receive(w) \/ Forget(w)  PROVE OffsetInv'
  <2>1. /\ attempt.pc = "pool" /\ \A v \in Workers : v # w => worker'[v] = worker[v]
    BY <1>1, WorkerMoves DEF Fetch
  <2>2. record'.done = record.done
    BY <1>1 DEF Receive, Forget
  <2>3. PICK n \in 0..Units :
           /\ flusher'.offsets = [flusher.offsets EXCEPT ![worker[w].chunk] = n]
           /\ worker'[w].chunk = worker[w].chunk /\ worker[w].pc \in {"fetch", "forget"}
           /\ n = Units => worker'[w].pc = "forget"
           /\ n # 0 => worker'[w].pc # "sync" /\ worker'[w].pc # "mark"
    BY <1>1, OffsetIsNoted
  <2> QED
    BY <2>1, <2>2, <2>3, OffsetMoves DEF Running, Engaged
<1>2. ASSUME NEW w \in Workers, Take(w) \/ Try(w) \/ Break(w) \/ SyncChunk(w)
      PROVE  OffsetInv'
  <2>1. /\ attempt.pc = "pool" /\ worker[w] \in Fetcher
        /\ \A v \in Workers : v # w => worker'[v] = worker[v]
    BY <1>2, WorkerMoves DEF Fetch
  <2>2. flusher' = flusher /\ record' = record /\ worker[w].pc # "forget"
    BY <1>2 DEF Take, Try, Break, SyncChunk, At
  <2>3. worker'[w].pc \in {"sync", "mark"} =>
          worker[w].pc = "sync" /\ worker'[w].chunk = worker[w].chunk
    <3>1. worker \in [Workers -> Fetcher]
      BY DEF TypeOK
    <3>2. \A p : Goto(w, p) => worker'[w].pc = p /\ worker'[w].chunk = worker[w].chunk
      BY <2>1, <3>1, FetcherFields DEF Goto, Put
    <3>3. GiveUp(w) => worker'[w].pc = "end"
      BY <3>2 DEF GiveUp
    <3>4. CASE Take(w)
      BY <3>1, <3>2, <3>4 DEF Take, Put
    <3>5. CASE Try(w)
      <4>1. GiveUp(w) \/ worker'[w] = [worker[w] EXCEPT !.pc = "fetch",
                                        !.off = record.partial[worker[w].chunk]]
        BY <3>1, <3>5 DEF Try, Put
      <4>2. [worker[w] EXCEPT !.pc = "fetch", !.off = record.partial[worker[w].chunk]].pc = "fetch"
        BY <2>1 DEF Fetcher
      <4>3. worker'[w].pc \in {"end", "fetch"}
        BY <3>3, <4>1, <4>2
      <4> QED
        BY <4>3
    <3>6. CASE Break(w)
      <4>1. GiveUp(w) \/ worker'[w] = [worker[w] EXCEPT !.pc = "try",
                                        !.tries = worker[w].tries + 1]
        BY <3>1, <3>6 DEF Break, Put
      <4>2. [worker[w] EXCEPT !.pc = "try", !.tries = worker[w].tries + 1].pc = "try"
        BY <2>1 DEF Fetcher
      <4>3. worker'[w].pc \in {"end", "try"}
        BY <3>3, <4>1, <4>2
      <4> QED
        BY <4>3
    <3>7. CASE SyncChunk(w)
      <4>1. worker[w].pc = "sync" /\ (GiveUp(w) \/ Goto(w, "mark"))
        BY <3>7 DEF SyncChunk, At
      <4> QED
        BY <3>2, <3>3, <4>1
    <3> QED
      BY <1>2, <3>4, <3>5, <3>6, <3>7
  <2>4. \A v \in Workers : worker'[v].pc \in {"sync", "mark"} =>
          worker[v].pc \in {"sync", "mark"} /\ worker'[v].chunk = worker[v].chunk
    BY <2>1, <2>3
  <2>5. \A v \in Workers : worker[v].pc = "forget" => worker'[v] = worker[v]
    BY <2>1, <2>2
  <2> QED
    BY <2>1, <2>2, <2>4, <2>5, OffsetKept DEF Running
<1>3. ASSUME NEW w \in Workers, MarkDone(w)  PROVE OffsetInv'
  <2>1. /\ attempt.pc = "pool" /\ worker[w].chunk \in Chunk
        /\ \A v \in Workers : v # w => worker'[v] = worker[v]
    BY <1>3, WorkerMoves DEF Fetch
  <2>2. /\ flusher' = flusher /\ worker[w].pc = "mark"
        /\ record'.done = record.done \cup {worker[w].chunk}
    BY <1>3 DEF MarkDone, At, Marked, TypeOK, Doc
  <2>3. worker'[w].pc = "take"
    BY <1>3 DEF MarkDone, Goto, Put, TypeOK, Fetcher
  <2>4. flusher.offsets[worker[w].chunk] = 0
    BY <2>1, <2>2 DEF OffsetInv, Running
  <2>5. ASSUME NEW c \in Chunk, flusher'.offsets[c] # 0  PROVE c \notin record'.done
    BY <2>1, <2>2, <2>4, <2>5 DEF OffsetInv, Running
  <2>6. ASSUME NEW c \in Chunk, flusher'.offsets[c] = Units
        PROVE  \E v \in Workers : worker'[v].pc = "forget" /\ worker'[v].chunk = c
    <3>1. PICK v \in Workers : worker[v].pc = "forget" /\ worker[v].chunk = c
      BY <2>1, <2>2, <2>6 DEF OffsetInv, Running
    <3>2. v # w
      BY <2>2, <3>1
    <3> QED
      BY <2>1, <3>1, <3>2
  <2>7. ASSUME NEW c \in Chunk, NEW v \in Workers, worker'[v].pc \in {"sync", "mark"},
               worker'[v].chunk = c
        PROVE  flusher'.offsets[c] = 0
    <3>1. v # w
      BY <2>3, <2>7
    <3> QED
      BY <2>1, <2>2, <2>7, <3>1 DEF OffsetInv, Running
  <2> QED
    BY <2>5, <2>6, <2>7 DEF OffsetInv
<1>4. CASE Flush
  <2>1. /\ UNCHANGED worker /\ record'.done = record.done /\ Running
        /\ flusher'.offsets = flusher.offsets
    BY <1>4 DEF Flush, FlushStart, FlushSync, FlushWrite, FlushEnd, Partials, disk, TypeOK, Doc,
                FlushState, KeptInv, Running
  <2> QED
    BY <2>1, OffsetKept
<1>5. CASE Drain \/ Cancel
  <2>1. UNCHANGED <<worker, record, flusher>> /\ Running
    BY <1>5 DEF Drain, Cancel, Running
  <2> QED
    BY <2>1, OffsetKept
<1>6. CASE OpenPool
  <2>1. CASE Pending(record) = {}
    <3>1. ~Running'
      BY <1>6, <2>1 DEF OpenPool, Running, TypeOK, AttemptState
    <3> QED
      BY <1>0, <3>1
  <2>2. CASE Pending(record) # {}
    <3>1. flusher'.offsets = record.partial /\ UNCHANGED record
      BY <1>6, <2>2 DEF OpenPool, NoFlush
    <3>2. \A w \in Workers : worker'[w].pc = "take"
      BY <1>6, <2>2 DEF OpenPool, IdleWorker
    <3>3. \A c \in Chunk : record.partial[c] # Units
      BY SizeAssumption DEF TypeOK, Doc, Unit
    <3> QED
      BY <3>1, <3>2, <3>3 DEF OffsetInv, KeptInv, Tidy
  <2> QED
    BY <2>1, <2>2
<1>7. CASE Reuse \/ Resume \/ StartOver \/ Leave \/ Rename \/ RemoveSidecar \/ Replace \/ Discard
           \/ Kill \/ PowerLoss
  <2>1. ~Running'
    BY <1>7 DEF Reuse, Resume, StartOver, Leave, Rename, RemoveSidecar, Replace, Discard, Kill,
                PowerLoss, Stopped, NoAttempt, Running, TypeOK, AttemptState
  <2> QED
    BY <1>0, <2>1
<1>8. CASE UNCHANGED vars
  BY <1>8 DEF vars, OffsetInv, Running
<1> QED
  BY <1>1, <1>2, <1>3, <1>4, <1>5, <1>6, <1>7, <1>8 DEF Next, Download, Fetch

\* A step that leaves the flusher, the record and the sidecar alone.
LEMMA KeptStill ==
  ASSUME KeptInv, UNCHANGED <<record, sidecar, flusher>>, attempt'.pc # "save",
         Running <=> Running'
  PROVE  KeptInv'
BY DEF KeptInv, Tidy, Saved

\* A step after which nothing runs.
LEMMA KeptIdle ==
  ASSUME ~Running', flusher'.pc = "idle", attempt'.pc # "save", Tidy(record'),
         sidecar' # NoDoc => Tidy(sidecar')
  PROVE  KeptInv'
BY DEF KeptInv, Tidy

LEMMA TidyTypes ==
  ASSUME NEW doc \in Doc, Tidy(doc)
  PROVE  /\ \A hash \in Revision \cup {0} : Tidy([doc EXCEPT !.hash = hash])
         /\ \A c \in Chunk : Tidy(Marked(doc, c))
         /\ \A offsets : Tidy(Partials(doc, offsets))
         /\ \A hash : Tidy(EmptyDoc(hash))
BY DEF Tidy, Doc, Marked, Partials, EmptyDoc

LEMMA KeptStep ==
  ASSUME TypeOK, TypeOK', ProgressInv, [Next]_vars
  PROVE  KeptInv'
<1> USE DEF ProgressInv
<1>r. /\ record \in Doc /\ sidecar \in Doc \cup {NoDoc} /\ flusher \in FlushState
      /\ attempt \in AttemptState /\ flusher.offsets \in Offsets
      /\ flusher.snapshot \in Offsets /\ attempt.pc \in {"idle", "save", "pool", "last",
                                                         "flushed", "rename", "remove"}
  BY FieldTypes DEF TypeOK, AttemptState
<1>t. Tidy(record) /\ (sidecar # NoDoc => Tidy(sidecar)) /\ \A hash : Tidy(EmptyDoc(hash))
  BY <1>r, TidyTypes DEF KeptInv
<1>1. ASSUME NEW w \in Workers, Receive(w) \/ Forget(w)  PROVE KeptInv'
  <2>1. attempt.pc = "pool" /\ attempt'.pc = "pool"
    BY <1>1, WorkerMoves DEF Fetch
  <2>2. UNCHANGED <<record, sidecar>>
    BY <1>1 DEF Receive, Forget, disk
  <2>3. /\ flusher'.pc = flusher.pc /\ flusher'.snapshot = flusher.snapshot
        /\ ~flusher'.changed => ~flusher.changed /\ flusher'.offsets = flusher.offsets
    BY <1>1, OffsetIsNoted
  <2> QED
    BY <2>1, <2>2, <2>3 DEF KeptInv, Running, Tidy, Saved
<1>2. ASSUME NEW w \in Workers, Take(w) \/ Try(w) \/ Break(w) \/ SyncChunk(w)
      PROVE  KeptInv'
  <2>1. attempt.pc = "pool" /\ attempt'.pc = "pool"
    BY <1>2, WorkerMoves DEF Fetch
  <2>2. UNCHANGED <<record, sidecar, flusher>>
    BY <1>2 DEF Take, Try, Break, SyncChunk, disk
  <2> QED
    BY <2>1, <2>2, KeptStill DEF Running
<1>3. ASSUME NEW w \in Workers, MarkDone(w)  PROVE KeptInv'
  <2> DEFINE c == worker[w].chunk
  <2>1. attempt.pc = "pool" /\ attempt'.pc = "pool" /\ c \in Chunk
    BY <1>3, WorkerMoves DEF Fetch
  <2>2. /\ flusher' = flusher /\ worker[w].pc = "mark"
        /\ record' = Marked(record, c) /\ sidecar' \in {sidecar, record'}
    BY <1>3 DEF MarkDone, At, Write
  <2>3. flusher.offsets[c] = 0
    BY <2>1, <2>2 DEF OffsetInv, Running
  <2>4. Tidy(record')
    BY <1>r, <1>t, <2>1, <2>2, TidyTypes
  <2>5. \A d \in Chunk : d # c => record'.partial[d] = record.partial[d]
    BY <1>r, <2>1, <2>2 DEF Marked, Doc
  <2>6. record' # NoDoc
    BY NoDocAssumption DEF TypeOK
  <2> HIDE DEF c
  <2>7. ASSUME NEW d \in Chunk, flusher.offsets[d] # 0, Saved(d, flusher.offsets[d])
        PROVE  Saved(d, flusher.offsets[d])'
    <3>1. record'.partial[d] = record.partial[d]
      BY <2>3, <2>5, <2>7
    <3> QED
      BY <2>2, <2>6, <2>7, <3>1 DEF Saved
  <2>8. sidecar' # NoDoc => Tidy(sidecar')
    BY <1>t, <2>2, <2>4
  <2> QED
    BY <2>1, <2>2, <2>4, <2>7, <2>8 DEF KeptInv, Running, Tidy
<1>4. CASE FlushStart
  <2>1. UNCHANGED <<record, sidecar>> /\ Running /\ Running' /\ attempt'.pc # "save"
    BY <1>r, <1>4 DEF FlushStart, disk, Running, AttemptState
  <2>2. flusher'.pc = "sync" /\ flusher'.snapshot = flusher'.offsets
    BY <1>r, <1>4 DEF FlushStart, FlushState
  <2> QED
    BY <1>t, <2>1, <2>2 DEF KeptInv, Tidy
<1>5. CASE FlushSync
  <2>1. /\ UNCHANGED <<record, sidecar, attempt>> /\ flusher.pc = "sync"
    BY <1>5 DEF FlushSync
  <2>2. Running /\ attempt'.pc # "save" /\ Running'
    BY <2>1 DEF KeptInv, Running
  <2>3. CASE flusher' = [flusher EXCEPT !.pc = "write"]
    <3>1. /\ flusher'.pc = "write" /\ flusher'.snapshot = flusher.snapshot
          /\ flusher'.offsets = flusher.offsets /\ flusher'.changed = flusher.changed
      BY <1>r, <2>3 DEF FlushState
    <3> QED
      BY <1>t, <2>1, <2>2, <3>1 DEF KeptInv, Tidy
  <2>4. CASE FlushEnd(TRUE)
    <3>1. flusher'.pc = "idle" /\ flusher'.changed
      BY <1>r, <2>4 DEF FlushEnd, FlushState
    <3> QED
      BY <1>t, <2>1, <2>2, <3>1 DEF KeptInv, Tidy
  <2> QED
    BY <1>5, <2>3, <2>4 DEF FlushSync
<1>6. CASE FlushWrite
  <2>1. /\ record' = Partials(record, flusher.snapshot) /\ sidecar' \in {sidecar, record'}
        /\ UNCHANGED attempt /\ flusher.pc = "write"
    BY <1>6 DEF FlushWrite
  <2>2. Running /\ attempt'.pc # "save" /\ Running'
    BY <2>1 DEF KeptInv, Running
  <2>3. flusher'.pc = "idle" /\ flusher'.offsets = flusher.offsets
    BY <1>r, <1>6 DEF FlushWrite, FlushEnd, FlushState
  <2>4. Tidy(record') /\ (sidecar' # NoDoc => Tidy(sidecar'))
    BY <1>r, <1>t, <2>1, TidyTypes
  <2>5. ASSUME ~flusher'.changed  PROVE sidecar' = record' /\ ~flusher.changed
    BY <1>r, <1>6, <2>1, <2>5 DEF FlushWrite, FlushEnd, FlushState
  <2>6. ASSUME ~flusher'.changed, NEW c \in Chunk, flusher.offsets[c] \notin {0, Units}
        PROVE  Saved(c, flusher.offsets[c])'
    <3>1. flusher.snapshot = flusher.offsets
      BY <2>1, <2>2, <2>5, <2>6 DEF KeptInv
    <3>2. c \notin record.done
      BY <2>2, <2>6 DEF OffsetInv
    <3>3. flusher.offsets[c] < Units
      BY <1>r, <2>6, ConstantTypes DEF Offsets
    <3>4. record'.partial[c] = flusher.offsets[c]
      BY <1>r, <2>1, <3>1, <3>2, <3>3 DEF Partials, Doc
    <3>5. record' # NoDoc
      BY NoDocAssumption DEF TypeOK
    <3> QED
      BY <2>3, <2>5, <2>6, <3>4, <3>5 DEF Saved
  <2> QED
    BY <2>2, <2>3, <2>4, <2>6 DEF KeptInv, Tidy
<1>7. CASE Drain \/ Cancel
  <2>1. UNCHANGED <<record, sidecar, flusher>> /\ Running /\ Running' /\ attempt'.pc # "save"
    BY <1>r, <1>7 DEF Drain, Cancel, disk, Running, AttemptState
  <2> QED
    BY <2>1, KeptStill
<1>8. CASE Resume
  <2>1. PICK hash \in Revision \cup {0} : /\ Matches(sidecar, hash)
                                          /\ record' = [sidecar EXCEPT !.hash = hash]
    BY <1>8 DEF Resume, Reported, TypeOK
  <2>2. /\ sidecar \in Doc /\ sidecar # NoDoc /\ UNCHANGED <<sidecar, flusher>>
        /\ attempt.pc = "idle" /\ attempt'.pc = "save"
    BY <1>r, <1>8, <2>1 DEF Resume, Matches, disk, AttemptState
  <2>3. record'.partial = sidecar.partial /\ Tidy(record')
    BY <1>t, <2>1, <2>2, TidyTypes DEF Doc
  <2> QED
    BY <1>t, <2>2, <2>3 DEF KeptInv, Running, Saved, Tidy
<1>9. CASE StartOver
  <2>1. PICK hash : record' = EmptyDoc(hash)
    BY <1>9 DEF StartOver
  <2>2. UNCHANGED <<sidecar, flusher>> /\ attempt.pc = "idle" /\ attempt'.pc = "save"
    BY <1>r, <1>9 DEF StartOver, AttemptState
  <2>3. \A c \in Chunk : record'.partial[c] = 0
    BY <2>1 DEF EmptyDoc, NoOffsets
  <2> QED
    BY <1>t, <2>1, <2>2, <2>3 DEF KeptInv, Running, Tidy
<1>10. CASE OpenPool
  <2>1. /\ attempt.pc = "save" /\ UNCHANGED record /\ sidecar' \in {sidecar, record}
        /\ record # NoDoc
    BY <1>r, <1>10, NoDocAssumption DEF OpenPool, Write
  <2>2. flusher.pc = "idle"
    BY <2>1 DEF KeptInv, Running
  <2>3. CASE Pending(record) = {}
    <3>1. attempt'.pc = "rename" /\ UNCHANGED flusher
      BY <1>r, <1>10, <2>3 DEF OpenPool, AttemptState
    <3> QED
      BY <1>t, <2>1, <2>2, <3>1, KeptIdle DEF Running
  <2>4. CASE Pending(record) # {}
    <3>1. flusher'.pc = "idle" /\ flusher'.offsets = record.partial /\ attempt'.pc = "pool"
      BY <1>r, <1>10, <2>4 DEF OpenPool, NoFlush, AttemptState
    <3>2. \A c \in Chunk : record.partial[c] # 0 => Saved(c, record.partial[c])'
      BY <2>1 DEF KeptInv, Saved
    <3> QED
      BY <1>t, <2>1, <3>1, <3>2 DEF KeptInv, Running, Tidy
  <2> QED
    BY <2>3, <2>4
<1>11. CASE Leave \/ Kill \/ PowerLoss
  <2>1. /\ ~Running' /\ attempt'.pc # "save" /\ flusher'.pc = "idle"
        /\ sidecar' \in {sidecar, NoDoc}
        /\ record' = record \/ record' = EmptyDoc(0)
    BY <1>11 DEF Leave, Kill, PowerLoss, Stopped, NoAttempt, NoFlush, Running, disk
  <2> QED
    BY <1>t, <2>1, KeptIdle
<1>12. CASE Reuse \/ Rename \/ RemoveSidecar \/ Replace \/ Discard
  <2>1. /\ attempt.pc \in {"idle", "rename", "remove"} /\ ~Running' /\ attempt'.pc # "save"
        /\ UNCHANGED <<record, flusher>> /\ sidecar' \in {sidecar, NoDoc}
    BY <1>r, <1>12 DEF Reuse, Rename, RemoveSidecar, Replace, Discard, NoAttempt, Running, disk,
                       AttemptState
  <2>2. flusher.pc = "idle"
    BY <2>1 DEF KeptInv, Running
  <2> QED
    BY <1>t, <2>1, <2>2, KeptIdle
<1>13. CASE UNCHANGED vars
  BY <1>13 DEF vars, disk, KeptInv, Running, Tidy, Saved
<1> QED
  BY <1>1, <1>2, <1>3, <1>4, <1>5, <1>6, <1>7, <1>8, <1>9, <1>10, <1>11, <1>12, <1>13
     DEF Next, Download, Fetch, Flush

\* Workers keep to chunks of their own, and what the flusher has written since it was
\* last told of progress is all there is (downloadChunks, chunkFlusher).
THEOREM ProgressInvariant == Spec => []ProgressInv
<1>1. Init => ProgressInv
  BY DEF Init, ProgressInv, ApartInv, OffsetInv, KeptInv, Running, NoAttempt, NoFlush, EmptyDoc,
         Tidy
<1>2. TypeOK /\ TypeOK' /\ ProgressInv /\ [Next]_vars => ProgressInv'
  BY ApartStep, OffsetStep, KeptStep DEF ProgressInv
<1> QED
  BY <1>1, <1>2, DownloadTypes, PTL DEF Spec

\* A last flush that went through has written the whole record.
HealedInv ==
  attempt.pc = "flushed" /\ flusher.pc = "idle" /\ ~flusher.changed =>
    sidecar # NoDoc /\ sidecar = record

LEMMA HealedStep ==
  ASSUME TypeOK, TypeOK', HealedInv, [Next]_vars
  PROVE  HealedInv'
<1>1. ASSUME attempt'.pc # "flushed"  PROVE HealedInv'
  BY <1>1 DEF HealedInv
<1>2. attempt \in AttemptState /\ flusher \in FlushState
  BY DEF TypeOK
<1>3. ASSUME NEW w \in Workers, Fetch(w)  PROVE HealedInv'
  BY <1>1, <1>3, WorkerMoves
<1>4. CASE FlushStart
  <2>1. flusher'.pc = "sync"
    BY <1>2, <1>4 DEF FlushStart, FlushState
  <2> QED
    BY <2>1 DEF HealedInv
<1>5. CASE FlushSync
  <2>1. flusher'.pc = "write" \/ flusher'.changed
    BY <1>2, <1>5 DEF FlushSync, FlushEnd, FlushState
  <2> QED
    BY <2>1 DEF HealedInv
<1>6. CASE FlushWrite
  <2>1. flusher'.changed \/ sidecar' = record'
    BY <1>2, <1>6 DEF FlushWrite, FlushEnd, FlushState
  <2>2. record' # NoDoc
    BY NoDocAssumption DEF TypeOK
  <2> QED
    BY <2>1, <2>2 DEF HealedInv
<1>7. CASE Download
  <2>1. CASE Reuse
    <3>1. attempt'.pc = "idle"
      BY <2>1 DEF Reuse
    <3> QED
      BY <1>1, <3>1
  <2>2. CASE Resume \/ StartOver \/ OpenPool
    <3>1. attempt'.pc \in {"save", "pool", "rename"}
      BY <1>2, <2>2 DEF Resume, StartOver, OpenPool, AttemptState
    <3> QED
      BY <1>1, <3>1
  <2>3. CASE Drain \/ Rename
    <3>1. attempt'.pc \in {"last", "remove"}
      BY <1>2, <2>3 DEF Drain, Rename, AttemptState
    <3> QED
      BY <1>1, <3>1
  <2>4. CASE Leave \/ RemoveSidecar
    <3>1. attempt'.pc \in {"idle", "rename"}
      BY <2>4 DEF Leave, RemoveSidecar, NoAttempt
    <3> QED
      BY <1>1, <3>1
  <2> QED
    BY <1>7, <2>1, <2>2, <2>3, <2>4 DEF Download
<1>8. CASE Cancel \/ Replace \/ Discard \/ Kill \/ PowerLoss
  <2>1. attempt'.pc # "flushed"
    BY <1>2, <1>8 DEF Cancel, Replace, Discard, Kill, PowerLoss, Stopped, NoAttempt,
                      AttemptState
  <2> QED
    BY <1>1, <2>1
<1>9. CASE UNCHANGED vars
  BY <1>9 DEF vars, disk, HealedInv
<1> QED
  BY <1>3, <1>4, <1>5, <1>6, <1>7, <1>8, <1>9 DEF Next, Flush

THEOREM HealedInvariant == Spec => []HealedInv
<1>1. Init => HealedInv
  BY DEF Init, HealedInv, NoAttempt
<1>2. TypeOK /\ TypeOK' /\ HealedInv /\ [Next]_vars => HealedInv'
  BY HealedStep
<1> QED
  BY <1>1, <1>2, DownloadTypes, PTL DEF Spec

\* An attempt that ends in an error leaves in the sidecar every offset the workers had
\* reached in a chunk, whatever broke and whatever writes failed before its last flush,
\* and the chunks that were done if that flush had something to write
\* (source_download.go:602-604).
THEOREM ErrorsKeepProgress == Spec => ErrorKeepsProgress
<1> DEFINE Keeps ==
      attempt.pc \in {"last", "flushed"} /\ attempt'.pc = "idle"
      /\ (attempt.pc = "flushed" => ~flusher.changed) /\ faults' = faults
      => /\ \A c \in Chunk : flusher.offsets[c] > 0 =>
              sidecar # NoDoc /\ sidecar.partial[c] = flusher.offsets[c]
         /\ attempt.pc = "flushed" => sidecar # NoDoc /\ sidecar.done = record.done
<1>1. TypeOK /\ ProgressInv /\ HealedInv /\ [Next]_vars => [Keeps]_vars
  <2> SUFFICES ASSUME TypeOK, ProgressInv, HealedInv, Next,
                      attempt.pc \in {"last", "flushed"}, attempt'.pc = "idle",
                      attempt.pc = "flushed" => ~flusher.changed, faults' = faults
               PROVE  /\ \A c \in Chunk : flusher.offsets[c] > 0 =>
                           sidecar # NoDoc /\ sidecar.partial[c] = flusher.offsets[c]
                      /\ attempt.pc = "flushed" => sidecar # NoDoc /\ sidecar.done = record.done
    OBVIOUS
  <2>1. \A kind : ~Fault(kind)
    BY ConstantTypes DEF Fault, TypeOK
  <2>2. attempt \in AttemptState /\ flusher.offsets \in Offsets
    BY FieldTypes DEF TypeOK
  <2>3. Leave
    <3>1. ASSUME NEW w \in Workers  PROVE ~Fetch(w)
      BY DEF Fetch, Take, Try, Receive, Break, Forget, SyncChunk, MarkDone, At
    <3>2. ~Flush
      BY <2>2 DEF Flush, FlushStart, FlushSync, FlushWrite, AttemptState
    <3>3. ~Cancel /\ ~Replace /\ ~Discard /\ ~Kill /\ ~PowerLoss
      BY <2>1 DEF Cancel, Replace, Discard, Kill, PowerLoss
    <3>4. ~Reuse /\ ~Resume /\ ~StartOver /\ ~OpenPool /\ ~Drain /\ ~Rename /\ ~RemoveSidecar
      BY DEF Reuse, Resume, StartOver, OpenPool, Drain, Rename, RemoveSidecar
    <3> QED
      BY <3>1, <3>2, <3>3, <3>4 DEF Next, Download
  <2>4. Running /\ ~flusher.changed /\ flusher.pc = "idle"
    BY <2>3 DEF Leave, Running
  <2>5. ASSUME NEW c \in Chunk, flusher.offsets[c] > 0
        PROVE  sidecar # NoDoc /\ sidecar.partial[c] = flusher.offsets[c]
    <3>1. flusher.offsets[c] # Units
      <4>1. \A w \in Workers : worker[w].pc = "end"
        BY DEF ProgressInv, ApartInv
      <4> QED
        BY <2>4, <4>1 DEF ProgressInv, OffsetInv
    <3>2. flusher.offsets[c] # 0
      BY <2>2, <2>5 DEF Offsets
    <3> QED
      BY <2>4, <3>1, <3>2 DEF ProgressInv, KeptInv, Saved
  <2>6. attempt.pc = "flushed" => sidecar # NoDoc /\ sidecar.done = record.done
    BY <2>4 DEF HealedInv
  <2> QED
    BY <2>5, <2>6
<1>2. Spec => [][Keeps]_vars
  BY <1>1, DownloadTypes, ProgressInvariant, HealedInvariant, PTL DEF Spec
<1> QED
  BY <1>2 DEF ErrorKeepsProgress

=============================================================================
