--------------------------- MODULE SegmentUpload ---------------------------
(***************************************************************************)
(* The upload of one staged file: a job of the host's, its segments, and   *)
(* the commit that the host refuses while segments are missing.            *)
(*                                                                         *)
(* A byte stands for any number of them.  The host stores a segment after  *)
(* its stream has been closed, and may fail to without telling.  Who may   *)
(* abort a job besides the goroutine itself is TransferQueue's.            *)
(***************************************************************************)
EXTENDS TransferFaults, Integers

CONSTANTS
  SegmentSize,     (* UploadJob.SegmentSize, the host's                     *)
  Asks,            (* completeAttempts                                      *)
  Resends          (* resendRounds                                          *)

ASSUME UploadAssumption ==
  SegmentSize \in Nat \ {0} /\ Asks \in Nat \ {0} /\ Resends \in Nat \ {0}

VARIABLES
  size,            (* Item.Size                                             *)
  step,            (* where upload is                                       *)
  todo,            (* pending: what is left of it in this round, ascending  *)
  position,        (* the offset of the staged file's handle                *)
  round, asked,    (* the loops of upload and commit                        *)
  uploaded,        (* Item.Uploaded                                         *)
  job,             (* the host's job                                        *)
  held,            (* what the host has of every segment                    *)
  lost,            (* history: an answer about a job was lost, or an abort  *)
  slow             (* history: the host still stored after all the pauses   *)

uploadVars == <<size, step, todo, position, round, asked, uploaded, job, held, lost, slow>>

----------------------------------------------------------------------------
\* The host's geometry; an empty file has one empty segment.
SegmentCount == IF size = 0 THEN 1 ELSE (size + SegmentSize - 1) \div SegmentSize
Segments == 1..SegmentCount
Offset(s) == (s - 1) * SegmentSize
Length(s) == IF size - Offset(s) < SegmentSize THEN size - Offset(s) ELSE SegmentSize
Bytes(from, length) == from..(from + length - 1)

Missing == {s \in Segments : held[s].at # "stored"}
Nothing == [at |-> "absent", bytes |-> {}]
First(segments) == CHOOSE s \in segments : \A t \in segments : s <= t

Steps == {"idle", "begin", "send", "ask", "pause", "abort", "sent", "broken"}

UploadIdle(bytes) ==
  /\ size = bytes /\ step = "idle" /\ todo = {} /\ position = 0 /\ round = 0
  /\ asked = 0 /\ uploaded = 0 /\ job = "none" /\ held = <<>> /\ lost = FALSE /\ slow = FALSE

StepGoes(from, to) == step = from /\ step' = to

----------------------------------------------------------------------------
\* A staged file is opened.
Enter ==
  /\ StepGoes("idle", "begin")
  /\ position' = 0 /\ uploaded' = 0 /\ round' = 0 /\ asked' = 0
  /\ UNCHANGED <<size, todo, job, held, lost, slow, faults>>

Begin ==
  /\ StepGoes("begin", "send")
  /\ job' = "open" /\ held' = [s \in Segments |-> Nothing]
  /\ todo' = Segments
  /\ UNCHANGED <<size, position, round, asked, uploaded, lost, slow, faults>>

\* The host has refused, or has opened a job whose id never arrives.
BeginFails ==
  /\ StepGoes("begin", "broken")
  /\ FaultOrCancelled
  /\ \/ UNCHANGED <<job, lost>>
     \/ job' = "open" /\ lost' = TRUE
  /\ UNCHANGED <<size, todo, position, round, asked, uploaded, held, slow>>

\* Mutant: the handle is read from where it is.
SeeksNot(s) == position
\* file.Seek
Seeks(s) == Offset(s)

Counted(delta) == IF uploaded + delta > size THEN size ELSE uploaded + delta

\* PutSegment: the stream is closed, the segment is on its way.
SendSegment ==
  /\ step = "send" /\ todo # {} /\ ~cancelled
  /\ LET s == First(todo)  from == Seeks(s) IN
       /\ held' = [held EXCEPT ![s] = [at |-> "landing", bytes |-> Bytes(from, Length(s))]]
       /\ position' = from + Length(s)
       /\ uploaded' = Counted(Length(s))
  /\ todo' = todo \ {First(todo)}
  /\ UNCHANGED <<size, step, round, asked, job, lost, slow, faults>>

\* Some of it is written, or none.
SegmentBreaks ==
  /\ todo # {} /\ StepGoes("send", "abort")
  /\ FaultOrCancelled
  /\ \E delta \in 0..Length(First(todo)) :
       /\ uploaded' = Counted(delta)
       /\ position' = Offset(First(todo)) + delta
  /\ UNCHANGED <<size, todo, round, asked, job, held, lost, slow>>

AllSent ==
  /\ todo = {} /\ StepGoes("send", "ask")
  /\ asked' = 0
  /\ UNCHANGED <<size, todo, position, round, uploaded, job, held, lost, slow, faults>>

----------------------------------------------------------------------------
\* CompleteUpload, answered or not.
Commit(answered) ==
  /\ StepGoes("ask", IF answered THEN "sent" ELSE "abort") /\ Missing = {}
  /\ job' = "committed"
  /\ IF answered THEN UNCHANGED <<lost, faults>> ELSE lost' = TRUE /\ FaultOrCancelled
  /\ UNCHANGED <<size, todo, position, round, asked, uploaded, held, slow>>

\* Another error than missing segments.
CommitErrs ==
  /\ StepGoes("ask", "abort")
  /\ FaultOrCancelled
  /\ UNCHANGED <<size, todo, position, round, asked, uploaded, job, held, lost, slow>>

\* Refused, and asked again after a pause.
CommitRefused ==
  /\ StepGoes("ask", "pause") /\ Missing # {} /\ asked + 1 < Asks
  /\ asked' = asked + 1
  /\ UNCHANGED <<size, todo, position, round, uploaded, job, held, lost, slow, faults>>

\* Refused for the last time: what is missing is sent again.
Resend ==
  /\ step = "ask" /\ Missing # {} /\ asked + 1 >= Asks
  /\ slow' = (slow \/ \E s \in Segments : held[s].at = "landing")
  /\ todo' = Missing /\ round' = round + 1
  /\ step' = IF round + 1 < Resends THEN "send" ELSE "abort"
  /\ UNCHANGED <<size, position, asked, uploaded, job, held, lost, faults>>

PauseEnds ==
  /\ step = "pause" /\ step' = IF cancelled THEN "abort" ELSE "ask"
  /\ UNCHANGED <<size, todo, position, round, asked, uploaded, job, held, lost, slow, faults>>

----------------------------------------------------------------------------
\* Mutant: an upload that breaks is left to the host.
AbortNothing ==
  /\ StepGoes("abort", "broken")
  /\ UNCHANGED <<size, todo, position, round, asked, uploaded, job, held, lost, slow, faults>>
\* abort: its own context survives a cancellation.  What the host makes of an abort
\* of what it has committed is its own.
Abort ==
  /\ StepGoes("abort", "broken")
  /\ \/ job = "open" /\ job' = "aborted" /\ UNCHANGED <<lost, faults>>
     \/ job = "committed" /\ job' \in {"committed", "aborted"} /\ UNCHANGED <<lost, faults>>
     \/ lost' = TRUE /\ Fault /\ UNCHANGED job
  /\ UNCHANGED <<size, todo, position, round, asked, uploaded, held, slow>>

\* requeue
Leave ==
  /\ StepGoes("broken", "idle")
  /\ uploaded' = 0 /\ todo' = {} /\ round' = 0 /\ asked' = 0 /\ position' = 0
  /\ UNCHANGED <<size, job, held, lost, slow, faults>>

Uploading ==
  \/ Begin \/ BeginFails \/ SendSegment \/ SegmentBreaks \/ AllSent
  \/ \E answered \in BOOLEAN : Commit(answered)
  \/ CommitErrs \/ CommitRefused \/ Resend \/ PauseEnds \/ Abort

\* The host stores a segment, or loses it.
Stores(s) ==
  /\ job = "open" /\ held[s].at = "landing"
  /\ \/ held' = [held EXCEPT ![s].at = "stored"] /\ UNCHANGED faults
     \/ held' = [held EXCEPT ![s] = Nothing] /\ Fault
  /\ UNCHANGED <<size, step, todo, position, round, asked, uploaded, job, lost, slow>>

----------------------------------------------------------------------------
\* What the host commits is the file: every byte once and in its place, though
\* segments are sent again after others (upload, sendSegments); and the progress
\* shown for it is the file's size, not what was streamed (chargeQuotaDelta).
CommittedIsWhole == job = "committed" =>
  /\ \A s \in Segments : held[s].bytes = Bytes(Offset(s), Length(s))
  /\ UNION {held[s].bytes : s \in Segments} = Bytes(0, size)
  /\ step = "sent" => uploaded = size
=============================================================================
