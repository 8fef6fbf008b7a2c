---------------------------- MODULE FileTransfer ----------------------------
(***************************************************************************)
(* One row's attempts from end to end: its file is fetched by the pool and *)
(* then uploaded, and what fails is tried again from what is already       *)
(* there.  DownloadPool and SegmentUpload take turns; they share the row's *)
(* context and its size.                                                   *)
(***************************************************************************)
EXTENDS DownloadPool, SegmentUpload

CONSTANTS
  Sizes,           (* the sizes a file may have                             *)
  MaxAttempts      (* settings.Retry.MaxAttempts                            *)

ASSUME TransferAssumption == Sizes \subseteq Nat /\ MaxAttempts \in Nat \ {0}

VARIABLES
  phase,           (* where the row is                                      *)
  attempt          (* Item.Attempts                                         *)

vars == <<faults, cancelled, poolVars, uploadVars, phase, attempt>>

----------------------------------------------------------------------------
Ended == {"delivered", "failed", "cancelled"}

Init ==
  /\ faults = 0 /\ cancelled = FALSE
  /\ PoolIdle /\ \E bytes \in Sizes : UploadIdle(bytes)
  /\ phase = "queued" /\ attempt = 0

\* Chunks the checkpoint lacks; an empty file has none, a staged one neither.
Pending == IF size = 0 THEN 0 ELSE Chunks - fetched

\* The row is taken.  What is staged already is not fetched again.
Start ==
  /\ phase = "queued" /\ attempt' = attempt + 1
  /\ IF Pending = 0
     THEN phase' = "upload" /\ Enter /\ UNCHANGED poolVars
     ELSE phase' = "stage" /\ PoolStarts(Pending) /\ UNCHANGED <<uploadVars, faults>>
  /\ UNCHANGED cancelled

\* stoppedByCancel, then retryLater.
RetryLater ==
  IF cancelled THEN "cancelled" ELSE IF attempt < MaxAttempts THEN "queued" ELSE "failed"

StageEnds ==
  /\ phase = "stage" /\ AllGone /\ PoolLeaves
  /\ IF Outcome = "ok"
     THEN phase' = "upload" /\ Enter
     ELSE /\ phase' = IF Outcome = "changed" /\ ~cancelled THEN "failed" ELSE RetryLater
          /\ UNCHANGED <<uploadVars, faults>>
  /\ UNCHANGED <<cancelled, attempt>>

UploadEnds ==
  /\ phase = "upload"
  /\ \/ /\ step = "sent" /\ phase' = IF cancelled THEN "cancelled" ELSE "delivered"
        /\ UNCHANGED <<uploadVars, faults>>
     \/ phase' = RetryLater /\ Leave
  /\ UNCHANGED <<cancelled, poolVars, attempt>>

----------------------------------------------------------------------------
Fetching(w) == phase = "stage" /\ Fetch(w) /\ UNCHANGED <<cancelled, uploadVars, phase, attempt>>
Sending == phase = "upload" /\ Uploading /\ UNCHANGED <<cancelled, poolVars, phase, attempt>>

\* Cancel ends the context of the goroutine, or takes the row out of the queue.
Cancel ==
  /\ ~cancelled /\ cancelled' = TRUE
  /\ \/ phase = "queued" /\ phase' = "cancelled" /\ UNCHANGED poolVars
     \/ phase = "stage" /\ EndsOuter("canceled") /\ UNCHANGED phase
     \/ phase = "upload" /\ UNCHANGED <<poolVars, phase>>
  /\ UNCHANGED <<faults, uploadVars, attempt>>

\* DownloadRequest.Timeout
TimesOut ==
  /\ phase = "stage" /\ ended.outer = "" /\ EndsOuter("deadline") /\ Fault
  /\ UNCHANGED <<cancelled, uploadVars, phase, attempt>>

Elsewhere ==
  \/ \E l \in DOMAIN links : Ages(l) /\ UNCHANGED <<cancelled, uploadVars, phase, attempt>>
  \/ \E s \in DOMAIN held : Stores(s) /\ UNCHANGED <<cancelled, poolVars, phase, attempt>>

Next ==
  \/ Start \/ StageEnds \/ UploadEnds \/ Sending
  \/ \E w \in Workers : Fetching(w)
  \/ Cancel \/ TimesOut \/ Elsewhere

Spec == Init /\ [][Next]_vars

\* Calls return or end with their context, and goroutines go on.
FairSpec ==
  /\ Spec /\ \A w \in Workers : WF_vars(Fetching(w))
  /\ WF_vars(Start) /\ WF_vars(StageEnds) /\ WF_vars(Sending) /\ WF_vars(UploadEnds)

----------------------------------------------------------------------------
\* The budget of a row is spent on what went wrong, never on links that expire
\* while several workers use them, nor on segments still on their way when the
\* commit is asked for (downloadChunkWithRetry, commit).  Left out: a host that
\* stores more slowly than commit waits.
AttemptsExplained == slow \/ attempt <= faults + 1

\* However it goes, the row comes to an end: no worker is left behind the lock of
\* the link, no upload asks or sends for ever (current, commit, upload, retryLater).
TransferEnds == <>(phase \in Ended)

\* The promise of FileDelivery: no upload is left open behind a row that has an
\* outcome or waits for another try, and none is told to be delivered that is not
\* there (transfer, upload, abort).
Told == IF phase \in Ended THEN phase ELSE "working"
Shown == IF job = "committed" THEN "published"
         ELSE IF job # "open" THEN "none" ELSE IF step = "idle" THEN "left" ELSE "open"
Delivery == INSTANCE FileDelivery WITH job <- Shown, told <- Told
ImplementsDelivery == Delivery!Spec
=============================================================================
