---------------------------- MODULE DownloadPool ----------------------------
(***************************************************************************)
(* The workers that fetch the chunks of one file: the signed link they     *)
(* share, the tries of a chunk, and what the pool makes of their errors.   *)
(*                                                                         *)
(* Links are numbered as the drive issues them.  A link is good, then      *)
(* closing (less than downloadURLGrace is left), then dead; only a dead    *)
(* link is refused.  Whether its deadline can be read is known when it is  *)
(* issued.  What a chunk's bytes go through is ChunkDownload's: here a     *)
(* chunk arrives in one step.                                              *)
(***************************************************************************)
EXTENDS TransferFaults, Sequences, FiniteSets

CONSTANTS
  Workers,         (* parallel                                              *)
  Chunks,          (* how many chunks are pending                           *)
  Retry,           (* DownloadRequest.Retry                                 *)
  None,
  MaxDeaths        (* links that expire or are revoked                      *)

ASSUME PoolAssumption ==
  /\ Chunks \in Nat /\ Retry \in Nat \ {0} /\ None \notin Workers
  /\ MaxDeaths \in Nat

VARIABLES
  links,           (* what became of every link issued                      *)
  url,             (* downloadURLState.url; 0 is none                       *)
  mu,              (* who holds downloadURLState.mu across the request      *)
  worker,          (* each worker: where, with which link, at which try     *)
  left,            (* chunks not handed out                                 *)
  fetched,         (* chunks the checkpoint has as done                     *)
  results,         (* the errors sent to results                            *)
  ended            (* Err() of downloadContext and of the outer context      *)

poolVars == <<links, url, mu, worker, left, fetched, results, ended>>

----------------------------------------------------------------------------
\* next: before a chunk; try: loop head of downloadChunkWithRetry; current: in
\* downloadURLState.current; ask: its request is out, mu held; fetch: in
\* downloadRange; drop: in invalidate; wait: between two tries.
Places == {"next", "try", "current", "ask", "fetch", "drop", "wait", "gone"}

\* Why a context ended; "" while it has not.  The outer one is the attempt's.
Reasons == {"", "canceled", "deadline"}
NotEnded == [pool |-> "", outer |-> ""]

\* A link as it is issued: whether its deadline can be read (ossURLExpiry).
NewLink(readable) == [life |-> "good", readable |-> readable]

AtRest == [w \in Workers |-> [at |-> "gone", link |-> 0, try |-> 0]]

PoolIdle ==
  /\ links = <<>> /\ url = 0 /\ mu = None /\ worker = AtRest
  /\ left = 0 /\ fetched = 0 /\ results = <<>> /\ ended = NotEnded

\* downloadChunks: the workers set out for the chunks that are pending.
PoolStarts(pending) ==
  /\ worker' = [w \in Workers |-> [at |-> "next", link |-> 0, try |-> 0]]
  /\ left' = pending
  /\ UNCHANGED <<links, url, mu, fetched, results, ended>>

\* It returns, and what its calls shared goes with it.
PoolLeaves ==
  /\ links' = <<>> /\ url' = 0 /\ mu' = None /\ worker' = AtRest
  /\ left' = 0 /\ results' = <<>> /\ ended' = NotEnded
  /\ UNCHANGED fetched

MovesTo(w, place) == worker' = [worker EXCEPT ![w].at = place]

----------------------------------------------------------------------------
(* The pool.                                                               *)
\* A worker ends with an error: it is sent, then the others are cancelled.
GivesUp(w, error) ==
  /\ worker' = [worker EXCEPT ![w] = [at |-> "gone", link |-> 0, try |-> 0]]
  /\ results' = Append(results, error)
  /\ ended' = IF ended.pool = "" THEN [ended EXCEPT !.pool = "canceled"] ELSE ended

\* Once the context has ended a chunk may still be handed out, or not.
TakeChunk(w) ==
  /\ worker[w].at = "next"
  /\ \/ left > 0 /\ left' = left - 1 /\ MovesTo(w, "try")
     \/ (left = 0 \/ ended.pool # "") /\ MovesTo(w, "gone") /\ UNCHANGED left
  /\ UNCHANGED <<links, url, mu, fetched, results, ended, faults>>

\* A try is lost; the last one ends the chunk with what it met.
LosesTry(w, error) ==
  IF worker[w].try + 1 >= Retry
  THEN GivesUp(w, error)
  ELSE /\ worker' = [worker EXCEPT ![w].at = "wait", ![w].try = @ + 1]
       /\ UNCHANGED <<results, ended>>

\* A call that fails, or that ended with its context.
CallFails(w) ==
  \/ Fault /\ LosesTry(w, "failed")
  \/ ended.pool # "" /\ LosesTry(w, ended.pool) /\ UNCHANGED faults

BeginsTry(w) ==
  /\ worker[w].at \in {"try", "wait"}
  /\ IF ended.pool # "" THEN GivesUp(w, ended.pool)
     ELSE MovesTo(w, "current") /\ UNCHANGED <<results, ended>>
  /\ UNCHANGED <<links, url, mu, left, fetched, faults>>

----------------------------------------------------------------------------
(* The link.                                                               *)
\* downloadURLExhausted: a deadline that cannot be read is never near.
Exhausted(l) == links[l].readable /\ links[l].life # "good"

\* current, under mu: the link in hand, or a request that keeps mu.
Current(w) ==
  /\ worker[w].at = "current" /\ mu = None
  /\ IF url # 0 /\ ~Exhausted(url)
     THEN worker' = [worker EXCEPT ![w].at = "fetch", ![w].link = url] /\ UNCHANGED mu
     ELSE MovesTo(w, "ask") /\ mu' = w
  /\ UNCHANGED <<links, url, left, fetched, results, ended, faults>>

Issued(w) ==
  /\ worker[w].at = "ask"
  /\ \E readable \in BOOLEAN : links' = Append(links, NewLink(readable))
  /\ url' = Len(links') /\ mu' = None
  /\ worker' = [worker EXCEPT ![w].at = "fetch", ![w].link = Len(links')]
  /\ UNCHANGED <<left, fetched, results, ended, faults>>

\* Mutant: the error path forgets the lock.
AskFailsLocked(w) ==
  /\ worker[w].at = "ask"
  /\ CallFails(w)
  /\ UNCHANGED <<links, url, mu, left, fetched>>
\* The request fails, or ends with its context.
AskFails(w) ==
  /\ worker[w].at = "ask" /\ mu' = None
  /\ CallFails(w)
  /\ UNCHANGED <<links, url, left, fetched>>

\* Mutant: whatever link there is goes.
InvalidateAny(w) ==
  /\ worker[w].at = "drop" /\ mu = None
  /\ url' = 0
  /\ LosesTry(w, "failed")
  /\ UNCHANGED <<links, mu, left, fetched, faults>>
\* invalidate, then the wait for the next try.
Invalidate(w) ==
  /\ worker[w].at = "drop" /\ mu = None
  /\ url' = IF url = worker[w].link THEN 0 ELSE url
  /\ LosesTry(w, "failed")
  /\ UNCHANGED <<links, mu, left, fetched, faults>>

----------------------------------------------------------------------------
(* downloadRange.                                                          *)
Dead(w) == links[worker[w].link].life = "dead"

\* The range arrives and is made durable.
Served(w) ==
  /\ worker[w].at = "fetch" /\ ~Dead(w)
  /\ worker' = [worker EXCEPT ![w] = [at |-> "next", link |-> 0, try |-> 0]]
  /\ fetched' = fetched + 1
  /\ UNCHANGED <<links, url, mu, left, results, ended, faults>>

\* Mutant: a refusal is an error like any other.
RefusedLikeAny(w) ==
  /\ worker[w].at = "fetch" /\ Dead(w)
  /\ LosesTry(w, "failed")
  /\ UNCHANGED <<links, url, mu, left, fetched, faults>>
\* errDownloadURLExpired
Refused(w) ==
  /\ worker[w].at = "fetch" /\ Dead(w)
  /\ MovesTo(w, "drop")
  /\ UNCHANGED <<links, url, mu, left, fetched, results, ended, faults>>

\* Another status, a broken body, or the end of the context.
Breaks(w) ==
  /\ worker[w].at = "fetch"
  /\ CallFails(w)
  /\ UNCHANGED <<links, url, mu, left, fetched>>

\* ErrSourceChanged, or a chunk that cannot be made durable: no other try.
Hopeless(w) ==
  /\ worker[w].at = "fetch" /\ ~Dead(w) /\ Fault
  /\ GivesUp(w, "changed") \/ GivesUp(w, "failed")
  /\ UNCHANGED <<links, url, mu, left, fetched>>

----------------------------------------------------------------------------
Fetch(w) ==
  \/ TakeChunk(w) \/ BeginsTry(w) \/ Current(w) \/ Issued(w) \/ AskFails(w)
  \/ Invalidate(w) \/ Served(w) \/ Refused(w) \/ Breaks(w) \/ Hopeless(w)

\* Time passes for a link, or the drive revokes it.
Ages(l) ==
  /\ links[l].life # "dead"
  /\ \E life \in {"closing", "dead"} \ {links[l].life} :
       /\ life = "dead" => Cardinality({k \in DOMAIN links : links[k].life = "dead"}) < MaxDeaths
       /\ life = "closing" =>
            Cardinality({k \in DOMAIN links : links[k].life # "good"}) < MaxDeaths
       /\ links' = [links EXCEPT ![l].life = life]
  /\ UNCHANGED <<url, mu, worker, left, fetched, results, ended, faults>>

\* The context of the attempt ends, and the pool's with it; the first reason stays.
EndsOuter(reason) ==
  /\ ended' = IF ended.outer # "" THEN ended
              ELSE [pool |-> IF ended.pool = "" THEN reason ELSE ended.pool, outer |-> reason]
  /\ UNCHANGED <<links, url, mu, worker, left, fetched, results>>

AllGone == \A w \in Workers : worker[w].at = "gone"

\* Mutant: the last error stands for all.
LastError == results[Len(results)]
\* The loop over results: another error replaces a cancellation, but no other one,
\* not that of a deadline either.
FirstError == LET own == {i \in DOMAIN results : results[i] # "canceled"} IN
  IF own = {} THEN "canceled" ELSE results[CHOOSE i \in own : \A k \in own : i <= k]

\* downloadChunks, after workers.Wait.
Outcome ==
  CASE results = <<>> -> IF ended.pool # "" THEN ended.pool ELSE "ok"
    [] results # <<>> /\ FirstError = "changed" -> "changed"
    [] results # <<>> /\ FirstError # "changed" ->
         IF ended.outer # "" THEN ended.outer ELSE FirstError

\* No link is given up for a new one while it is good: neither two workers that
\* miss it at once nor one that comes late with a refusal make the drive sign
\* another (downloadURLState.current, invalidate).
GoodLinkKept == \A l \in 1..(Len(links) - 1) : links[l].life # "good"

\* What stopped the pool is what it reports: a changed source is not hidden behind
\* cancellations, those it caused or that of the row, and the end of a context is
\* reported only if it is the attempt's own that ended, and for its reason
\* (downloadChunks).  Left out of the first part: a worker that failed for good
\* before, and an attempt whose deadline ended the pool: they may be reported in
\* place of the changed source, and the row is then tried again.
Reported(error) == \E i \in DOMAIN results : results[i] = error
CauseReported == AllGone =>
  /\ (Reported("changed") /\ ~Reported("failed") /\ ended.pool # "deadline")
       => Outcome = "changed"
  /\ Outcome \in {"canceled", "deadline"} => Outcome = ended.outer
=============================================================================
