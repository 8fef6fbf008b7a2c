------------------------- MODULE FileTransferProofs -------------------------
(***************************************************************************)
(* Proofs about FileTransfer: no good link is given up, what the host      *)
(* commits is the whole file, the transfer keeps the promise of            *)
(* FileDelivery, the pool reports what stopped it, and attempts are spent  *)
(* on what went wrong only, for any workers, chunks, sizes, tries,         *)
(* attempts, links and faults.                                             *)
(***************************************************************************)
EXTENDS FileTransfer, SequenceTheorems, FiniteSetTheorems, WellFoundedInduction, TLAPS

----------------------------------------------------------------------------
(* The link.  At most the last link issued is good, and whoever is about to *)
(* ask for another, or to drop one, knows that it is not.                   *)
Links == 1..Len(links)
Lives == {"good", "closing", "dead"}
LinkType == [life: Lives, readable: BOOLEAN]
WorkerType == [at: Places, link: Nat, try: Nat]

PoolTyped ==
  /\ links \in Seq(LinkType)
  /\ worker \in [Workers -> WorkerType]
  /\ mu \in Workers \cup {None}

Spent == url = 0 \/ Exhausted(url)

LinkInv ==
  /\ PoolTyped
  /\ url = 0 => links = <<>> \/ links[Len(links)].life # "good"
  /\ url # 0 => url = Len(links) /\ url \in Links
  /\ \A l \in Links : l < Len(links) => links[l].life # "good"
  /\ \A w \in Workers : worker[w].at = "ask" => mu = w /\ Spent
  /\ \A w \in Workers : worker[w].at \in {"fetch", "drop"} => worker[w].link \in Links
  /\ \A w \in Workers : worker[w].at = "drop" => Dead(w)

LEMMA LinkInit == Init => LinkInv
<1> SUFFICES ASSUME Init PROVE LinkInv
  OBVIOUS
<1>1. links = <<>> /\ url = 0 /\ mu = None
      /\ worker = [w \in Workers |-> [at |-> "gone", link |-> 0, try |-> 0]]
  BY DEF Init, PoolIdle, AtRest
<1>2. [at |-> "gone", link |-> 0, try |-> 0] \in WorkerType
  BY DEF WorkerType, Places
<1>3. worker \in [Workers -> WorkerType] /\ \A w \in Workers : worker[w].at = "gone"
  BY <1>1, <1>2
<1>4. Links = {}
  BY <1>1 DEF Links
<1>5. PoolTyped
  BY <1>1, <1>3 DEF PoolTyped
<1>6. QED
  BY <1>1, <1>3, <1>4, <1>5 DEF LinkInv

\* Where a worker that loses a try, or gives up, is afterwards.
LEMMA TryLost ==
  ASSUME PoolTyped, NEW w \in Workers, NEW error,
         LosesTry(w, error) \/ GivesUp(w, error)
  PROVE  /\ worker' \in [Workers -> WorkerType]
         /\ worker'[w].at \in {"gone", "wait"}
         /\ \A v \in Workers \ {w} : worker'[v] = worker[v]
<1>1. CASE GivesUp(w, error)
  BY <1>1 DEF PoolTyped, GivesUp, WorkerType, Places
<1>2. CASE LosesTry(w, error) /\ ~GivesUp(w, error)
  <2>1. worker' = [worker EXCEPT ![w].at = "wait", ![w].try = @ + 1]
    BY <1>2 DEF LosesTry
  <2>2. worker[w] \in WorkerType
    BY DEF PoolTyped
  <2>3. QED
    BY <2>1, <2>2 DEF PoolTyped, WorkerType, Places
<1>3. QED
  BY <1>1, <1>2

LEMMA Moved ==
  ASSUME PoolTyped, NEW w \in Workers, NEW place \in Places, MovesTo(w, place)
  PROVE  /\ worker' \in [Workers -> WorkerType]
         /\ worker'[w] = [worker[w] EXCEPT !.at = place]
         /\ \A v \in Workers \ {w} : worker'[v] = worker[v]
<1>1. worker[w] \in WorkerType
  BY DEF PoolTyped
<1>2. QED
  BY <1>1 DEF PoolTyped, MovesTo, WorkerType

Settled == {"gone", "wait", "next", "try", "current"}

\* A worker that comes away from the link, and lets go of the lock if it holds it.
LEMMA Settles ==
  ASSUME LinkInv, NEW w \in Workers,
         worker' \in [Workers -> WorkerType], worker'[w].at \in Settled,
         \A v \in Workers \ {w} : worker'[v] = worker[v],
         links' = links, url' = url,
         mu' = mu \/ (worker[w].at = "ask" /\ mu' = None)
  PROVE  LinkInv'
<1>1. PoolTyped'
  BY DEF LinkInv, PoolTyped
<1>2. ASSUME NEW v \in Workers, worker'[v].at = "ask"
      PROVE  mu' = v /\ Spent'
  <2>1. v # w /\ worker[v].at = "ask"
    BY <1>2 DEF Settled
  <2>2. mu = v /\ Spent /\ (worker[w].at = "ask" => mu = w)
    BY <2>1 DEF LinkInv
  <2>3. QED
    BY <2>1, <2>2 DEF Spent, Exhausted
<1>3. ASSUME NEW v \in Workers, worker'[v].at \in {"fetch", "drop"}
      PROVE  worker'[v].link \in Links' /\ (worker'[v].at = "drop" => Dead(v)')
  <2>1. v # w
    BY <1>3 DEF Settled
  <2>2. worker'[v] = worker[v]
    BY <2>1
  <2>3. QED
    BY <1>3, <2>2 DEF LinkInv, Links, Dead
<1>4. (url = 0 => links = <<>> \/ links[Len(links)].life # "good")'
      /\ (url # 0 => url = Len(links) /\ url \in Links)'
      /\ (\A l \in Links : l < Len(links) => links[l].life # "good")'
  BY DEF LinkInv, Links
<1>5. QED
  BY <1>1, <1>2, <1>3, <1>4 DEF LinkInv

----------------------------------------------------------------------------
LEMMA Losing ==
  ASSUME LinkInv, NEW w \in Workers, NEW error,
         LosesTry(w, error) \/ GivesUp(w, error), links' = links, url' = url,
         mu' = mu \/ (worker[w].at = "ask" /\ mu' = None)
  PROVE  LinkInv'
<1>1. PoolTyped
  BY DEF LinkInv
<1>2. worker' \in [Workers -> WorkerType] /\ worker'[w].at \in {"gone", "wait"}
      /\ \A v \in Workers \ {w} : worker'[v] = worker[v]
  BY <1>1, TryLost
<1>3. QED
  BY <1>2, Settles DEF Settled

LEMMA Moving ==
  ASSUME LinkInv, NEW w \in Workers, NEW place \in Settled, MovesTo(w, place),
         links' = links, url' = url, mu' = mu
  PROVE  LinkInv'
<1>1. PoolTyped /\ place \in Places
  BY DEF LinkInv, Settled, Places
<1>2. worker' \in [Workers -> WorkerType] /\ worker'[w] = [worker[w] EXCEPT !.at = place]
      /\ \A v \in Workers \ {w} : worker'[v] = worker[v]
  BY <1>1, Moved
<1>3. worker'[w].at = place
  BY <1>1, <1>2 DEF PoolTyped, WorkerType
<1>4. QED
  BY <1>2, <1>3, Settles

\* The chunk is over for its worker, which takes the next.
LEMMA Returning ==
  ASSUME LinkInv, NEW w \in Workers,
         worker' = [worker EXCEPT ![w] = [at |-> "next", link |-> 0, try |-> 0]],
         links' = links, url' = url, mu' = mu
  PROVE  LinkInv'
<1>1. worker' \in [Workers -> WorkerType] /\ worker'[w].at = "next"
      /\ \A v \in Workers \ {w} : worker'[v] = worker[v]
  BY DEF LinkInv, PoolTyped, WorkerType, Places
<1>2. QED
  BY <1>1, Settles DEF Settled

----------------------------------------------------------------------------
LEMMA CurrentKeeps ==
  ASSUME LinkInv, NEW w \in Workers, Current(w)
  PROVE  LinkInv'
<1>1. worker[w] \in WorkerType /\ worker \in [Workers -> WorkerType] /\ PoolTyped
      /\ links' = links /\ url' = url /\ mu = None /\ worker[w].at = "current"
  BY DEF LinkInv, PoolTyped, Current
<1>2. \A v \in Workers : worker[v].at # "ask"
  BY <1>1, PoolAssumption DEF LinkInv
<1>3. CASE url # 0 /\ ~Exhausted(url)
  <2>1. worker' = [worker EXCEPT ![w].at = "fetch", ![w].link = url] /\ mu' = mu
    BY <1>3 DEF Current
  <2>2. url \in Links /\ url \in Nat
    BY <1>3 DEF LinkInv, Links
  <2>3. worker' \in [Workers -> WorkerType] /\ worker'[w].at = "fetch" /\ worker'[w].link = url
        /\ \A v \in Workers \ {w} : worker'[v] = worker[v]
    BY <1>1, <2>1, <2>2 DEF WorkerType, Places
  <2>4. PoolTyped'
    BY <1>1, <2>1, <2>3 DEF PoolTyped
  <2>5. Links' = Links /\ \A v \in Workers : Dead(v) /\ v # w => Dead(v)'
    BY <1>1, <2>3 DEF Links, Dead
  <2>6. QED
    BY <1>1, <1>2, <2>1, <2>2, <2>3, <2>4, <2>5 DEF LinkInv
<1>4. CASE ~(url # 0 /\ ~Exhausted(url))
  <2>1. MovesTo(w, "ask") /\ mu' = w
    BY <1>4 DEF Current
  <2>2. worker' \in [Workers -> WorkerType] /\ worker'[w].at = "ask"
        /\ \A v \in Workers \ {w} : worker'[v] = worker[v]
    BY <1>1, <2>1 DEF MovesTo, WorkerType, Places
  <2>3. PoolTyped'
    BY <1>1, <2>1, <2>2 DEF PoolTyped
  <2>4. Links' = Links /\ \A v \in Workers : Dead(v) /\ v # w => Dead(v)'
    BY <1>1, <2>2 DEF Links, Dead
  <2>5. Spent'
    BY <1>1, <1>4 DEF Spent, Exhausted
  <2>6. QED
    BY <1>1, <1>2, <2>1, <2>2, <2>3, <2>4, <2>5 DEF LinkInv
<1>5. QED
  BY <1>3, <1>4

\* The link before a new one was none, or not good.
LEMMA IssuedKeeps ==
  ASSUME LinkInv, NEW w \in Workers, Issued(w)
  PROVE  LinkInv'
<1>1. worker[w] \in WorkerType /\ worker \in [Workers -> WorkerType] /\ mu = w /\ Spent
      /\ links \in Seq(LinkType)
  BY DEF LinkInv, PoolTyped, Issued
<1>2. PICK readable \in BOOLEAN : links' = Append(links, NewLink(readable))
  BY DEF Issued
<1>3. NewLink(readable) \in LinkType
  BY DEF NewLink, LinkType, Lives
<1>4. links' \in Seq(LinkType) /\ Len(links') = Len(links) + 1
      /\ \A l \in Links : links'[l] = links[l]
  BY <1>1, <1>2, <1>3 DEF Links
<1>5. Len(links) \in Nat /\ url' = Len(links') /\ mu' = None
      /\ worker' = [worker EXCEPT ![w].at = "fetch", ![w].link = Len(links')]
  BY <1>1 DEF Issued
<1>6. worker' \in [Workers -> WorkerType] /\ worker'[w].at = "fetch"
      /\ worker'[w].link = Len(links') /\ \A v \in Workers \ {w} : worker'[v] = worker[v]
  <2> DEFINE last == Len(links')
  <2>1. last \in Nat /\ worker' = [worker EXCEPT ![w].at = "fetch", ![w].link = last]
    BY <1>4, <1>5
  <2> HIDE DEF last
  <2>2. worker' \in [Workers -> WorkerType] /\ worker'[w].at = "fetch"
        /\ worker'[w].link = last /\ \A v \in Workers \ {w} : worker'[v] = worker[v]
    BY <1>1, <2>1 DEF WorkerType, Places
  <2>3. QED
    BY <2>2 DEF last
<1>7. PoolTyped'
  BY <1>4, <1>5, <1>6 DEF PoolTyped
<1>8. links = <<>> \/ links[Len(links)].life # "good"
  BY <1>1 DEF LinkInv, Spent, Exhausted
<1>9. \A l \in Links' : l < Len(links') => links'[l].life # "good"
  <2> SUFFICES ASSUME NEW l \in Links', l < Len(links') PROVE links'[l].life # "good"
    OBVIOUS
  <2>1. l \in Links
    BY <1>4, <1>5 DEF Links
  <2>2. links'[l] = links[l] /\ l \in 1..Len(links) /\ links # <<>>
    BY <1>4, <2>1 DEF Links
  <2>3. l < Len(links) \/ l = Len(links)
    BY <1>5, <2>2
  <2>4. QED
    BY <1>8, <2>1, <2>2, <2>3 DEF LinkInv
<1>10. \A v \in Workers : worker'[v].at # "ask"
  BY <1>1, <1>6 DEF LinkInv
<1>11. Links \subseteq Links' /\ Len(links') \in Links'
  BY <1>4, <1>5 DEF Links
<1>12. ASSUME NEW v \in Workers, worker'[v].at \in {"fetch", "drop"}
       PROVE  worker'[v].link \in Links' /\ (worker'[v].at = "drop" => Dead(v)')
  <2>1. CASE v = w
    BY <1>6, <1>11, <2>1
  <2>2. CASE v # w
    <3>1. worker'[v] = worker[v] /\ worker[v].link \in Links
          /\ (worker[v].at = "drop" => Dead(v))
      BY <1>6, <1>12, <2>2 DEF LinkInv
    <3>2. QED
      BY <1>4, <1>11, <3>1 DEF Dead
  <2>3. QED
    BY <2>1, <2>2
<1>13. url' # 0 /\ url' = Len(links') /\ url' \in Links'
  BY <1>4, <1>5, <1>11
<1>14. QED
  BY <1>7, <1>9, <1>10, <1>12, <1>13 DEF LinkInv

LEMMA InvalidateKeeps ==
  ASSUME LinkInv, NEW w \in Workers, Invalidate(w)
  PROVE  LinkInv'
<1>1. LosesTry(w, "failed") /\ links' = links /\ mu' = mu /\ mu = None
  BY DEF Invalidate
<1>2. CASE url' = url
  BY <1>1, <1>2, Losing
<1>3. CASE url' # url
  <2>1. url' = 0 /\ url = worker[w].link /\ url # 0 /\ worker[w].at = "drop"
    BY <1>3 DEF Invalidate
  <2>2. Dead(w) /\ url = Len(links)
    BY <2>1 DEF LinkInv
  <2>3. links[Len(links)].life # "good"
    BY <2>1, <2>2 DEF Dead
  <2>4. worker' \in [Workers -> WorkerType] /\ worker'[w].at \in {"gone", "wait"}
        /\ \A v \in Workers \ {w} : worker'[v] = worker[v]
    BY <1>1, TryLost DEF LinkInv
  <2>5. \A v \in Workers : worker[v].at # "ask"
    BY <1>1, PoolAssumption DEF LinkInv
  <2>6. PoolTyped' /\ Links' = Links
    BY <1>1, <2>4 DEF LinkInv, PoolTyped, Links
  <2>7. ASSUME NEW v \in Workers, worker'[v].at \in {"fetch", "drop"}
        PROVE  worker'[v].link \in Links' /\ (worker'[v].at = "drop" => Dead(v)')
    <3>1. worker'[v] = worker[v]
      BY <2>4, <2>7
    <3>2. QED
      BY <1>1, <2>6, <2>7, <3>1 DEF LinkInv, Dead
  <2>8. \A v \in Workers : worker'[v].at # "ask"
    BY <2>4, <2>5
  <2>9. (\A l \in Links : l < Len(links) => links[l].life # "good")'
    BY <1>1, <2>6 DEF LinkInv
  <2>10. QED
    BY <1>1, <2>1, <2>3, <2>6, <2>7, <2>8, <2>9 DEF LinkInv
<1>4. QED
  BY <1>2, <1>3

LEMMA RefusedKeeps ==
  ASSUME LinkInv, NEW w \in Workers, Refused(w)
  PROVE  LinkInv'
<1>1. worker[w] \in WorkerType /\ worker \in [Workers -> WorkerType] /\ PoolTyped
      /\ links' = links /\ url' = url /\ mu' = mu /\ worker[w].at = "fetch" /\ Dead(w)
  BY DEF LinkInv, PoolTyped, Refused
<1>2. worker' \in [Workers -> WorkerType] /\ worker'[w].at = "drop"
      /\ worker'[w].link = worker[w].link
      /\ \A v \in Workers \ {w} : worker'[v] = worker[v]
  BY <1>1 DEF Refused, MovesTo, WorkerType, Places
<1>3. PoolTyped' /\ Links' = Links
  BY <1>1, <1>2 DEF PoolTyped, Links
<1>4. ASSUME NEW v \in Workers PROVE Dead(v) => Dead(v)'
  BY <1>1, <1>2 DEF Dead
<1>5. ASSUME NEW v \in Workers, worker'[v].at = "ask" PROVE mu' = v /\ Spent'
  <2>1. worker'[v] = worker[v]
    BY <1>2, <1>5
  <2>2. QED
    BY <1>1, <1>5, <2>1 DEF LinkInv, Spent, Exhausted
<1>6. ASSUME NEW v \in Workers, worker'[v].at \in {"fetch", "drop"}
      PROVE  worker'[v].link \in Links' /\ (worker'[v].at = "drop" => Dead(v)')
  BY <1>1, <1>2, <1>3, <1>4, <1>6 DEF LinkInv
<1>7. QED
  BY <1>1, <1>3, <1>5, <1>6 DEF LinkInv

----------------------------------------------------------------------------
LEMMA FetchKeeps ==
  ASSUME LinkInv, NEW w \in Workers, Fetch(w)
  PROVE  LinkInv'
<1>1. CASE TakeChunk(w)
  <2>1. \E place \in Settled : MovesTo(w, place)
    BY <1>1 DEF TakeChunk, Settled
  <2>2. links' = links /\ url' = url /\ mu' = mu
    BY <1>1 DEF TakeChunk
  <2>3. QED
    BY <2>1, <2>2, Moving
<1>2. CASE BeginsTry(w)
  <2>1. links' = links /\ url' = url /\ mu' = mu
    BY <1>2 DEF BeginsTry
  <2>2. CASE ended.pool # ""
    <3>1. GivesUp(w, ended.pool)
      BY <1>2, <2>2 DEF BeginsTry
    <3>2. QED
      BY <2>1, <3>1, Losing
  <2>3. CASE ended.pool = ""
    <3>1. MovesTo(w, "current") /\ "current" \in Settled
      BY <1>2, <2>3 DEF BeginsTry, Settled
    <3>2. QED
      BY <2>1, <3>1, Moving
  <2>4. QED
    BY <2>2, <2>3
<1>3. CASE Current(w)
  BY <1>3, CurrentKeeps
<1>4. CASE Issued(w)
  BY <1>4, IssuedKeeps
<1>5. CASE AskFails(w)
  <2>1. \E error : LosesTry(w, error)
    BY <1>5 DEF AskFails, CallFails
  <2>2. links' = links /\ url' = url /\ worker[w].at = "ask" /\ mu' = None
    BY <1>5 DEF AskFails
  <2>3. QED
    BY <2>1, <2>2, Losing
<1>6. CASE Invalidate(w)
  BY <1>6, InvalidateKeeps
<1>7. CASE Served(w)
  BY <1>7, Returning DEF Served
<1>8. CASE Refused(w)
  BY <1>8, RefusedKeeps
<1>9. CASE Breaks(w)
  <2>1. \E error : LosesTry(w, error)
    BY <1>9 DEF Breaks, CallFails
  <2>2. links' = links /\ url' = url /\ mu' = mu
    BY <1>9 DEF Breaks
  <2>3. QED
    BY <2>1, <2>2, Losing
<1>10. CASE Hopeless(w)
  <2>1. \E error : GivesUp(w, error)
    BY <1>10 DEF Hopeless
  <2>2. links' = links /\ url' = url /\ mu' = mu
    BY <1>10 DEF Hopeless
  <2>3. QED
    BY <2>1, <2>2, Losing
<1>11. QED
  BY <1>1, <1>2, <1>3, <1>4, <1>5, <1>6, <1>7, <1>8, <1>9, <1>10 DEF Fetch

LEMMA AgesKeeps ==
  ASSUME LinkInv, NEW l \in DOMAIN links, Ages(l)
  PROVE  LinkInv'
<1>1. PICK life \in {"closing", "dead"} : links' = [links EXCEPT ![l].life = life]
  BY DEF Ages
<1>2. links \in Seq(LinkType) /\ l \in Links /\ links[l].life # "dead"
      /\ Links = DOMAIN links
  BY DEF LinkInv, PoolTyped, Links, Ages
<1>3. links[l] \in LinkType
  BY <1>2 DEF Links
<1>4. /\ links' \in Seq(LinkType) /\ Len(links') = Len(links)
      /\ links'[l].life = life /\ links'[l].readable = links[l].readable
      /\ \A k \in Links \ {l} : links'[k] = links[k]
  <2> DEFINE aged == [links[l] EXCEPT !.life = life]
  <2>1. links' = [links EXCEPT ![l] = aged]
    BY <1>1
  <2>2. aged \in LinkType /\ aged.life = life
        /\ aged.readable = links[l].readable
    BY <1>3 DEF LinkType, Lives
  <2> HIDE DEF aged
  <2>3. l \in 1..Len(links)
    BY <1>2 DEF Links
  <2>4. links' \in Seq(LinkType) /\ Len(links') = Len(links)
    BY <1>2, <2>1, <2>2, <2>3, ExceptSeq
  <2>5. links'[l] = aged /\ \A k \in Links \ {l} : links'[k] = links[k]
    BY <1>2, <2>1
  <2>6. QED
    BY <2>2, <2>4, <2>5
<1>5. url' = url /\ mu' = mu /\ worker' = worker
  BY DEF Ages
<1>6. PoolTyped' /\ Links' = Links
  BY <1>4, <1>5 DEF LinkInv, PoolTyped, Links
<1>7. \A k \in Links : links[k].life # "good" => links'[k].life # "good"
  BY <1>4
<1>8. links' = <<>> \/ links # <<>>
  BY <1>2, <1>4 DEF Links
<1>9. \A k \in Links : links[k].life = "dead" => links'[k].life = "dead"
  BY <1>2, <1>4
<1>10. ASSUME url # 0, Exhausted(url) PROVE Exhausted(url)'
  <2>1. url \in Links
    BY <1>10 DEF LinkInv
  <2>2. links'[url].readable = links[url].readable
    BY <1>4, <2>1
  <2>3. QED
    BY <1>5, <1>7, <1>10, <2>1, <2>2 DEF Exhausted
<1>11. Spent => Spent'
  BY <1>5, <1>10 DEF Spent
<1>12. ASSUME NEW w \in Workers, worker[w].at = "drop" PROVE Dead(w)'
  BY <1>5, <1>9, <1>12 DEF LinkInv, Dead
<1>13. (url = 0 => links = <<>> \/ links[Len(links)].life # "good")'
  <2> SUFFICES ASSUME url = 0, links # <<>> PROVE links'[Len(links')].life # "good"
    BY <1>5, <1>8
  <2>1. Len(links) \in Links
    BY <1>2 DEF Links
  <2>2. links[Len(links)].life # "good"
    BY DEF LinkInv
  <2>3. QED
    BY <1>4, <1>7, <2>1, <2>2
<1>14. (\A k \in Links : k < Len(links) => links[k].life # "good")'
  BY <1>4, <1>6, <1>7 DEF LinkInv
<1>15. QED
  BY <1>4, <1>5, <1>6, <1>11, <1>12, <1>13, <1>14 DEF LinkInv

\* With the pool at rest there is nothing to know.
LEMMA Rests ==
  ASSUME links' = <<>>, url' = 0, mu' = None, worker' = AtRest
  PROVE  LinkInv'
<1>1. [at |-> "gone", link |-> 0, try |-> 0] \in WorkerType
  BY DEF WorkerType, Places
<1>2. worker' \in [Workers -> WorkerType] /\ \A w \in Workers : worker'[w].at = "gone"
  BY <1>1 DEF AtRest
<1>3. PoolTyped'
  BY <1>2 DEF PoolTyped
<1>4. Links' = {}
  BY DEF Links
<1>5. QED
  BY <1>2, <1>3, <1>4 DEF LinkInv

LEMMA LinkNext == LinkInv /\ [Next]_vars => LinkInv'
<1> SUFFICES ASSUME LinkInv, [Next]_vars PROVE LinkInv'
  OBVIOUS
<1>1. CASE links' = links /\ url' = url /\ mu' = mu /\ worker' = worker
  <2>1. PoolTyped' /\ Links' = Links
    BY <1>1 DEF LinkInv, PoolTyped, Links
  <2>2. Spent => Spent'
    BY <1>1 DEF Spent, Exhausted
  <2>3. \A w \in Workers : Dead(w) => Dead(w)'
    BY <1>1 DEF Dead
  <2>4. QED
    BY <1>1, <2>1, <2>2, <2>3 DEF LinkInv
<1>2. CASE Start
  <2>1. CASE UNCHANGED poolVars
    BY <1>1, <2>1 DEF poolVars
  <2>2. CASE PoolStarts(Pending)
    <3>1. links' = links /\ url' = url /\ mu' = mu
          /\ worker' = [w \in Workers |-> [at |-> "next", link |-> 0, try |-> 0]]
      BY <2>2 DEF PoolStarts
    <3>2. [at |-> "next", link |-> 0, try |-> 0] \in WorkerType
      BY DEF WorkerType, Places
    <3>3. worker' \in [Workers -> WorkerType] /\ \A w \in Workers : worker'[w].at = "next"
      BY <3>1, <3>2
    <3>4. PoolTyped' /\ Links' = Links
      BY <3>1, <3>3 DEF LinkInv, PoolTyped, Links
    <3>5. QED
      BY <3>1, <3>3, <3>4 DEF LinkInv
  <2>3. QED
    BY <1>2, <2>1, <2>2 DEF Start
<1>3. CASE StageEnds
  BY <1>3, Rests DEF StageEnds, PoolLeaves
<1>4. ASSUME NEW w \in Workers, Fetching(w) PROVE LinkInv'
  BY <1>4, FetchKeeps DEF Fetching
<1>5. CASE Elsewhere
  <2>1. ASSUME NEW l \in DOMAIN links, Ages(l) PROVE LinkInv'
    BY <2>1, AgesKeeps
  <2>2. CASE UNCHANGED poolVars
    BY <1>1, <2>2 DEF poolVars
  <2>3. QED
    BY <1>5, <2>1, <2>2 DEF Elsewhere
<1>6. CASE UploadEnds \/ Sending \/ Cancel \/ TimesOut
  BY <1>1, <1>6 DEF UploadEnds, Sending, Cancel, TimesOut, EndsOuter, poolVars
<1>7. CASE UNCHANGED vars
  BY <1>1, <1>7 DEF vars, poolVars
<1>8. QED
  BY <1>2, <1>3, <1>4, <1>5, <1>6, <1>7 DEF Next

\* No link is given up while it is good: only a link that is dead is dropped, and
\* only one that has none, or one that is spent, has another asked for.
THEOREM LinksKept == Spec => []GoodLinkKept
<1>1. LinkInv => GoodLinkKept
  <2> SUFFICES ASSUME LinkInv, NEW l \in 1..(Len(links) - 1) PROVE links[l].life # "good"
    BY DEF GoodLinkKept
  <2>1. Len(links) \in Nat
    BY DEF LinkInv, PoolTyped
  <2>2. l \in Links /\ l < Len(links)
    BY <2>1 DEF Links
  <2>3. QED
    BY <2>2 DEF LinkInv
<1>2. QED
  BY <1>1, LinkInit, LinkNext, PTL DEF Spec

----------------------------------------------------------------------------
(* The geometry: the segments lie side by side and cover the file.         *)
LEMMA Divides ==
  ASSUME NEW a \in Nat, NEW b \in Nat \ {0}
  PROVE  a \div b \in Nat /\ (a \div b) * b <= a /\ a < (a \div b) * b + b
<1> DEFINE q == a \div b
           r == a % b
<1>1. q \in Int /\ r \in Int
  BY SMT
<1>2. a = b * q + r /\ 0 <= r /\ r < b
  BY SMT
<1>3. QED
  BY <1>1, <1>2, SMT

LEMMA TimesMonotone ==
  ASSUME NEW a \in Int, NEW b \in Int, NEW c \in Nat, a <= b
  PROVE  a * c <= b * c
BY SMT

LEMMA TimesCancels ==
  ASSUME NEW a \in Int, NEW b \in Int, NEW c \in Nat, a * c < b * c
  PROVE  a < b
BY SMT

\* How much of the file lies before the end of segment n.
Through(n) == IF size < n * SegmentSize THEN size ELSE n * SegmentSize

LEMMA Geometry ==
  ASSUME size \in Nat
  PROVE  /\ SegmentCount \in Nat \ {0}
         /\ Through(0) = 0 /\ Through(SegmentCount) = size
         /\ \A s \in Segments : /\ Offset(s) \in Nat /\ Length(s) \in Nat
                              /\ Offset(s) = Through(s - 1)
                              /\ Offset(s) + Length(s) = Through(s)
                              /\ Through(s) \in Nat /\ Through(s) <= size
<1>1. SegmentSize \in Nat \ {0}
  BY UploadAssumption
<1> DEFINE n == SegmentCount
<1>2. /\ n \in Nat \ {0} /\ size <= n * SegmentSize
      /\ size = 0 => n = 1
      /\ size # 0 => (n - 1) * SegmentSize < size
  <2>1. CASE size = 0
    BY <1>1, <2>1 DEF SegmentCount
  <2>2. CASE size # 0
    <3> DEFINE a == size + SegmentSize - 1
    <3>1. a \in Nat /\ n = a \div SegmentSize
      BY <1>1, <2>2 DEF SegmentCount
    <3> HIDE DEF a
    <3>2. n \in Nat /\ n * SegmentSize <= a /\ a < n * SegmentSize + SegmentSize
      BY <1>1, <3>1, Divides
    <3> HIDE DEF n
    <3>3. n * SegmentSize \in Nat /\ (n - 1) * SegmentSize = n * SegmentSize - SegmentSize
      BY <1>1, <3>2
    <3>4. size <= n * SegmentSize /\ (n - 1) * SegmentSize < size
      BY <1>1, <3>2, <3>3 DEF a
    <3>5. n # 0
      <4>1. n = 0 => n * SegmentSize = 0
        BY <1>1
      <4>2. QED
        BY <2>2, <3>4, <4>1
    <3>6. QED
      BY <2>2, <3>2, <3>4, <3>5
  <2>3. QED
    BY <2>1, <2>2
<1> HIDE DEF n
<1>3. Through(0) = 0
  BY <1>1 DEF Through
<1>4. Through(n) = size
  BY <1>1, <1>2 DEF Through
<1>5. ASSUME NEW s \in 1..n
      PROVE  /\ Offset(s) \in Nat /\ Length(s) \in Nat
             /\ Offset(s) = Through(s - 1)
             /\ Offset(s) + Length(s) = Through(s)
             /\ Through(s) \in Nat /\ Through(s) <= size
  <2>1. s \in Nat /\ s - 1 \in Nat /\ s - 1 <= n - 1 /\ n - 1 \in Nat
    BY <1>2
  <2>2. (s - 1) * SegmentSize \in Nat
    BY <1>1, <2>1
  <2>3. (s - 1) * SegmentSize <= (n - 1) * SegmentSize
    BY <1>1, <2>1, TimesMonotone
  <2>4. (s - 1) * SegmentSize <= size
    <3>1. CASE size = 0
      <4>1. n = 1
        BY <1>2, <3>1
      <4>2. s = 1
        BY <2>1, <4>1
      <4>3. (s - 1) * SegmentSize = 0
        BY <1>1, <4>2
      <4>4. QED
        BY <3>1, <4>3
    <3>2. CASE size # 0
      <4>1. (n - 1) * SegmentSize < size /\ (n - 1) * SegmentSize \in Nat
        BY <1>1, <1>2, <2>1, <3>2
      <4>2. QED
        BY <2>2, <2>3, <4>1
    <3>3. QED
      BY <3>1, <3>2
  <2>5. s * SegmentSize = (s - 1) * SegmentSize + SegmentSize
    BY <1>1, <2>1
  <2> DEFINE o == (s - 1) * SegmentSize
  <2>6. Offset(s) = o
    BY DEF Offset
  <2> HIDE DEF o
  <2>7. o \in Nat /\ o <= size /\ s * SegmentSize = o + SegmentSize
    BY <2>2, <2>4, <2>5 DEF o
  <2>8. Length(s) = IF size - o < SegmentSize THEN size - o ELSE SegmentSize
    BY <2>6 DEF Length
  <2>9. Through(s) = IF size < o + SegmentSize THEN size ELSE o + SegmentSize
    BY <2>7 DEF Through
  <2>10. Through(s - 1) = o
    BY <2>7 DEF Through, o
  <2>11. QED
    BY <1>1, <2>6, <2>7, <2>8, <2>9, <2>10
<1>6. QED
  BY <1>2, <1>3, <1>4, <1>5 DEF n, Segments

LEMMA Covered ==
  ASSUME size \in Nat
  PROVE  UNION {Bytes(Offset(s), Length(s)) : s \in Segments} = Bytes(0, size)
<1>1. SegmentSize \in Nat \ {0}
  BY UploadAssumption
<1>2. ASSUME NEW s \in Segments PROVE Bytes(Offset(s), Length(s)) \subseteq Bytes(0, size)
  <2>1. Offset(s) \in Nat /\ Length(s) \in Nat /\ Offset(s) + Length(s) <= size
    BY Geometry
  <2>2. QED
    BY <2>1 DEF Bytes
<1>3. ASSUME NEW b \in Bytes(0, size)
      PROVE  \E s \in Segments : b \in Bytes(Offset(s), Length(s))
  <2> DEFINE q == b \div SegmentSize
             s == q + 1
  <2>1. b \in Nat /\ b < size
    BY DEF Bytes
  <2>2. q \in Nat /\ q * SegmentSize <= b /\ b < q * SegmentSize + SegmentSize
    BY <1>1, <2>1, Divides
  <2> HIDE DEF q
  <2>3. SegmentCount \in Nat /\ Through(SegmentCount) = size
    BY Geometry
  <2>4. SegmentCount * SegmentSize \in Nat /\ size <= SegmentCount * SegmentSize
    BY <1>1, <2>3 DEF Through
  <2>5. q * SegmentSize \in Nat /\ q * SegmentSize < SegmentCount * SegmentSize
    BY <1>1, <2>1, <2>2, <2>4
  <2>6. q < SegmentCount
    BY <1>1, <2>2, <2>3, <2>5, TimesCancels
  <2>7. s \in Segments
    BY <2>2, <2>3, <2>6 DEF Segments
  <2>8. Offset(s) = q * SegmentSize
    BY <2>2 DEF Offset
  <2>9. Length(s) = IF size - q * SegmentSize < SegmentSize THEN size - q * SegmentSize
                    ELSE SegmentSize
    BY <2>8 DEF Length
  <2>10. q * SegmentSize <= b /\ b <= q * SegmentSize + Length(s) - 1
    BY <1>1, <2>1, <2>2, <2>5, <2>9
  <2>11. b \in Bytes(Offset(s), Length(s))
    BY <1>1, <2>1, <2>5, <2>8, <2>9, <2>10 DEF Bytes
  <2>12. QED
    BY <2>7, <2>11
<1>4. QED
  BY <1>2, <1>3

----------------------------------------------------------------------------
(* The upload.  While the job is open the host has segments of this file    *)
(* only, each from its own place; a round that has not been repeated sends  *)
(* them in order, so that what is counted is what lies before the next.     *)
Piece(s) == Bytes(Offset(s), Length(s))
SegmentType == [at: {"absent", "landing", "stored"}, bytes: SUBSET Int]

HeldRight ==
  /\ held \in [DOMAIN held -> SegmentType]
  /\ \A s \in DOMAIN held : held[s].at # "absent" => held[s].bytes = Piece(s)

Attached ==
  /\ step \in {"send", "ask", "pause"} => job = "open" /\ DOMAIN held = Segments
  /\ job = "committed" => DOMAIN held = Segments /\ Missing = {}
  /\ step = "sent" => job = "committed"

CountsInOrder ==
  \/ uploaded = size
  \/ \E n \in 0..SegmentCount : todo = (n + 1)..SegmentCount /\ uploaded = Through(n)

Counts ==
  /\ step = "begin" => uploaded = 0
  /\ step = "send" => todo \subseteq Segments /\ CountsInOrder
  /\ step \in {"ask", "pause", "sent"} => uploaded = size

UploadInv == size \in Nat /\ HeldRight /\ Attached /\ Counts

LEMMA UploadInit == Init => UploadInv
<1> SUFFICES ASSUME Init PROVE UploadInv
  OBVIOUS
<1>1. size \in Nat /\ step = "idle" /\ job = "none" /\ held = <<>>
  BY TransferAssumption DEF Init, UploadIdle
<1>2. DOMAIN held = {} /\ held = [s \in {} |-> Nothing]
  BY <1>1
<1>3. HeldRight
  BY <1>2 DEF HeldRight
<1>4. QED
  BY <1>1, <1>3 DEF UploadInv, Attached, Counts

\* What the host holds whole, it commits whole.
LEMMA Whole == UploadInv => CommittedIsWhole
<1> SUFFICES ASSUME UploadInv, job = "committed"
             PROVE  /\ \A s \in Segments : held[s].bytes = Bytes(Offset(s), Length(s))
                    /\ UNION {held[s].bytes : s \in Segments} = Bytes(0, size)
                    /\ step = "sent" => uploaded = size
  BY DEF CommittedIsWhole
<1>1. DOMAIN held = Segments /\ Missing = {}
  BY DEF UploadInv, Attached
<1>2. ASSUME NEW s \in Segments PROVE held[s].bytes = Bytes(Offset(s), Length(s))
  <2>1. held[s].at = "stored"
    BY <1>1 DEF Missing
  <2>2. QED
    BY <1>1, <2>1 DEF UploadInv, HeldRight, Piece
<1>3. {held[s].bytes : s \in Segments} = {Bytes(Offset(s), Length(s)) : s \in Segments}
  BY <1>2
<1>4. UNION {held[s].bytes : s \in Segments} = Bytes(0, size)
  BY <1>3, Covered DEF UploadInv
<1>5. QED
  BY <1>2, <1>4 DEF UploadInv, Counts

----------------------------------------------------------------------------
LEMMA SameFile ==
  ASSUME size' = size
  PROVE  /\ SegmentCount' = SegmentCount /\ Segments' = Segments
         /\ \A s : Piece(s)' = Piece(s) /\ Through(s)' = Through(s)
         /\ held' = held => Missing' = Missing /\ (HeldRight => HeldRight')
<1>1. SegmentCount' = SegmentCount
  BY DEF SegmentCount
<1>2. Segments' = Segments
  BY <1>1 DEF Segments
<1>3. \A s : Piece(s)' = Piece(s) /\ Through(s)' = Through(s)
  BY DEF Piece, Bytes, Offset, Length, Through
<1>4. held' = held => Missing' = Missing /\ (HeldRight => HeldRight')
  BY <1>2, <1>3 DEF Missing, HeldRight
<1>5. QED
  BY <1>1, <1>2, <1>3, <1>4

\* Steps at which nothing is sent and nothing arrives.
LEMMA Stays ==
  ASSUME UploadInv, size' = size, held' = held,
         step' \in {"idle", "broken", "abort"},
         job' = "committed" => job = "committed"
  PROVE  UploadInv'
<1>1. Segments' = Segments /\ Missing' = Missing /\ (HeldRight => HeldRight')
  BY SameFile
<1>2. QED
  BY <1>1 DEF UploadInv, Attached, Counts

\* Between the last segment of a round and the end of the commit.
LEMMA Asking ==
  ASSUME UploadInv, size' = size, held' = held, uploaded' = uploaded,
         uploaded = size, job' = job, job = "open", DOMAIN held = Segments,
         step' \in {"ask", "pause"}
  PROVE  UploadInv'
<1>1. Segments' = Segments /\ Missing' = Missing /\ (HeldRight => HeldRight')
  BY SameFile
<1>2. QED
  BY <1>1 DEF UploadInv, Attached, Counts

LEMMA BeginKeeps == UploadInv /\ Begin => UploadInv'
<1> SUFFICES ASSUME UploadInv, Begin PROVE UploadInv'
  OBVIOUS
<1>1. /\ size' = size /\ step' = "send" /\ job' = "open" /\ uploaded' = uploaded
      /\ held' = [s \in Segments |-> Nothing] /\ todo' = Segments
  BY DEF Begin, StepGoes
<1>2. Segments' = Segments /\ SegmentCount' = SegmentCount /\ Through(0)' = Through(0)
  BY <1>1, SameFile
<1>3. Nothing \in SegmentType /\ Nothing.at = "absent"
  BY DEF Nothing, SegmentType
<1>4. HeldRight'
  BY <1>1, <1>3 DEF HeldRight
<1>5. Attached'
  BY <1>1, <1>2 DEF Attached
<1>6. SegmentCount \in Nat /\ Through(0) = 0 /\ uploaded = 0
  BY Geometry DEF UploadInv, Counts, Begin, StepGoes
<1>7. todo' = (0 + 1)..SegmentCount' /\ uploaded' = Through(0)'
  BY <1>1, <1>2, <1>6 DEF Segments
<1>8. CountsInOrder'
  BY <1>2, <1>6, <1>7 DEF CountsInOrder
<1>9. QED
  BY <1>1, <1>2, <1>4, <1>5, <1>8 DEF UploadInv, Counts

LEMMA EnterKeeps == UploadInv /\ Enter => UploadInv'
<1> SUFFICES ASSUME UploadInv, Enter PROVE UploadInv'
  OBVIOUS
<1>1. size' = size /\ held' = held /\ job' = job /\ step' = "begin" /\ uploaded' = 0
  BY DEF Enter, StepGoes
<1>2. Segments' = Segments /\ Missing' = Missing /\ (HeldRight => HeldRight')
  BY <1>1, SameFile
<1>3. QED
  BY <1>1, <1>2 DEF UploadInv, Attached, Counts

LEMMA LeastOf ==
  ASSUME NEW S \in SUBSET Nat, S # {}
  PROVE  \E x \in S : \A y \in S : x <= y
<1> DEFINE R == {ss \in Nat \X Nat : ss[1] < ss[2]}
<1>1. IsWellFoundedOn(R, Nat)
  BY NatLessThanWellFounded DEF OpToRel
<1>2. S \subseteq Nat
  OBVIOUS
<1> HIDE DEF R
<1>3. \E x \in S : \A y \in S : ~(<<y, x>> \in R)
  BY <1>1, <1>2, WFMin
<1>4. PICK x \in S : \A y \in S : ~(<<y, x>> \in R)
  BY <1>3
<1>5. ASSUME NEW y \in S PROVE x <= y
  <2>1. <<y, x>> \notin R /\ y \in Nat /\ x \in Nat
    BY <1>4
  <2>2. ~(y < x)
    BY <2>1 DEF R
  <2>3. QED
    BY <2>1, <2>2
<1>6. QED
  BY <1>5

\* A segment is cut at its own offset, and what it adds to the count leaves off where
\* the next begins; once everything has been counted, nothing more is.
LEMMA SendKeeps == UploadInv /\ SendSegment => UploadInv'
<1> SUFFICES ASSUME UploadInv, SendSegment PROVE UploadInv'
  OBVIOUS
<1> DEFINE s == First(todo)
<1>1. /\ step = "send" /\ step' = "send" /\ todo # {} /\ todo' = todo \ {s}
      /\ size' = size /\ job' = job /\ uploaded' = Counted(Length(s))
      /\ held' = [held EXCEPT ![s] = [at |-> "landing", bytes |-> Bytes(Offset(s), Length(s))]]
  BY DEF SendSegment, Seeks
<1>2. /\ job = "open" /\ DOMAIN held = Segments /\ todo \subseteq Segments /\ CountsInOrder
      /\ size \in Nat /\ HeldRight
  BY <1>1 DEF UploadInv, Attached, Counts
<1>3. /\ SegmentCount' = SegmentCount /\ Segments' = Segments
      /\ \A t : Piece(t)' = Piece(t) /\ Through(t)' = Through(t)
  BY <1>1, SameFile
<1>4. SegmentCount \in Nat \ {0} /\ Through(SegmentCount) = size
  BY <1>2, Geometry
<1>5. s \in todo /\ \A t \in todo : s <= t
  <2>1. todo \in SUBSET Nat
    BY <1>2, <1>4 DEF Segments
  <2>2. \E t \in todo : \A u \in todo : t <= u
    BY <1>1, <2>1, LeastOf
  <2>3. QED
    BY <2>2 DEF First
<1> HIDE DEF s
<1>6. s \in Segments /\ Offset(s) \in Nat /\ Length(s) \in Nat /\ s \in 1..SegmentCount
  BY <1>2, <1>5, Geometry DEF Segments
<1>7. HeldRight'
  <2> DEFINE sent == [at |-> "landing", bytes |-> Piece(s)]
  <2>1. held' = [held EXCEPT ![s] = sent]
    BY <1>1 DEF Piece
  <2>2. sent \in SegmentType
    BY <1>6 DEF SegmentType, Piece, Bytes
  <2>3. sent.bytes = Piece(s)
    OBVIOUS
  <2> HIDE DEF sent
  <2>4. DOMAIN held' = DOMAIN held /\ held' \in [DOMAIN held -> SegmentType]
    BY <1>2, <2>1, <2>2 DEF HeldRight
  <2>5. \A t \in DOMAIN held : held'[t].at # "absent" => held'[t].bytes = Piece(t)
    BY <1>2, <2>1, <2>3 DEF HeldRight
  <2>6. QED
    BY <1>3, <2>4, <2>5 DEF HeldRight
<1>8. Attached'
  BY <1>1, <1>2, <1>3 DEF Attached
<1>9. CountsInOrder'
  <2>1. CASE uploaded = size
    <3>1. uploaded' = size
      BY <1>1, <1>2, <1>6, <2>1 DEF Counted
    <3>2. QED
      BY <1>1, <3>1 DEF CountsInOrder
  <2>2. CASE uploaded # size
    <3>1. PICK n \in 0..SegmentCount :
               todo = (n + 1)..SegmentCount /\ uploaded = Through(n)
      BY <1>2, <2>2 DEF CountsInOrder
    <3>2. n + 1 \in todo /\ n + 1 \in Nat /\ n \in Nat
      BY <1>4, <1>5, <1>6, <3>1
    <3>3. s = n + 1
      BY <1>4, <1>5, <1>6, <3>1, <3>2
    <3>4. todo' = (n + 1 + 1)..SegmentCount'
      BY <1>1, <1>3, <1>4, <3>1, <3>2, <3>3
    <3>5. Offset(s) = Through(s - 1) /\ Offset(s) + Length(s) = Through(s)
          /\ Through(s) \in Nat /\ Through(s) <= size
      BY <1>2, <1>6, Geometry
    <3>6. s - 1 = n
      BY <3>2, <3>3
    <3>7. uploaded + Length(s) = Through(s)
      BY <3>1, <3>5, <3>6
    <3>8. uploaded' = Through(s)
      BY <1>1, <1>2, <3>5, <3>7 DEF Counted
    <3>9. n + 1 \in 0..SegmentCount' /\ uploaded' = Through(n + 1)'
      BY <1>3, <1>6, <3>2, <3>3, <3>8
    <3>10. QED
      BY <3>4, <3>9 DEF CountsInOrder
  <2>3. QED
    BY <2>1, <2>2
<1>10. QED
  BY <1>1, <1>2, <1>3, <1>7, <1>8, <1>9 DEF UploadInv, Counts

LEMMA AllSentKeeps == UploadInv /\ AllSent => UploadInv'
<1> SUFFICES ASSUME UploadInv, AllSent PROVE UploadInv'
  OBVIOUS
<1>1. /\ todo = {} /\ step = "send" /\ step' = "ask" /\ size' = size /\ held' = held
      /\ uploaded' = uploaded /\ job' = job
  BY DEF AllSent, StepGoes
<1>2. job = "open" /\ DOMAIN held = Segments /\ CountsInOrder /\ size \in Nat
  BY <1>1 DEF UploadInv, Attached, Counts
<1>3. SegmentCount \in Nat /\ Through(SegmentCount) = size
  BY <1>2, Geometry
<1>4. uploaded = size
  <2>1. ASSUME NEW n \in 0..SegmentCount,
               todo = (n + 1)..SegmentCount, uploaded = Through(n)
        PROVE  uploaded = size
    <3>1. (n + 1)..SegmentCount = {}
      BY <1>1, <2>1
    <3>2. n = SegmentCount
      BY <1>3, <3>1
    <3>3. QED
      BY <1>3, <2>1, <3>2
  <2>2. QED
    BY <1>2, <2>1 DEF CountsInOrder
<1>5. QED
  BY <1>1, <1>2, <1>4, Asking

LEMMA CommitKeeps ==
  ASSUME UploadInv, NEW answered \in BOOLEAN, Commit(answered)
  PROVE  UploadInv'
<1>1. /\ step = "ask" /\ step' \in {"sent", "abort"} /\ Missing = {} /\ job' = "committed"
      /\ size' = size /\ held' = held /\ uploaded' = uploaded
  BY DEF Commit, StepGoes
<1>2. Segments' = Segments /\ Missing' = Missing /\ (HeldRight => HeldRight')
  BY <1>1, SameFile
<1>3. DOMAIN held = Segments /\ uploaded = size
  BY <1>1 DEF UploadInv, Attached, Counts
<1>4. QED
  BY <1>1, <1>2, <1>3 DEF UploadInv, Attached, Counts

LEMMA ResendKeeps == UploadInv /\ Resend => UploadInv'
<1> SUFFICES ASSUME UploadInv, Resend PROVE UploadInv'
  OBVIOUS
<1>1. /\ step = "ask" /\ step' \in {"send", "abort"} /\ job' = job /\ todo' = Missing
      /\ size' = size /\ held' = held /\ uploaded' = uploaded
  BY DEF Resend
<1>2. Segments' = Segments /\ Missing' = Missing /\ (HeldRight => HeldRight')
  BY <1>1, SameFile
<1>3. DOMAIN held = Segments /\ uploaded = size /\ job = "open"
  BY <1>1 DEF UploadInv, Attached, Counts
<1>4. todo' \subseteq Segments' /\ CountsInOrder'
  BY <1>1, <1>2, <1>3 DEF Missing, CountsInOrder
<1>5. QED
  BY <1>1, <1>2, <1>3, <1>4 DEF UploadInv, Attached, Counts

LEMMA StoresKeeps ==
  ASSUME UploadInv, NEW s \in DOMAIN held, Stores(s)
  PROVE  UploadInv'
<1>1. /\ job = "open" /\ job' = job /\ size' = size /\ step' = step /\ todo' = todo
      /\ uploaded' = uploaded /\ held[s].at = "landing"
  BY DEF Stores
<1>2. /\ SegmentCount' = SegmentCount /\ Segments' = Segments
      /\ \A t : Piece(t)' = Piece(t) /\ Through(t)' = Through(t)
  BY <1>1, SameFile
<1>3. held \in [DOMAIN held -> SegmentType] /\ held[s] \in SegmentType
      /\ \A t \in DOMAIN held : held[t].at # "absent" => held[t].bytes = Piece(t)
  BY DEF UploadInv, HeldRight
<1>4. DOMAIN held' = DOMAIN held /\ HeldRight'
  <2>1. CASE held' = [held EXCEPT ![s].at = "stored"]
    <3> DEFINE stored == [held[s] EXCEPT !.at = "stored"]
    <3>1. held' = [held EXCEPT ![s] = stored]
      BY <2>1
    <3>2. stored \in SegmentType /\ stored.bytes = held[s].bytes
      BY <1>3 DEF SegmentType
    <3>3. stored.bytes = Piece(s)
      BY <1>1, <1>3, <3>2
    <3> HIDE DEF stored
    <3>4. DOMAIN held' = DOMAIN held /\ held' \in [DOMAIN held -> SegmentType]
      BY <1>3, <3>1, <3>2
    <3>5. \A t \in DOMAIN held : held'[t].at # "absent" => held'[t].bytes = Piece(t)
      BY <1>3, <3>1, <3>3
    <3>6. QED
      BY <1>2, <3>4, <3>5 DEF HeldRight
  <2>2. CASE held' = [held EXCEPT ![s] = Nothing]
    <3>1. Nothing \in SegmentType /\ Nothing.at = "absent"
      BY DEF Nothing, SegmentType
    <3>2. DOMAIN held' = DOMAIN held /\ held' \in [DOMAIN held -> SegmentType]
      BY <1>3, <2>2, <3>1
    <3>3. \A t \in DOMAIN held : held'[t].at # "absent" => held'[t].bytes = Piece(t)
      BY <1>3, <2>2, <3>1
    <3>4. QED
      BY <1>2, <3>2, <3>3 DEF HeldRight
  <2>3. QED
    BY <2>1, <2>2 DEF Stores
<1>5. CountsInOrder => CountsInOrder'
  BY <1>1, <1>2 DEF CountsInOrder
<1>6. Attached'
  BY <1>1, <1>2, <1>4 DEF UploadInv, Attached
<1>7. Counts'
  BY <1>1, <1>2, <1>5 DEF UploadInv, Counts
<1>8. QED
  BY <1>1, <1>4, <1>6, <1>7 DEF UploadInv

LEMMA UploadingKeeps == UploadInv /\ Uploading => UploadInv'
<1> SUFFICES ASSUME UploadInv, Uploading PROVE UploadInv'
  OBVIOUS
<1>1. CASE Begin
  BY <1>1, BeginKeeps
<1>2. CASE SendSegment
  BY <1>2, SendKeeps
<1>3. CASE AllSent
  BY <1>3, AllSentKeeps
<1>4. CASE \E answered \in BOOLEAN : Commit(answered)
  BY <1>4, CommitKeeps
<1>5. CASE Resend
  BY <1>5, ResendKeeps
<1>6. CASE BeginFails \/ SegmentBreaks \/ CommitErrs \/ Abort
  <2>1. size' = size /\ held' = held /\ step' \in {"idle", "broken", "abort"}
        /\ (job' = "committed" => job = "committed")
    BY <1>6 DEF BeginFails, SegmentBreaks, CommitErrs, Abort, StepGoes
  <2>2. QED
    BY <2>1, Stays
<1>7. CASE CommitRefused \/ PauseEnds
  <2>1. /\ size' = size /\ held' = held /\ uploaded' = uploaded /\ job' = job
        /\ step \in {"ask", "pause"} /\ step' \in {"ask", "pause", "abort"}
    BY <1>7 DEF CommitRefused, PauseEnds, StepGoes
  <2>2. uploaded = size /\ job = "open" /\ DOMAIN held = Segments
    BY <2>1 DEF UploadInv, Attached, Counts
  <2>3. CASE step' = "abort"
    BY <2>1, <2>3, Stays
  <2>4. CASE step' # "abort"
    BY <2>1, <2>2, <2>4, Asking
  <2>5. QED
    BY <2>3, <2>4
<1>8. QED
  BY <1>1, <1>2, <1>3, <1>4, <1>5, <1>6, <1>7 DEF Uploading

LEMMA UploadNext == UploadInv /\ [Next]_vars => UploadInv'
<1> SUFFICES ASSUME UploadInv, [Next]_vars PROVE UploadInv'
  OBVIOUS
<1>1. CASE UNCHANGED uploadVars
  <2>1. /\ size' = size /\ held' = held /\ step' = step /\ todo' = todo
        /\ uploaded' = uploaded /\ job' = job
    BY <1>1 DEF uploadVars
  <2>2. /\ SegmentCount' = SegmentCount /\ Segments' = Segments /\ Missing' = Missing
        /\ \A t : Through(t)' = Through(t)
        /\ (HeldRight => HeldRight')
    BY <2>1, SameFile
  <2>3. CountsInOrder => CountsInOrder'
    BY <2>1, <2>2 DEF CountsInOrder
  <2>4. Attached'
    BY <2>1, <2>2 DEF UploadInv, Attached
  <2>5. Counts'
    BY <2>1, <2>2, <2>3 DEF UploadInv, Counts
  <2>6. QED
    BY <2>1, <2>2, <2>4, <2>5 DEF UploadInv
<1>2. CASE Start \/ StageEnds
  <2>1. Enter \/ UNCHANGED uploadVars
    BY <1>2 DEF Start, StageEnds
  <2>2. QED
    BY <1>1, <2>1, EnterKeeps
<1>3. CASE UploadEnds
  <2>1. CASE Leave
    BY <2>1, Stays DEF Leave, StepGoes
  <2>2. QED
    BY <1>1, <1>3, <2>1 DEF UploadEnds
<1>4. CASE Sending
  BY <1>4, UploadingKeeps DEF Sending
<1>5. CASE Elsewhere
  <2>1. CASE \E s \in DOMAIN held : Stores(s)
    BY <2>1, StoresKeeps
  <2>2. QED
    BY <1>1, <1>5, <2>1 DEF Elsewhere
<1>6. CASE (\E w \in Workers : Fetching(w)) \/ Cancel \/ TimesOut \/ UNCHANGED vars
  BY <1>1, <1>6 DEF Fetching, Cancel, TimesOut, vars
<1>7. QED
  BY <1>2, <1>3, <1>4, <1>5, <1>6 DEF Next

\* What the host commits is the file, every byte once and in its place, and what
\* is shown as uploaded when it is sent is its size, whatever was sent again.
THEOREM CommittedWhole == Spec => []CommittedIsWhole
BY UploadInit, UploadNext, Whole, PTL DEF Spec

----------------------------------------------------------------------------
(* The promise.  Whoever leaves an upload leaves no job open, unless an      *)
(* answer about it was lost; and no outcome is told in the middle of one.    *)
Answered ==
  /\ lost \in BOOLEAN /\ job \in {"none", "open", "committed", "aborted"}
  /\ job = "open" => lost \/ step \in {"send", "ask", "pause", "abort"}
  /\ job = "committed" => lost \/ step = "sent"
  /\ step \in {"send", "ask", "pause"} => job = "open"
  /\ step = "sent" => job = "committed"

Phases ==
  /\ phase \in {"queued", "stage", "failed"} => step = "idle"
  /\ phase \in Ended => step \in {"idle", "sent"}

PromiseInv == Answered /\ Phases

LEMMA PromiseInit == Init => PromiseInv /\ Delivery!Init
BY DEF Init, UploadIdle, PromiseInv, Answered, Phases, Ended, Delivery!Init, Shown, Told

\* Steps that neither concern the job nor tell anything.
LEMMA Mute ==
  ASSUME UNCHANGED uploadVars, phase' = phase
  PROVE  UNCHANGED <<Shown, Told, lost>>
BY DEF uploadVars, Shown, Told

LEMMA UploadingMoves ==
  ASSUME PromiseInv, phase = "upload", phase' = phase, Uploading
  PROVE  Answered' /\ (step' # "idle") /\ (Delivery!Move \/ UNCHANGED <<Shown, Told, lost>>)
<1>1. Told = "working" /\ Told' = "working"
  BY DEF Told, Ended
<1>2. CASE Begin
  BY <1>1, <1>2 DEF Begin, StepGoes, PromiseInv, Answered, Shown, Delivery!Move
<1>3. CASE BeginFails
  <2>1. /\ step = "begin" /\ step' = "broken"
        /\ (job' = job /\ lost' = lost) \/ (job' = "open" /\ lost' = TRUE)
    BY <1>3 DEF BeginFails, StepGoes
  <2>2. CASE job' = job /\ lost' = lost
    BY <2>1, <2>2, <1>1 DEF PromiseInv, Answered, Shown
  <2>3. CASE job' = "open" /\ lost' = TRUE
    <3>1. Answered' /\ lost'
      BY <2>1, <2>3 DEF Answered
    <3>2. Delivery!Move
      BY <1>1, <3>1 DEF Delivery!Move
    <3>3. QED
      BY <2>1, <3>1, <3>2
  <2>4. QED
    BY <2>1, <2>2, <2>3
<1>4. CASE SendSegment \/ SegmentBreaks \/ AllSent \/ CommitErrs \/ CommitRefused
           \/ Resend \/ PauseEnds
  <2>1. /\ job' = job /\ lost' = lost /\ step \in {"send", "ask", "pause"}
        /\ step' \in {"send", "ask", "pause", "abort"}
    BY <1>4 DEF SendSegment, SegmentBreaks, AllSent, CommitErrs, CommitRefused, Resend,
                PauseEnds, StepGoes
  <2>2. QED
    BY <1>1, <2>1 DEF PromiseInv, Answered, Shown
<1>5. CASE \E answered \in BOOLEAN : Commit(answered)
  <2>1. /\ step = "ask" /\ job' = "committed"
        /\ (step' = "sent" /\ lost' = lost) \/ (step' = "abort" /\ lost' = TRUE)
    BY <1>5 DEF Commit, StepGoes
  <2>2. QED
    BY <1>1, <2>1 DEF PromiseInv, Answered, Shown, Delivery!Move
<1>6. CASE Abort
  <2>1. /\ step = "abort" /\ step' = "broken"
        /\ \/ job = "open" /\ job' = "aborted" /\ lost' = lost
           \/ job = "committed" /\ job' \in {"committed", "aborted"} /\ lost' = lost
           \/ lost' = TRUE /\ job' = job
    BY <1>6 DEF Abort, StepGoes
  <2>2. QED
    BY <1>1, <2>1 DEF PromiseInv, Answered, Shown, Delivery!Move
<1>7. QED
  BY <1>2, <1>3, <1>4, <1>5, <1>6 DEF Uploading

\* A staged file is opened: a job that is still open is one that was lost.
LEMMA EnterMoves ==
  ASSUME PromiseInv, phase \in {"queued", "stage"}, phase' = "upload", Enter
  PROVE  PromiseInv' /\ (Delivery!Move \/ UNCHANGED <<Shown, Told, lost>>)
<1>1. step = "idle" /\ step' = "begin" /\ job' = job /\ lost' = lost
  BY DEF Enter, StepGoes
<1>2. Told = "working" /\ Told' = "working"
  BY DEF Told, Ended
<1>3. QED
  BY <1>1, <1>2 DEF PromiseInv, Answered, Phases, Ended, Shown, Delivery!Move

\* An attempt ends, with an outcome or without.
LEMMA EndTells ==
  ASSUME PromiseInv, phase \notin Ended,
         phase' \in {"queued", "failed", "cancelled"},
         step \in {"idle", "broken"}, step' = "idle", job' = job, lost' = lost
  PROVE  PromiseInv' /\ (Delivery!Next \/ UNCHANGED <<Shown, Told, lost>>)
<1>1. PromiseInv'
  BY DEF PromiseInv, Answered, Phases, Ended
<1>2. lost \/ (Shown = "none" /\ Shown' = Shown)
  BY DEF PromiseInv, Answered, Shown
<1>3. Told = "working" /\ lost' = lost
  BY DEF Told
<1>4. CASE phase' = "queued"
  <2>1. Told' = "working"
    BY <1>4 DEF Told, Ended
  <2>2. QED
    BY <1>1, <1>2, <1>3, <2>1 DEF Delivery!Next, Delivery!Move
<1>5. CASE phase' # "queued"
  <2>1. Told' \in Delivery!Outcomes /\ Told' # "delivered"
    BY <1>5 DEF Told, Ended, Delivery!Outcomes
  <2>2. Delivery!Tell(Told')
    BY <1>2, <1>3, <2>1 DEF Delivery!Tell
  <2>3. QED
    BY <1>1, <2>1, <2>2 DEF Delivery!Next
<1>6. QED
  BY <1>4, <1>5

LEMMA PromiseNext ==
  PromiseInv /\ [Next]_vars => PromiseInv' /\ [Delivery!Next]_<<Shown, Told, lost>>
<1> SUFFICES ASSUME PromiseInv, [Next]_vars
             PROVE  PromiseInv' /\ (Delivery!Next \/ UNCHANGED <<Shown, Told, lost>>)
  OBVIOUS
<1>1. CASE UNCHANGED uploadVars /\ phase' = phase
  BY <1>1, Mute DEF uploadVars, PromiseInv, Answered, Phases
<1>2. CASE Start
  <2>1. CASE phase' = "upload" /\ Enter
    BY <1>2, <2>1, EnterMoves DEF Start, Delivery!Next
  <2>2. CASE phase' = "stage" /\ UNCHANGED uploadVars
    BY <1>2, <2>2 DEF Start, uploadVars, PromiseInv, Answered, Phases, Shown, Told, Ended
  <2>3. QED
    BY <1>2, <2>1, <2>2 DEF Start
<1>3. CASE StageEnds
  <2>1. CASE phase' = "upload" /\ Enter
    BY <1>3, <2>1, EnterMoves DEF StageEnds, Delivery!Next
  <2>2. CASE ~(phase' = "upload" /\ Enter)
    <3>1. phase = "stage" /\ UNCHANGED uploadVars /\ phase' \in {"queued", "failed", "cancelled"}
      BY <1>3, <2>2 DEF StageEnds, RetryLater
    <3>2. step = "idle" /\ step' = "idle" /\ job' = job /\ lost' = lost /\ phase \notin Ended
      BY <3>1 DEF uploadVars, PromiseInv, Phases, Ended
    <3>3. QED
      BY <3>1, <3>2, EndTells
  <2>3. QED
    BY <2>1, <2>2
<1>4. CASE UploadEnds
  <2>1. phase = "upload" /\ phase \notin Ended
    BY <1>4 DEF UploadEnds, Ended
  <2>2. CASE Leave /\ phase' = RetryLater
    <3>1. /\ step = "broken" /\ step' = "idle" /\ job' = job /\ lost' = lost
          /\ phase' \in {"queued", "failed", "cancelled"}
      BY <2>2 DEF Leave, StepGoes, RetryLater
    <3>2. QED
      BY <2>1, <3>1, EndTells
  <2>3. CASE step = "sent" /\ phase' \in {"cancelled", "delivered"} /\ UNCHANGED uploadVars
    <3>1. /\ step' = "sent" /\ job = "committed" /\ job' = job /\ lost' = lost
      BY <2>3 DEF uploadVars, PromiseInv, Answered
    <3>2. PromiseInv'
      BY <2>3, <3>1 DEF PromiseInv, Answered, Phases, Ended
    <3>3. Shown = "published" /\ Shown' = Shown /\ Told = "working"
          /\ Told' \in Delivery!Outcomes
      BY <2>1, <2>3, <3>1 DEF Shown, Told, Ended, Delivery!Outcomes
    <3>4. Delivery!Tell(Told')
      BY <3>1, <3>3 DEF Delivery!Tell
    <3>5. QED
      BY <3>2, <3>3, <3>4 DEF Delivery!Next
  <2>4. QED
    BY <1>4, <2>2, <2>3 DEF UploadEnds
<1>5. CASE Sending
  <2>1. phase = "upload" /\ phase' = phase /\ Uploading
    BY <1>5 DEF Sending
  <2>2. Answered' /\ step' # "idle" /\ (Delivery!Move \/ UNCHANGED <<Shown, Told, lost>>)
    BY <2>1, UploadingMoves
  <2>3. Phases'
    BY <2>1 DEF Phases, Ended
  <2>4. QED
    BY <2>2, <2>3 DEF PromiseInv, Delivery!Next
<1>6. CASE Cancel
  <2>1. CASE phase = "queued" /\ phase' = "cancelled"
    <3>1. step = "idle" /\ step' = "idle" /\ job' = job /\ lost' = lost /\ phase \notin Ended
      BY <1>6, <2>1 DEF Cancel, uploadVars, PromiseInv, Phases, Ended
    <3>2. QED
      BY <2>1, <3>1, EndTells
  <2>2. QED
    BY <1>1, <1>6, <2>1 DEF Cancel
<1>7. CASE Elsewhere
  <2>1. CASE \E s \in DOMAIN held : Stores(s)
    <3>1. step' = step /\ job' = job /\ lost' = lost /\ phase' = phase
      BY <1>7, <2>1 DEF Stores, Elsewhere
    <3>2. QED
      BY <3>1 DEF PromiseInv, Answered, Phases, Shown, Told
  <2>2. QED
    BY <1>1, <1>7, <2>1 DEF Elsewhere
<1>8. CASE (\E w \in Workers : Fetching(w)) \/ TimesOut \/ UNCHANGED vars
  BY <1>1, <1>8 DEF Fetching, TimesOut, vars
<1>9. QED
  BY <1>2, <1>3, <1>4, <1>5, <1>6, <1>7, <1>8 DEF Next

\* The transfer of a file keeps the promise of FileDelivery: no upload is left open
\* behind an outcome, and "delivered" is told only of what is there.
THEOREM KeepsPromise == Spec => ImplementsDelivery
<1>1. Spec => Delivery!Init /\ [][Delivery!Next]_<<Shown, Told, lost>>
  BY PromiseInit, PromiseNext, PTL DEF Spec
<1>2. QED
  BY <1>1 DEF ImplementsDelivery, Delivery!Spec

----------------------------------------------------------------------------
(* The error of a pool.  A worker reports the end of a context only when the *)
(* pool's has ended, and with its reason; only a worker with an error of its *)
(* own ends the pool's context alone.                                        *)
OwnErrors == {"changed", "failed"}
Errors == OwnErrors \union {"canceled", "deadline"}

CauseInv ==
  /\ results \in Seq(Errors) /\ ended \in [pool : Reasons, outer : Reasons]
  /\ results # <<>> => ended.pool # ""
  /\ \A i \in DOMAIN results : results[i] = "deadline" => ended.pool = "deadline"
  /\ \/ ended.pool = ended.outer
     \/ ended.pool = "canceled" /\ \E i \in DOMAIN results : results[i] \in OwnErrors

\* What a sequence is once an element is appended.
LEMMA Appended ==
  ASSUME NEW S, NEW before \in Seq(S), NEW e \in S
  PROVE  /\ Append(before, e) \in Seq(S) /\ Len(before) \in Nat
         /\ DOMAIN before = 1..Len(before) /\ DOMAIN Append(before, e) = 1..(Len(before) + 1)
         /\ \A i \in 1..Len(before) : Append(before, e)[i] = before[i]
         /\ Append(before, e)[Len(before) + 1] = e
  BY AppendProperties, LenProperties

LEMMA Extended ==
  ASSUME NEW S, NEW before \in Seq(S), NEW e \in S, NEW after, after = Append(before, e)
  PROVE  /\ after \in Seq(S)
         /\ \A i \in DOMAIN before : i \in DOMAIN after /\ after[i] = before[i]
         /\ \E i \in DOMAIN after : after[i] = e
<1>1. /\ after \in Seq(S) /\ Len(before) \in Nat
      /\ DOMAIN before = 1..Len(before) /\ DOMAIN after = 1..(Len(before) + 1)
  BY Appended
<1>2. \A i \in 1..Len(before) : after[i] = before[i]
  BY Appended
<1>3. after[Len(before) + 1] = e
  BY Appended
<1>4. \A i \in 1..Len(before) : i \in 1..(Len(before) + 1)
  BY <1>1
<1>5. Len(before) + 1 \in 1..(Len(before) + 1)
  BY <1>1
<1>6. QED
  BY <1>1, <1>2, <1>3, <1>4, <1>5

LEMMA ErrorExtends ==
  ASSUME results \in Seq(Errors), NEW error \in Errors, results' = Append(results, error)
  PROVE  /\ results' \in Seq(Errors)
         /\ \A i \in DOMAIN results : i \in DOMAIN results' /\ results'[i] = results[i]
         /\ \E i \in DOMAIN results' : results'[i] = error
  BY Extended

LEMMA OnlyAppended ==
  ASSUME results \in Seq(Errors), NEW error \in Errors, results' = Append(results, error)
  PROVE  \A i \in DOMAIN results' : i \in DOMAIN results \/ results'[i] = error
<1>1. /\ DOMAIN results = 1..Len(results) /\ Len(results) \in Nat
      /\ DOMAIN results' = 1..(Len(results) + 1) /\ results'[Len(results) + 1] = error
  BY Appended
<1>2. QED
  BY <1>1

LEMMA CauseGiven ==
  ASSUME CauseInv, NEW w, NEW error, GivesUp(w, error),
         error \in OwnErrors \/ (ended.pool # "" /\ error = ended.pool)
  PROVE  CauseInv'
<1>1. /\ results \in Seq(Errors) /\ results' = Append(results, error)
      /\ ended \in [pool : Reasons, outer : Reasons]
      /\ ended' = IF ended.pool = "" THEN [ended EXCEPT !.pool = "canceled"] ELSE ended
  BY DEF CauseInv, GivesUp
<1>2. error \in Errors
  BY <1>1 DEF OwnErrors, Errors, Reasons
<1>3. /\ results' \in Seq(Errors)
      /\ \A i \in DOMAIN results : i \in DOMAIN results' /\ results'[i] = results[i]
      /\ \E i \in DOMAIN results' : results'[i] = error
  BY <1>1, <1>2, ErrorExtends
<1>4. \A i \in DOMAIN results' : i \in DOMAIN results \/ results'[i] = error
  BY <1>1, <1>2, OnlyAppended
<1>5. /\ ended' \in [pool : Reasons, outer : Reasons] /\ ended'.pool # ""
      /\ ended'.outer = ended.outer
      /\ ended'.pool = IF ended.pool = "" THEN "canceled" ELSE ended.pool
  BY <1>1 DEF Reasons
<1>6. ASSUME NEW i \in DOMAIN results', results'[i] = "deadline"
      PROVE  ended'.pool = "deadline"
  <2>1. CASE i \in DOMAIN results
    <3>1. ended.pool = "deadline"
      BY <1>3, <1>6, <2>1 DEF CauseInv
    <3>2. QED
      BY <1>5, <3>1
  <2>2. CASE results'[i] = error
    <3>1. ended.pool = "deadline"
      BY <1>6, <2>2 DEF OwnErrors
    <3>2. QED
      BY <1>5, <3>1
  <2>3. QED
    BY <1>4, <2>1, <2>2
<1>7. \/ ended'.pool = ended'.outer
      \/ ended'.pool = "canceled" /\ \E i \in DOMAIN results' : results'[i] \in OwnErrors
  <2>1. CASE ended.pool = ""
    <3>1. PICK i \in DOMAIN results' : results'[i] = error
      BY <1>3
    <3>2. QED
      BY <1>5, <2>1, <3>1
  <2>2. CASE ended.pool # "" /\ ended.pool = ended.outer
    BY <1>5, <2>2
  <2>3. CASE ended.pool # "" /\ ended.pool # ended.outer
    <3>1. PICK i \in DOMAIN results : results[i] \in OwnErrors
      BY <2>3 DEF CauseInv
    <3>2. i \in DOMAIN results' /\ results'[i] \in OwnErrors
      BY <1>3, <3>1
    <3>3. ended'.pool = "canceled"
      BY <1>5, <2>3 DEF CauseInv
    <3>4. QED
      BY <3>2, <3>3
  <2>4. QED
    BY <2>1, <2>2, <2>3
<1>8. QED
  BY <1>3, <1>5, <1>6, <1>7 DEF CauseInv

LEMMA CauseLost ==
  ASSUME CauseInv, NEW w, NEW error, LosesTry(w, error),
         error \in OwnErrors \/ (ended.pool # "" /\ error = ended.pool)
  PROVE  CauseInv'
<1>1. GivesUp(w, error) \/ UNCHANGED <<results, ended>>
  BY DEF LosesTry
<1>2. CASE UNCHANGED <<results, ended>>
  BY <1>2 DEF CauseInv
<1>3. QED
  BY <1>1, <1>2, CauseGiven

\* A context that ends while the pool's goes on ends both; else the pool's has its
\* reason already.
LEMMA CauseEnded ==
  ASSUME CauseInv, NEW reason \in {"canceled", "deadline"}, EndsOuter(reason)
  PROVE  CauseInv'
<1>1. /\ results' = results /\ ended \in [pool : Reasons, outer : Reasons]
      /\ ended' = IF ended.outer # "" THEN ended
                  ELSE [pool |-> IF ended.pool = "" THEN reason ELSE ended.pool,
                        outer |-> reason]
  BY DEF EndsOuter, CauseInv
<1>2. CASE ended' = ended
  BY <1>1, <1>2 DEF CauseInv
<1>3. CASE ended.outer = "" /\ ended.pool = ""
  <2>1. results = <<>> /\ ended' = [pool |-> reason, outer |-> reason]
    BY <1>1, <1>3 DEF CauseInv
  <2>2. ended' \in [pool : Reasons, outer : Reasons] /\ ended'.pool = ended'.outer
    BY <2>1 DEF Reasons
  <2>3. results' \in Seq(Errors) /\ DOMAIN results' = {} /\ results' = <<>>
    <3>1. <<>> \in Seq(Errors) /\ DOMAIN <<>> = {}
      BY EmptySeq
    <3>2. QED
      BY <1>1, <2>1, <3>1
  <2>4. QED
    BY <2>2, <2>3 DEF CauseInv
<1>4. CASE ended.outer = "" /\ ended.pool # ""
  <2>1. ended' \in [pool : Reasons, outer : Reasons] /\ ended'.pool = ended.pool
    BY <1>1, <1>4 DEF Reasons
  <2>2. ended.pool = "canceled" /\ \E i \in DOMAIN results : results[i] \in OwnErrors
    BY <1>4 DEF CauseInv
  <2>3. QED
    BY <1>1, <1>4, <2>1, <2>2 DEF CauseInv
<1>5. QED
  BY <1>1, <1>2, <1>3, <1>4

LEMMA CauseNext == CauseInv /\ [Next]_vars => CauseInv'
<1> SUFFICES ASSUME CauseInv, [Next]_vars PROVE CauseInv'
  OBVIOUS
<1>1. CASE UNCHANGED <<results, ended>>
  BY <1>1 DEF CauseInv
<1>2. ASSUME NEW w \in Workers, CallFails(w) PROVE CauseInv'
  <2>1. \/ LosesTry(w, "failed")
        \/ ended.pool # "" /\ LosesTry(w, ended.pool)
    BY <1>2 DEF CallFails
  <2>2. "failed" \in OwnErrors
    BY DEF OwnErrors
  <2>3. QED
    BY <2>1, <2>2, CauseLost
<1>3. ASSUME NEW w \in Workers, Fetch(w) PROVE CauseInv'
  <2>1. CASE TakeChunk(w) \/ Current(w) \/ Issued(w) \/ Served(w) \/ Refused(w)
    BY <1>1, <2>1 DEF TakeChunk, Current, Issued, Served, Refused
  <2>2. CASE BeginsTry(w)
    <3>1. (ended.pool # "" /\ GivesUp(w, ended.pool)) \/ UNCHANGED <<results, ended>>
      BY <2>2 DEF BeginsTry
    <3>2. QED
      BY <1>1, <3>1, CauseGiven
  <2>3. CASE AskFails(w) \/ Breaks(w)
    BY <1>2, <2>3 DEF AskFails, Breaks
  <2>4. CASE Invalidate(w)
    <3>1. LosesTry(w, "failed") /\ "failed" \in OwnErrors
      BY <2>4 DEF Invalidate, OwnErrors
    <3>2. QED
      BY <3>1, CauseLost
  <2>5. CASE Hopeless(w)
    <3>1. /\ GivesUp(w, "changed") \/ GivesUp(w, "failed")
          /\ "changed" \in OwnErrors /\ "failed" \in OwnErrors
      BY <2>5 DEF Hopeless, OwnErrors
    <3>2. QED
      BY <3>1, CauseGiven
  <2>6. QED
    BY <1>3, <2>1, <2>2, <2>3, <2>4, <2>5 DEF Fetch
<1>4. CASE StageEnds
  <2>1. results' = <<>> /\ ended' = NotEnded
    BY <1>4 DEF StageEnds, PoolLeaves
  <2>2. <<>> \in Seq(Errors) /\ DOMAIN <<>> = {}
    BY EmptySeq
  <2>3. QED
    BY <2>1, <2>2 DEF CauseInv, NotEnded, Reasons
<1>6. CASE Start \/ UploadEnds \/ Sending \/ Elsewhere
  BY <1>1, <1>6 DEF Start, PoolStarts, UploadEnds, Sending, Elsewhere, Ages, poolVars
<1>7. CASE Cancel \/ TimesOut
  <2>1. \/ EndsOuter("canceled") \/ EndsOuter("deadline")
        \/ UNCHANGED <<results, ended>>
    BY <1>7 DEF Cancel, TimesOut, poolVars
  <2>2. QED
    BY <1>1, <2>1, CauseEnded
<1>8. CASE UNCHANGED vars
  BY <1>1, <1>8 DEF vars, poolVars
<1>9. QED
  BY <1>3, <1>4, <1>6, <1>7, <1>8 DEF Next, Fetching

\* The first error that is no cancellation is an error that was reported, if there is one.
LEMMA FirstIsReported ==
  ASSUME CauseInv, NEW j \in DOMAIN results, results[j] # "canceled"
  PROVE  FirstError # "canceled" /\ \E i \in DOMAIN results : FirstError = results[i]
<1> DEFINE own == {i \in DOMAIN results : results[i] # "canceled"}
<1>1. own \in SUBSET Nat /\ own # {}
  <2>1. DOMAIN results = 1..Len(results) /\ Len(results) \in Nat
    BY LenProperties DEF CauseInv
  <2>2. QED
    BY <2>1
<1>2. FirstError = results[CHOOSE i \in own : \A k \in own : i <= k]
  BY <1>1 DEF FirstError
<1> HIDE DEF own
<1>3. \E i \in own : \A k \in own : i <= k
  BY <1>1, LeastOf
<1>4. PICK i : i = CHOOSE x \in own : \A k \in own : x <= k
  OBVIOUS
<1>5. i \in own
  BY <1>3, <1>4
<1>6. QED
  BY <1>2, <1>4, <1>5 DEF own

\* What stopped the pool is what it reports: a changed source is not hidden behind
\* cancellations, unless a worker failed for good as well or a deadline had ended the
\* pool, and the end of a context is reported only if it is the attempt's own that
\* ended, and for its reason (downloadChunks).
THEOREM CauseIsReported == Spec => []CauseReported
<1>1. Init => CauseInv
  <2>1. <<>> \in Seq(Errors) /\ DOMAIN <<>> = {}
    BY EmptySeq
  <2>2. NotEnded \in [pool : Reasons, outer : Reasons] /\ NotEnded.pool = NotEnded.outer
    BY DEF NotEnded, Reasons
  <2>3. Init => results = <<>> /\ ended = NotEnded
    BY DEF Init, PoolIdle
  <2>4. QED
    BY <2>1, <2>2, <2>3 DEF CauseInv
<1>2. CauseInv => CauseReported
  <2> SUFFICES ASSUME CauseInv
               PROVE  /\ (Reported("changed") /\ ~Reported("failed") /\ ended.pool # "deadline")
                           => Outcome = "changed"
                      /\ Outcome \in {"canceled", "deadline"} => Outcome = ended.outer
    BY DEF CauseReported
  <2>1. \A i \in DOMAIN results : results[i] \in Errors
    <3>1. results \in Seq(Errors)
      BY DEF CauseInv
    <3>2. QED
      BY <3>1, ElementOfSeq, LenProperties
  <2>2. ASSUME Reported("changed"), ~Reported("failed"), ended.pool # "deadline"
        PROVE  Outcome = "changed"
    <3>1. PICK j \in DOMAIN results : results[j] = "changed"
      BY <2>2 DEF Reported
    <3>2. PICK i \in DOMAIN results : FirstError = results[i]
      BY <3>1, FirstIsReported
    <3>3. FirstError # "canceled"
      BY <3>1, FirstIsReported
    <3>4. results[i] # "deadline"
      BY <2>2 DEF CauseInv
    <3>5. results[i] # "failed"
      BY <2>2 DEF Reported
    <3>6. FirstError = "changed"
      BY <2>1, <3>2, <3>3, <3>4, <3>5 DEF Errors, OwnErrors
    <3>7. results # <<>>
      BY <3>1
    <3>8. QED
      BY <3>6, <3>7 DEF Outcome
  <2>3. ASSUME Outcome \in {"canceled", "deadline"}  PROVE Outcome = ended.outer
    <3>1. CASE results = <<>>
      <4>1. ended.pool = ended.outer
        BY <3>1 DEF CauseInv
      <4>2. Outcome = IF ended.pool # "" THEN ended.pool ELSE "ok"
        BY <3>1 DEF Outcome
      <4>3. QED
        BY <2>3, <4>1, <4>2
    <3>2. CASE results # <<>> /\ ended.outer # ""
      BY <2>3, <3>2 DEF Outcome
    <3>3. CASE results # <<>> /\ ended.outer = ""
      <4>1. /\ ended.pool = "canceled"
            /\ \E i \in DOMAIN results : results[i] \in OwnErrors
        BY <3>3 DEF CauseInv
      <4>2. PICK j \in DOMAIN results : results[j] # "canceled"
        BY <4>1 DEF OwnErrors
      <4>3. FirstError # "canceled"
        BY <4>2, FirstIsReported
      <4>4. PICK i \in DOMAIN results : FirstError = results[i]
        BY <4>2, FirstIsReported
      <4>5. FirstError # "deadline"
        BY <4>1, <4>4 DEF CauseInv
      <4>6. Outcome \in {"changed", FirstError}
        BY <3>3 DEF Outcome
      <4>7. QED
        BY <2>3, <4>3, <4>5, <4>6
    <3>4. QED
      BY <3>1, <3>2, <3>3
  <2>4. QED
    BY <2>2, <2>3
<1>3. QED
  BY <1>1, <1>2, CauseNext, PTL DEF Spec

----------------------------------------------------------------------------
(* The budget of a row.  While no fault has been paid for an attempt, the   *)
(* pool has met nothing but links that died: a chunk has lost no more tries *)
(* than links have died before the one it is at.                            *)
DeadIn(chain) == {k \in 1..Len(chain) : chain[k].life = "dead"}
DeadTo(chain, n) == {k \in DeadIn(chain) : k <= n}
Deaths(chain, n) == Cardinality(DeadTo(chain, n))

Trying == {"try", "wait", "current", "ask"}

TriesSpent(w) ==
  /\ worker[w].at \in {"fetch", "drop"} => worker[w].try <= Deaths(links, worker[w].link - 1)
  /\ worker[w].at \in Trying =>
       /\ worker[w].try <= Deaths(links, worker[w].link)
       /\ worker[w].link <= Len(links) /\ (url = 0 \/ url > worker[w].link)
  /\ worker[w].at = "next" => worker[w].try = 0 /\ worker[w].link = 0

Unpaid == ~cancelled /\ ~slow /\ attempt > faults
Paid ==
  /\ slow \/ attempt <= faults + 1
  /\ phase = "queued" => slow \/ attempt <= faults
Emptied == phase # "stage" => links = <<>> /\ results = <<>> /\ ended = NotEnded
FewDie == Cardinality(DeadIn(links)) <= MaxDeaths
PoolClean == results = <<>> /\ ended = NotEnded /\ \A w \in Workers : TriesSpent(w)
UploadClean ==
  /\ step \notin {"abort", "broken"}
  /\ step \in {"ask", "pause"} => todo = {}
  /\ step \in {"send", "ask", "pause"} =>
       \A s \in Segments \ todo : held[s].at # "absent"

BudgetInv ==
  /\ attempt \in Nat /\ faults \in Nat
  /\ Paid /\ Emptied /\ FewDie
  /\ Unpaid /\ phase = "stage" => PoolClean
  /\ Unpaid /\ phase = "upload" => UploadClean

LEMMA DeadFinite ==
  ASSUME NEW chain \in Seq(LinkType)
  PROVE  /\ Len(chain) \in Nat /\ IsFiniteSet(DeadIn(chain)) /\ DeadIn(chain) \subseteq Nat
         /\ Cardinality(DeadIn(chain)) \in Nat
         /\ \A n \in Int : /\ IsFiniteSet(DeadTo(chain, n)) /\ Deaths(chain, n) \in Nat
                          /\ Deaths(chain, n) <= Cardinality(DeadIn(chain))
<1>1. Len(chain) \in Nat
  BY LenProperties
<1>2. IsFiniteSet(1..Len(chain))
  BY <1>1, FS_Interval
<1>3. DeadIn(chain) \subseteq 1..Len(chain)
  BY DEF DeadIn
<1>4. IsFiniteSet(DeadIn(chain))
  BY <1>2, <1>3, FS_Subset
<1>5. Cardinality(DeadIn(chain)) \in Nat
  BY <1>4, FS_CardinalityType
<1>6. ASSUME NEW n \in Int
      PROVE  /\ IsFiniteSet(DeadTo(chain, n)) /\ Deaths(chain, n) \in Nat
             /\ Deaths(chain, n) <= Cardinality(DeadIn(chain))
  <2>1. DeadTo(chain, n) \subseteq DeadIn(chain)
    BY DEF DeadTo
  <2>2. /\ IsFiniteSet(DeadTo(chain, n))
        /\ Cardinality(DeadTo(chain, n)) <= Cardinality(DeadIn(chain))
    BY <1>4, <2>1, FS_Subset
  <2>3. Cardinality(DeadTo(chain, n)) \in Nat
    BY <2>2, FS_CardinalityType
  <2>4. QED
    BY <2>2, <2>3 DEF Deaths
<1>7. DeadIn(chain) \subseteq Nat
  BY <1>1, <1>3
<1>8. QED
  BY <1>1, <1>4, <1>5, <1>6, <1>7

\* Of more links no fewer have died, and a dead link is one more.
LEMMA DeathsGrow ==
  ASSUME NEW chain \in Seq(LinkType), NEW m \in Int, NEW n \in Int, m <= n
  PROVE  Deaths(chain, m) <= Deaths(chain, n)
<1>1. IsFiniteSet(DeadTo(chain, n))
  BY DeadFinite
<1>2. DeadTo(chain, m) \subseteq DeadTo(chain, n)
  BY DeadFinite DEF DeadTo
<1>3. QED
  BY <1>1, <1>2, FS_Subset DEF Deaths

LEMMA DeathCounts ==
  ASSUME NEW chain \in Seq(LinkType), NEW l \in DeadIn(chain)
  PROVE  Deaths(chain, l) = Deaths(chain, l - 1) + 1
<1>1. l \in Int /\ l - 1 \in Int
  BY DeadFinite
<1>2. IsFiniteSet(DeadTo(chain, l - 1))
  BY <1>1, DeadFinite
<1>3. \A k \in DeadIn(chain) : k <= l <=> (k <= l - 1 \/ k = l)
  <2>1. \A i, k \in Int : k <= i <=> (k <= i - 1 \/ k = i)
    OBVIOUS
  <2>2. \A k \in DeadIn(chain) : k \in Int
    BY DeadFinite
  <2>3. QED
    BY <1>1, <2>1, <2>2
<1>4. DeadTo(chain, l) = DeadTo(chain, l - 1) \cup {l}
  BY <1>1, <1>3 DEF DeadTo
<1>5. l \notin DeadTo(chain, l - 1)
  BY <1>1 DEF DeadTo
<1>6. Cardinality(DeadTo(chain, l - 1) \cup {l}) = Cardinality(DeadTo(chain, l - 1)) + 1
  BY <1>2, <1>5, FS_AddElement
<1>7. QED
  BY <1>4, <1>6 DEF Deaths

\* The dead stay dead.
LEMMA DeathsStay ==
  ASSUME NEW before \in Seq(LinkType), NEW after \in Seq(LinkType), NEW n \in Int,
         DeadIn(before) \subseteq DeadIn(after)
  PROVE  Deaths(before, n) <= Deaths(after, n)
<1>1. IsFiniteSet(DeadTo(after, n))
  BY DeadFinite
<1>2. DeadTo(before, n) \subseteq DeadTo(after, n)
  BY DEF DeadTo
<1>3. QED
  BY <1>1, <1>2, FS_Subset DEF Deaths

\* What a worker has spent stays spent while others go on: links only die, and a
\* link that replaces another is a later one.
LEMMA StillSpent ==
  ASSUME LinkInv, PoolTyped', NEW v \in Workers, TriesSpent(v), worker'[v] = worker[v],
         DeadIn(links) \subseteq DeadIn(links'), Len(links) <= Len(links'),
         url' \in {0, url} \/ (url' \in Nat /\ url' > Len(links))
  PROVE  TriesSpent(v)'
<1>1. /\ worker[v].link \in Nat /\ worker[v].try \in Nat
      /\ links \in Seq(LinkType) /\ links' \in Seq(LinkType)
  BY DEF LinkInv, PoolTyped, WorkerType
<1>2. PICK m : m = worker[v].link
  OBVIOUS
<1>3. PICK t : t = worker[v].try
  OBVIOUS
<1>4. m \in Nat /\ m \in Int /\ m - 1 \in Int /\ t \in Nat /\ Len(links) \in Nat /\ Len(links') \in Nat
  <2>1. Len(links) \in Nat
    BY <1>1, LenProperties
  <2>2. Len(links') \in Nat
    BY <1>1, LenProperties
  <2>3. m \in Nat /\ t \in Nat
    BY <1>1, <1>2, <1>3
  <2>4. m \in Int /\ m - 1 \in Int
    BY <2>3
  <2>5. QED
    BY <2>1, <2>2, <2>3, <2>4
<1>5. /\ Deaths(links, m) <= Deaths(links', m)
      /\ Deaths(links, m - 1) <= Deaths(links', m - 1)
  BY <1>1, <1>4, DeathsStay
<1>6. /\ Deaths(links, m) \in Nat /\ Deaths(links', m) \in Nat
      /\ Deaths(links, m - 1) \in Nat /\ Deaths(links', m - 1) \in Nat
  <2>1. Deaths(links, m) \in Nat
    BY <1>1, <1>4, DeadFinite
  <2>2. Deaths(links', m) \in Nat
    BY <1>1, <1>4, DeadFinite
  <2>3. Deaths(links, m - 1) \in Nat
    BY <1>1, <1>4, DeadFinite
  <2>4. Deaths(links', m - 1) \in Nat
    BY <1>1, <1>4, DeadFinite
  <2>5. QED
    BY <2>1, <2>2, <2>3, <2>4
<1>7. ASSUME worker[v].at \in Trying
      PROVE  /\ t <= Deaths(links', m)
             /\ m <= Len(links') /\ (url' = 0 \/ url' > m)
  <2>1. t <= Deaths(links, m) /\ m <= Len(links) /\ (url = 0 \/ url > m)
    BY <1>2, <1>3, <1>7 DEF TriesSpent
  <2>2. t <= Deaths(links', m)
    BY <1>4, <1>5, <1>6, <2>1
  <2>3. m <= Len(links')
    BY <1>4, <2>1
  <2>4. url' = 0 \/ url' > m
    BY <1>4, <2>1
  <2>5. QED
    BY <2>2, <2>3, <2>4
<1>8. ASSUME worker[v].at \in {"fetch", "drop"}
      PROVE  t <= Deaths(links', m - 1)
  <2>1. t <= Deaths(links, m - 1)
    BY <1>2, <1>3, <1>8 DEF TriesSpent
  <2>2. QED
    BY <1>4, <1>5, <1>6, <2>1
<1>9. worker[v].at = "next" => t = 0 /\ m = 0
  BY <1>2, <1>3 DEF TriesSpent
<1>10. worker'[v].link = m /\ worker'[v].try = t /\ worker'[v].at = worker[v].at
  BY <1>2, <1>3
<1>11. QED
  BY <1>7, <1>8, <1>9, <1>10 DEF TriesSpent

\* The others keep what they have, and the one that moves has what it should.
LEMMA AllStillSpent ==
  ASSUME LinkInv, PoolTyped', NEW w \in Workers,
         \A v \in Workers : TriesSpent(v), \A v \in Workers \ {w} : worker'[v] = worker[v],
         DeadIn(links) \subseteq DeadIn(links'), Len(links) <= Len(links'),
         url' \in {0, url} \/ (url' \in Nat /\ url' > Len(links)),
         TriesSpent(w)'
  PROVE  \A v \in Workers : TriesSpent(v)'
<1> SUFFICES ASSUME NEW v \in Workers, v # w PROVE TriesSpent(v)'
  OBVIOUS
<1>1. TriesSpent(v) /\ worker'[v] = worker[v]
  OBVIOUS
<1>2. QED
  BY <1>1, StillSpent

\* The links are as they were.
LEMMA SameLinks ==
  ASSUME LinkInv, PoolTyped', NEW w \in Workers, links' = links, url' \in {0, url},
         \A v \in Workers : TriesSpent(v), \A v \in Workers \ {w} : worker'[v] = worker[v],
         TriesSpent(w)'
  PROVE  \A v \in Workers : TriesSpent(v)'
<1>1. Len(links) \in Nat
  BY LenProperties DEF LinkInv, PoolTyped
<1>2. DeadIn(links) \subseteq DeadIn(links') /\ Len(links) <= Len(links')
  BY <1>1
<1>3. QED
  BY <1>2, AllStillSpent

\* A worker that only moves on has spent what it had.
LEMMA MovesSpent ==
  ASSUME LinkInv, PoolTyped', NEW w \in Workers, NEW place \in Places,
         MovesTo(w, place), TriesSpent(w), links' = links, url' = url,
         \/ worker[w].at \in Trying /\ place \in Trying
         \/ worker[w].at \in {"fetch", "drop"} /\ place \in {"fetch", "drop"}
         \/ place = "gone"
  PROVE  TriesSpent(w)'
<1>1. /\ worker'[w] = [worker[w] EXCEPT !.at = place] /\ worker[w] \in WorkerType
  BY Moved DEF LinkInv, PoolTyped
<1>2. PICK m : m = worker[w].link
  OBVIOUS
<1>3. PICK t : t = worker[w].try
  OBVIOUS
<1>4. worker'[w].link = m /\ worker'[w].try = t /\ worker'[w].at = place
  BY <1>1, <1>2, <1>3 DEF WorkerType
<1>5. /\ worker[w].at \in {"fetch", "drop"} => t <= Deaths(links, m - 1)
      /\ worker[w].at \in Trying =>
           t <= Deaths(links, m) /\ m <= Len(links) /\ (url = 0 \/ url > m)
  BY <1>2, <1>3 DEF TriesSpent
<1>6. place = "gone" => place \notin Trying
  BY DEF Trying
<1>7. place \in {"fetch", "drop"} => place \notin Trying
  BY DEF Trying
<1>8. place \in Trying => place \notin {"fetch", "drop"} /\ place # "next"
  BY DEF Trying
<1>9. QED
  BY <1>4, <1>5, <1>6, <1>7, <1>8 DEF TriesSpent

\* No call has failed: the context goes on, and no fault was paid.
LEMMA NoFault ==
  ASSUME faults \in Nat, faults' = faults
  PROVE  ~Fault
  BY DEF Fault

LEMMA NoCallFails ==
  ASSUME faults \in Nat, faults' = faults, ended = NotEnded, NEW w, CallFails(w)
  PROVE  FALSE
<1>1. ~Fault
  BY NoFault
<1>2. QED
  BY <1>1 DEF CallFails, NotEnded

\* A worker comes for the link: it is handed the one in hand, later than the one it
\* had, or goes to ask for another.
LEMMA CurrentSpent ==
  ASSUME LinkInv, PoolTyped', NEW w \in Workers, Current(w), TriesSpent(w)
  PROVE  TriesSpent(w)'
<1>1. /\ links' = links /\ url' = url /\ worker[w].at = "current"
      /\ worker[w] \in WorkerType /\ links \in Seq(LinkType)
  BY DEF Current, LinkInv, PoolTyped
<1>2. CASE url # 0 /\ ~Exhausted(url)
  <2>1. PICK m : m = worker[w].link
    OBVIOUS
  <2>2. PICK t : t = worker[w].try
    OBVIOUS
  <2>3. m \in Nat /\ t \in Nat /\ url \in Nat /\ url # 0
    BY <1>1, <1>2, <2>1, <2>2 DEF WorkerType, LinkInv, Links
  <2>4. t <= Deaths(links, m) /\ (url = 0 \/ url > m)
    BY <1>1, <2>1, <2>2 DEF TriesSpent, Trying
  <2>5. PICK u : u = url
    OBVIOUS
  <2>6. m \in Int /\ u - 1 \in Int /\ m <= u - 1
    BY <2>3, <2>4, <2>5
  <2>7. Deaths(links, m) <= Deaths(links, u - 1)
    BY <1>1, <2>6, DeathsGrow
  <2>8. Deaths(links, m) \in Nat
    BY <1>1, <2>6, DeadFinite
  <2>9. Deaths(links, u - 1) \in Nat
    BY <1>1, <2>6, DeadFinite
  <2>10. t <= Deaths(links, u - 1)
    BY <2>3, <2>4, <2>7, <2>8, <2>9
  <2>11. worker'[w] = [worker[w] EXCEPT !.at = "fetch", !.link = u]
    BY <1>2, <2>5 DEF Current, LinkInv, PoolTyped
  <2>12. worker'[w].at = "fetch" /\ worker'[w].link = u /\ worker'[w].try = t
    BY <1>1, <2>2, <2>11 DEF WorkerType
  <2>13. "fetch" \notin Trying
    BY DEF Trying
  <2>14. QED
    BY <1>1, <2>10, <2>12, <2>13 DEF TriesSpent
<1>3. CASE ~(url # 0 /\ ~Exhausted(url))
  <2>1. MovesTo(w, "ask") /\ "ask" \in Places
    BY <1>3 DEF Current, Places
  <2>2. worker[w].at \in Trying /\ "ask" \in Trying
    BY <1>1 DEF Trying
  <2>3. QED
    BY <1>1, <2>1, <2>2, MovesSpent
<1>4. QED
  BY <1>2, <1>3

\* A new link: who asked for it has it, and it is later than any other.
LEMMA IssuedSpent ==
  ASSUME LinkInv, PoolTyped', NEW w \in Workers, Issued(w), \A v \in Workers : TriesSpent(v)
  PROVE  \A v \in Workers : TriesSpent(v)'
<1>1. /\ worker[w].at = "ask" /\ worker[w] \in WorkerType
      /\ links \in Seq(LinkType) /\ links' \in Seq(LinkType)
  BY DEF Issued, LinkInv, PoolTyped
<1>2. PICK readable \in BOOLEAN : links' = Append(links, NewLink(readable))
  BY DEF Issued
<1>3. PICK new : new = NewLink(readable)
  OBVIOUS
<1>4. new \in LinkType /\ new.life = "good"
  BY <1>3 DEF NewLink, LinkType, Lives
<1>5. PICK n : n = Len(links)
  OBVIOUS
<1>6. /\ n \in Nat /\ Len(links') = n + 1
      /\ \A l \in 1..n : links'[l] = links[l]
  BY <1>1, <1>2, <1>3, <1>4, <1>5, AppendProperties, LenProperties
<1>7. DeadIn(links) \subseteq DeadIn(links') /\ Len(links) <= Len(links')
  BY <1>5, <1>6 DEF DeadIn
<1>8. PICK m : m = worker[w].link
  OBVIOUS
<1>9. PICK t : t = worker[w].try
  OBVIOUS
<1>10. m \in Nat /\ t \in Nat
  BY <1>1, <1>8, <1>9 DEF WorkerType
<1>11. TriesSpent(w)
  OBVIOUS
<1>12. t <= Deaths(links, m) /\ m <= n
  BY <1>1, <1>5, <1>8, <1>9, <1>11 DEF TriesSpent, Trying
<1>13. m \in Int /\ n \in Int
  BY <1>6, <1>10
<1>14. Deaths(links, m) <= Deaths(links, n)
  BY <1>1, <1>12, <1>13, DeathsGrow
<1>15. Deaths(links, n) <= Deaths(links', n)
  BY <1>1, <1>7, <1>13, DeathsStay
<1>16. Deaths(links, m) \in Nat
  BY <1>1, <1>13, DeadFinite
<1>17. Deaths(links, n) \in Nat
  BY <1>1, <1>13, DeadFinite
<1>18. Deaths(links', n) \in Nat
  BY <1>1, <1>13, DeadFinite
<1>19. t <= Deaths(links', n)
  BY <1>10, <1>12, <1>14, <1>15, <1>16, <1>17, <1>18
<1>20. PICK next : next = Len(links')
  OBVIOUS
<1>21. next = n + 1 /\ next - 1 = n
  BY <1>6, <1>20
<1>22. worker'[w] = [worker[w] EXCEPT !.at = "fetch", !.link = next] /\ url' = next
  BY <1>20 DEF Issued, LinkInv, PoolTyped
<1>23. worker'[w].at = "fetch" /\ worker'[w].link = next /\ worker'[w].try = t
  BY <1>1, <1>9, <1>22 DEF WorkerType
<1>24. "fetch" \notin Trying
  BY DEF Trying
<1>25. TriesSpent(w)'
  BY <1>19, <1>21, <1>23, <1>24 DEF TriesSpent
<1>26. \A v \in Workers \ {w} : worker'[v] = worker[v]
  BY DEF Issued, LinkInv, PoolTyped
<1>27. url' \in Nat /\ url' > Len(links)
  BY <1>5, <1>6, <1>21, <1>22
<1>28. QED
  BY <1>7, <1>25, <1>26, <1>27, AllStillSpent

\* A dead link costs the chunk one try, and it is one more link that has died.
LEMMA InvalidateSpent ==
  ASSUME MaxDeaths < Retry, LinkInv, PoolTyped', NEW w \in Workers, Invalidate(w),
         TriesSpent(w), FewDie
  PROVE  TriesSpent(w)' /\ UNCHANGED <<results, ended>>
<1>1. /\ worker[w].at = "drop" /\ worker[w] \in WorkerType /\ links \in Seq(LinkType)
      /\ links' = links /\ url' = IF url = worker[w].link THEN 0 ELSE url
  BY DEF Invalidate, LinkInv, PoolTyped
<1>2. PICK m : m = worker[w].link
  OBVIOUS
<1>3. PICK t : t = worker[w].try
  OBVIOUS
<1>4. m \in DeadIn(links) /\ m \in 1..Len(links) /\ t \in Nat
  BY <1>1, <1>2, <1>3 DEF DeadIn, LinkInv, Links, Dead, WorkerType
<1>5. PICK n : n = Len(links)
  OBVIOUS
<1>6. n \in Nat
  BY <1>1, <1>5, LenProperties
<1>7. m \in Int /\ m - 1 \in Int /\ 1 <= m /\ m <= n
  BY <1>4, <1>5, <1>6
<1>8. t <= Deaths(links, m - 1)
  BY <1>1, <1>2, <1>3 DEF TriesSpent
<1>9. Deaths(links, m) = Deaths(links, m - 1) + 1
  BY <1>1, <1>4, DeathCounts
<1>10. Deaths(links, m - 1) \in Nat
  BY <1>1, <1>7, DeadFinite
<1>11. Deaths(links, m) \in Nat /\ Deaths(links, m) <= Cardinality(DeadIn(links))
  BY <1>1, <1>7, DeadFinite
<1>12. Cardinality(DeadIn(links)) \in Nat /\ Cardinality(DeadIn(links)) <= MaxDeaths
  BY <1>1, DeadFinite DEF FewDie
<1>13. t + 1 <= Deaths(links, m) /\ t + 1 < Retry /\ Retry \in Nat
  BY <1>4, <1>8, <1>9, <1>10, <1>11, <1>12, PoolAssumption
<1>14. /\ worker' = [worker EXCEPT ![w].at = "wait", ![w].try = @ + 1]
       /\ UNCHANGED <<results, ended>>
  <2>1. ~(worker[w].try + 1 >= Retry)
    BY <1>3, <1>4, <1>13
  <2>2. QED
    BY <2>1 DEF Invalidate, LosesTry
<1>15. worker'[w] = [worker[w] EXCEPT !.at = "wait", !.try = t + 1]
  BY <1>3, <1>14 DEF LinkInv, PoolTyped
<1>16. worker'[w].at = "wait" /\ worker'[w].link = m /\ worker'[w].try = t + 1
  BY <1>1, <1>2, <1>15 DEF WorkerType
<1>17. url' = 0 \/ url' > m
  <2>1. url = 0 \/ url = n
    BY <1>5 DEF LinkInv
  <2>2. QED
    BY <1>1, <1>2, <1>6, <1>7, <2>1
<1>18. m <= Len(links')
  BY <1>1, <1>5, <1>7
<1>19. t + 1 <= Deaths(links', m)
  BY <1>1, <1>13
<1>20. TriesSpent(w)'
  BY <1>16, <1>17, <1>18, <1>19 DEF TriesSpent
<1>21. QED
  BY <1>14, <1>20

LEMMA FetchClean ==
  ASSUME MaxDeaths < Retry, LinkInv, PoolTyped', NEW w \in Workers, Fetch(w),
         PoolClean, FewDie, faults \in Nat, faults' = faults
  PROVE  PoolClean'
<1>1. results = <<>> /\ ended = NotEnded /\ (\A v \in Workers : TriesSpent(v)) /\ TriesSpent(w)
  BY DEF PoolClean
<1>2. ~Fault
  BY NoFault
<1>3. CASE TakeChunk(w)
  <2>1. /\ worker[w].at = "next" /\ links' = links /\ url' = url /\ results' = results
        /\ ended' = ended
    BY <1>3 DEF TakeChunk
  <2>2. CASE MovesTo(w, "gone")
    <3>1. "gone" \in Places
      BY DEF Places
    <3>2. TriesSpent(w)'
      BY <1>1, <2>1, <2>2, <3>1, MovesSpent
    <3>3. \A v \in Workers \ {w} : worker'[v] = worker[v]
      BY <2>2 DEF MovesTo, LinkInv, PoolTyped
    <3>4. \A v \in Workers : TriesSpent(v)'
      BY <1>1, <2>1, <3>2, <3>3, SameLinks
    <3>5. QED
      BY <1>1, <2>1, <3>4 DEF PoolClean
  <2>3. CASE MovesTo(w, "try")
    <3>1. worker[w].try = 0 /\ worker[w].link = 0 /\ worker[w] \in WorkerType
          /\ links \in Seq(LinkType)
      BY <1>1, <2>1 DEF TriesSpent, LinkInv, PoolTyped
    <3>2. 0 \in Int /\ (url = 0 \/ url > 0)
      BY DEF LinkInv, Links
    <3>3. Deaths(links, 0) \in Nat /\ Len(links) \in Nat
      BY <3>1, <3>2, DeadFinite
    <3>4. 0 <= Deaths(links, 0) /\ 0 <= Len(links)
      BY <3>3
    <3>5. worker'[w] = [worker[w] EXCEPT !.at = "try"]
      BY <2>3 DEF MovesTo, LinkInv, PoolTyped
    <3>6. worker'[w].at = "try" /\ worker'[w].try = 0 /\ worker'[w].link = 0
      BY <3>1, <3>5 DEF WorkerType
    <3>7. TriesSpent(w)'
      BY <2>1, <3>2, <3>4, <3>6 DEF TriesSpent
    <3>8. \A v \in Workers \ {w} : worker'[v] = worker[v]
      BY <2>3 DEF MovesTo, LinkInv, PoolTyped
    <3>9. \A v \in Workers : TriesSpent(v)'
      BY <1>1, <2>1, <3>7, <3>8, SameLinks
    <3>10. QED
      BY <1>1, <2>1, <3>9 DEF PoolClean
  <2>4. QED
    BY <1>3, <2>2, <2>3 DEF TakeChunk
<1>4. CASE BeginsTry(w)
  <2>1. /\ worker[w].at \in Trying /\ links' = links /\ url' = url /\ results' = results
        /\ ended' = ended /\ MovesTo(w, "current")
    BY <1>1, <1>4 DEF BeginsTry, Trying, NotEnded
  <2>2. "current" \in Places /\ "current" \in Trying
    BY DEF Places, Trying
  <2>3. TriesSpent(w)'
    BY <1>1, <2>1, <2>2, MovesSpent
  <2>4. \A v \in Workers \ {w} : worker'[v] = worker[v]
    BY <2>1 DEF MovesTo, LinkInv, PoolTyped
  <2>5. \A v \in Workers : TriesSpent(v)'
    BY <1>1, <2>1, <2>3, <2>4, SameLinks
  <2>6. QED
    BY <1>1, <2>1, <2>5 DEF PoolClean
<1>5. CASE Current(w)
  <2>1. TriesSpent(w)'
    BY <1>1, <1>5, CurrentSpent
  <2>2. /\ links' = links /\ url' = url /\ results' = results /\ ended' = ended
        /\ \A v \in Workers \ {w} : worker'[v] = worker[v]
    BY <1>5 DEF Current, MovesTo, LinkInv, PoolTyped
  <2>3. \A v \in Workers : TriesSpent(v)'
    BY <1>1, <2>1, <2>2, SameLinks
  <2>4. QED
    BY <1>1, <2>2, <2>3 DEF PoolClean
<1>6. CASE Issued(w)
  <2>1. \A v \in Workers : TriesSpent(v)'
    BY <1>1, <1>6, IssuedSpent
  <2>2. results' = results /\ ended' = ended
    BY <1>6 DEF Issued
  <2>3. QED
    BY <1>1, <2>1, <2>2 DEF PoolClean
<1>7. CASE AskFails(w) \/ Breaks(w)
  BY <1>1, <1>7, NoCallFails DEF AskFails, Breaks
<1>8. CASE Invalidate(w)
  <2>1. TriesSpent(w)' /\ UNCHANGED <<results, ended>>
    BY <1>1, <1>8, InvalidateSpent
  <2>2. links' = links /\ url' \in {0, url} /\ LosesTry(w, "failed")
    BY <1>8 DEF Invalidate
  <2>3. \A v \in Workers \ {w} : worker'[v] = worker[v]
    BY <2>2, TryLost DEF LinkInv
  <2>4. \A v \in Workers : TriesSpent(v)'
    BY <1>1, <2>1, <2>2, <2>3, SameLinks
  <2>5. QED
    BY <1>1, <2>1, <2>4 DEF PoolClean
<1>9. CASE Served(w)
  <2>1. /\ worker' = [worker EXCEPT ![w] = [at |-> "next", link |-> 0, try |-> 0]]
        /\ links' = links /\ url' = url /\ results' = results /\ ended' = ended
    BY <1>9 DEF Served
  <2>2. /\ worker'[w] = [at |-> "next", link |-> 0, try |-> 0]
        /\ \A v \in Workers \ {w} : worker'[v] = worker[v]
    BY <2>1 DEF LinkInv, PoolTyped
  <2>3. TriesSpent(w)'
    BY <2>2 DEF TriesSpent, Trying
  <2>4. \A v \in Workers : TriesSpent(v)'
    BY <1>1, <2>1, <2>2, <2>3, SameLinks
  <2>5. QED
    BY <1>1, <2>1, <2>4 DEF PoolClean
<1>10. CASE Refused(w)
  <2>1. /\ worker[w].at = "fetch" /\ MovesTo(w, "drop") /\ links' = links /\ url' = url
        /\ results' = results /\ ended' = ended
    BY <1>10 DEF Refused
  <2>2. "drop" \in Places
    BY DEF Places
  <2>3. TriesSpent(w)'
    BY <1>1, <2>1, <2>2, MovesSpent
  <2>4. \A v \in Workers \ {w} : worker'[v] = worker[v]
    BY <2>1 DEF MovesTo, LinkInv, PoolTyped
  <2>5. \A v \in Workers : TriesSpent(v)'
    BY <1>1, <2>1, <2>3, <2>4, SameLinks
  <2>6. QED
    BY <1>1, <2>1, <2>5 DEF PoolClean
<1>11. CASE Hopeless(w)
  BY <1>2, <1>11 DEF Hopeless
<1>12. QED
  BY <1>3, <1>4, <1>5, <1>6, <1>7, <1>8, <1>9, <1>10, <1>11 DEF Fetch

\* Links die, and no more of them than the instance lets die.
LEMMA AgesClean ==
  ASSUME LinkInv, PoolTyped', NEW l \in DOMAIN links, Ages(l), FewDie
  PROVE  FewDie' /\ (PoolClean => PoolClean')
<1>1. PICK life \in {"closing", "dead"} :
        /\ life = "dead" => Cardinality({k \in DOMAIN links : links[k].life = "dead"}) < MaxDeaths
        /\ links' = [links EXCEPT ![l].life = life]
  BY DEF Ages
<1>2. links \in Seq(LinkType) /\ links' \in Seq(LinkType) /\ l \in 1..Len(links)
      /\ links[l].life # "dead" /\ DOMAIN links = 1..Len(links)
  BY LenProperties DEF LinkInv, PoolTyped, Ages
<1>3. url' = url /\ worker' = worker /\ results' = results /\ ended' = ended
  BY DEF Ages
<1>4. links[l] \in LinkType
  BY <1>2, ElementOfSeq
<1>5. PICK aged : aged = [links[l] EXCEPT !.life = life]
  OBVIOUS
<1>6. aged \in LinkType /\ aged.life = life
  BY <1>4, <1>5 DEF LinkType, Lives
<1>7. links' = [links EXCEPT ![l] = aged]
  BY <1>1, <1>5
<1>8. Len(links') = Len(links) /\ links'[l] = aged
      /\ \A k \in 1..Len(links) : k # l => links'[k] = links[k]
  BY <1>2, <1>6, <1>7, ExceptSeq
<1>9. DeadIn(links') = IF life = "dead" THEN DeadIn(links) \cup {l} ELSE DeadIn(links)
  BY <1>2, <1>6, <1>8 DEF DeadIn
<1>10. l \notin DeadIn(links)
  BY <1>2 DEF DeadIn
<1>11. IsFiniteSet(DeadIn(links)) /\ Cardinality(DeadIn(links)) \in Nat
  BY <1>2, DeadFinite
<1>12. FewDie'
  <2>1. CASE life = "dead"
    <3>1. Cardinality(DeadIn(links)) < MaxDeaths
      BY <1>1, <1>2, <2>1 DEF DeadIn
    <3>2. Cardinality(DeadIn(links) \cup {l}) = Cardinality(DeadIn(links)) + 1
      BY <1>10, <1>11, FS_AddElement
    <3>3. Cardinality(DeadIn(links')) = Cardinality(DeadIn(links)) + 1
      BY <1>9, <2>1, <3>2
    <3>4. Cardinality(DeadIn(links')) <= MaxDeaths
      BY <1>11, <3>1, <3>3, PoolAssumption
    <3>5. QED
      BY <3>4 DEF FewDie
  <2>2. CASE life # "dead"
    BY <1>9, <2>2 DEF FewDie
  <2>3. QED
    BY <2>1, <2>2
<1>13. ASSUME PoolClean PROVE PoolClean'
  <2>1. DeadIn(links) \subseteq DeadIn(links') /\ Len(links) <= Len(links')
    <3>1. Len(links) \in Nat
      BY <1>2, LenProperties
    <3>2. QED
      BY <1>8, <1>9, <3>1
  <2>2. ASSUME NEW v \in Workers PROVE TriesSpent(v)'
    <3>1. TriesSpent(v) /\ worker'[v] = worker[v] /\ url' \in {0, url}
      BY <1>3, <1>13 DEF PoolClean
    <3>2. QED
      BY <2>1, <3>1, StillSpent
  <2>3. QED
    BY <1>3, <1>13, <2>2 DEF PoolClean
<1>14. QED
  BY <1>12, <1>13

\* Nothing is asked for, and nothing given up, of what has not been sent.
LEMMA UploadingClean ==
  ASSUME UploadInv, UploadClean, Uploading, faults \in Nat, faults' = faults,
         ~cancelled, ~slow'
  PROVE  UploadClean'
<1>1. ~Fault /\ ~FaultOrCancelled
  <2>1. ~Fault
    BY NoFault
  <2>2. QED
    BY <2>1 DEF FaultOrCancelled
<1>2. CASE Begin
  <2>1. step' = "send" /\ todo' = Segments /\ size' = size
    BY <1>2 DEF Begin, StepGoes
  <2>2. Segments' = Segments
    BY <2>1 DEF Segments, SegmentCount
  <2>3. QED
    BY <2>1, <2>2 DEF UploadClean
<1>3. CASE SendSegment
  <2> DEFINE s == First(todo)
  <2>1. PICK sent : held' = [held EXCEPT ![s] = [at |-> "landing", bytes |-> sent]]
    BY <1>3 DEF SendSegment
  <2>2. step = "send" /\ step' = "send" /\ size' = size /\ todo' = todo \ {s}
    BY <1>3 DEF SendSegment
  <2> HIDE DEF s
  <2>3. Segments' = Segments
    BY <2>2 DEF Segments, SegmentCount
  <2>4. \A t \in Segments \ todo : held[t].at # "absent"
    BY <2>2 DEF UploadClean
  <2>5. DOMAIN held = Segments
    BY <2>2 DEF UploadInv, Attached
  <2>6. ASSUME NEW t \in Segments \ todo' PROVE held'[t].at # "absent"
    <3>1. CASE t = s
      BY <2>1, <2>5, <3>1
    <3>2. CASE t # s
      BY <2>1, <2>2, <2>4, <2>5, <3>2
    <3>3. QED
      BY <3>1, <3>2
  <2>7. QED
    BY <2>2, <2>3, <2>6 DEF UploadClean
<1>4. CASE AllSent
  <2>1. step = "send" /\ todo = {} /\ step' = "ask" /\ UNCHANGED <<size, todo, held>>
    BY <1>4 DEF AllSent, StepGoes
  <2>2. Segments' = Segments
    BY <2>1 DEF Segments, SegmentCount
  <2>3. QED
    BY <2>1, <2>2 DEF UploadClean
<1>5. ASSUME NEW answered \in BOOLEAN, Commit(answered) PROVE UploadClean'
  <2>1. answered
    BY <1>1, <1>5 DEF Commit
  <2>2. step' = "sent"
    BY <1>5, <2>1 DEF Commit, StepGoes
  <2>3. QED
    BY <2>2 DEF UploadClean
<1>6. CASE CommitRefused \/ PauseEnds
  <2>1. step \in {"ask", "pause"} /\ step' \in {"ask", "pause"} /\ UNCHANGED <<size, todo, held>>
    BY <1>6 DEF CommitRefused, PauseEnds, StepGoes
  <2>2. Segments' = Segments
    BY <2>1 DEF Segments, SegmentCount
  <2>3. QED
    BY <2>1, <2>2 DEF UploadClean
<1>7. CASE Resend
  <2>1. step = "ask" /\ Missing # {} /\ slow' = (slow \/ \E s \in Segments : held[s].at = "landing")
    BY <1>7 DEF Resend
  <2>2. todo = {} /\ \A s \in Segments \ todo : held[s].at # "absent"
    BY <2>1 DEF UploadClean
  <2>3. \A s \in Segments : held[s].at # "landing"
    BY <2>1
  <2>4. PICK s \in Segments : held[s].at # "stored"
    BY <2>1 DEF Missing
  <2>5. held[s].at \in {"absent", "landing", "stored"}
    BY <2>1 DEF UploadInv, HeldRight, Attached, SegmentType
  <2>6. QED
    BY <2>2, <2>3, <2>4, <2>5
<1>8. CASE BeginFails \/ SegmentBreaks \/ CommitErrs
  BY <1>1, <1>8 DEF BeginFails, SegmentBreaks, CommitErrs
<1>9. CASE Abort
  BY <1>9 DEF Abort, StepGoes, UploadClean
<1>10. QED
  BY <1>2, <1>3, <1>4, <1>5, <1>6, <1>7, <1>8, <1>9 DEF Uploading

\* The host stores what it has, or loses it, which is a fault.
LEMMA StoresClean ==
  ASSUME UploadInv, UploadClean, NEW s \in DOMAIN held, Stores(s), faults \in Nat, faults' = faults
  PROVE  UploadClean'
<1>1. ~Fault
  BY NoFault
<1>2. held' = [held EXCEPT ![s].at = "stored"] /\ UNCHANGED <<size, step, todo>>
  BY <1>1 DEF Stores
<1>3. Segments' = Segments
  BY <1>2 DEF Segments, SegmentCount
<1>4. \A t \in DOMAIN held : held[t].at # "absent" => held'[t].at # "absent"
  BY <1>2
<1>5. step \in {"send", "ask", "pause"} => DOMAIN held = Segments
  BY DEF UploadInv, Attached
<1>6. QED
  BY <1>2, <1>3, <1>4, <1>5 DEF UploadClean

LEMMA NoneDead == Cardinality(DeadIn(<<>>)) <= MaxDeaths
<1>1. Len(<<>>) = 0
  BY EmptySeq
<1>2. DeadIn(<<>>) = {}
  BY <1>1 DEF DeadIn
<1>3. Cardinality({}) = 0
  BY FS_EmptySet
<1>4. Cardinality(DeadIn(<<>>)) = 0
  BY <1>2, <1>3
<1>5. MaxDeaths \in Nat
  BY PoolAssumption
<1>6. 0 <= MaxDeaths
  BY <1>5
<1>7. QED
  BY <1>4, <1>6

LEMMA BudgetInit == Init => BudgetInv
<1> SUFFICES ASSUME Init PROVE BudgetInv
  OBVIOUS
<1>1. /\ faults = 0 /\ attempt = 0 /\ phase = "queued" /\ links = <<>> /\ results = <<>>
      /\ ended = NotEnded
  BY DEF Init, PoolIdle
<1>2. attempt <= faults + 1 /\ attempt <= faults
  <2>1. PICK n : n = 0
    OBVIOUS
  <2>2. n <= n + 1 /\ n <= n
    BY <2>1
  <2>3. attempt = n /\ faults = n
    BY <1>1, <2>1
  <2>4. QED
    BY <2>2, <2>3
<1>3. Paid
  BY <1>2 DEF Paid
<1>4. FewDie
  BY <1>1, NoneDead DEF FewDie
<1>5. phase # "stage" /\ phase # "upload" /\ attempt \in Nat /\ faults \in Nat
  BY <1>1
<1>6. QED
  BY <1>1, <1>3, <1>4, <1>5 DEF BudgetInv, Emptied

\* An attempt that goes on, or that is over while something has gone wrong, stays
\* paid for; and a fault is what pays for it.
LEMMA StaysPaid ==
  ASSUME BudgetInv, attempt' = attempt, faults' \in {faults, faults + 1},
         slow => slow', cancelled => cancelled',
         phase' = "queued" => phase = "queued" \/ (~cancelled /\ ~Unpaid)
  PROVE  /\ attempt' \in Nat /\ faults' \in Nat /\ Paid'
         /\ Unpaid' => Unpaid /\ faults' = faults
<1>1. attempt \in Nat /\ faults \in Nat /\ attempt' \in Nat /\ faults' \in Nat
  BY DEF BudgetInv
<1>2. slow \/ attempt <= faults + 1
  BY DEF BudgetInv, Paid
<1> DEFINE a == attempt  f == faults  b == attempt'  g == faults'
<1>a. a \in Nat /\ f \in Nat /\ b = a /\ (g = f \/ g = f + 1)
  BY <1>1
<1> HIDE DEF a, f, b, g
<1>b. /\ a <= f + 1 => b <= g + 1
      /\ a <= f => b <= g
      /\ b <= g <=> ~(b > g)
      /\ a <= f <=> ~(a > f)
      /\ g # f /\ a <= f + 1 => b <= g
  BY <1>a
<1>3. attempt <= faults + 1 => attempt' <= faults' + 1
  BY <1>b DEF a, f, b, g
<1>4. attempt <= faults => attempt' <= faults'
  BY <1>b DEF a, f, b, g
<1>5. attempt' <= faults' <=> ~(attempt' > faults')
  BY <1>b DEF b, g
<1>6. attempt <= faults <=> ~(attempt > faults)
  BY <1>b DEF a, f
<1>7. phase' = "queued" => slow \/ attempt <= faults
  BY <1>6 DEF BudgetInv, Paid, Unpaid
<1>8. Paid'
  BY <1>2, <1>3, <1>4, <1>7 DEF Paid
<1>9. faults' # faults /\ attempt <= faults + 1 => attempt' <= faults'
  BY <1>b DEF a, f, b, g
<1>10. ASSUME Unpaid' PROVE Unpaid /\ faults' = faults
  <2>1. ~cancelled /\ ~slow /\ ~(attempt' <= faults')
    BY <1>5, <1>10 DEF Unpaid
  <2>2. attempt > faults
    BY <1>4, <1>6, <2>1
  <2>3. faults' = faults
    BY <1>2, <1>9, <2>1
  <2>4. QED
    BY <2>1, <2>2, <2>3 DEF Unpaid
<1>11. QED
  BY <1>1, <1>8, <1>10

\* The budget of steps that leave the pool, or the upload, alone.
LEMMA PoolSame ==
  ASSUME UNCHANGED poolVars, BudgetInv
  PROVE  FewDie' /\ (PoolClean => PoolClean') /\ (phase' # "stage" /\ phase # "stage" => Emptied')
<1>1. /\ links' = links /\ url' = url /\ worker' = worker /\ results' = results
      /\ ended' = ended
  BY DEF poolVars
<1>2. FewDie'
  BY <1>1 DEF BudgetInv, FewDie
<1>3. (\A w \in Workers : TriesSpent(w)) => \A w \in Workers : TriesSpent(w)'
  BY <1>1 DEF TriesSpent
<1>4. PoolClean => PoolClean'
  BY <1>1, <1>3 DEF PoolClean
<1>5. QED
  BY <1>1, <1>2, <1>4 DEF BudgetInv, Emptied

LEMMA UploadSame ==
  ASSUME UNCHANGED uploadVars, UploadClean
  PROVE  UploadClean'
<1>1. step' = step /\ todo' = todo /\ held' = held /\ size' = size
  BY DEF uploadVars
<1>2. Segments' = Segments
  BY <1>1 DEF Segments, SegmentCount
<1>3. QED
  BY <1>1, <1>2 DEF UploadClean

\* An attempt begins: nothing has gone wrong in it yet.
LEMMA StartBudget ==
  ASSUME LinkInv', BudgetInv, Start
  PROVE  BudgetInv'
<1>1. /\ phase = "queued" /\ attempt' = attempt + 1 /\ cancelled' = cancelled
      /\ links = <<>> /\ results = <<>> /\ ended = NotEnded
  BY DEF Start, BudgetInv, Emptied
<1>2. faults' = faults /\ slow' = slow /\ links' = links /\ results' = results /\ ended' = ended
  BY DEF Start, Enter, PoolStarts, poolVars, uploadVars
<1>3. attempt \in Nat /\ faults \in Nat /\ (slow \/ attempt <= faults)
  BY <1>1 DEF BudgetInv, Paid
<1>4. attempt' \in Nat /\ faults' \in Nat /\ (attempt <= faults => attempt' <= faults' + 1)
  <2>1. \A a, f \in Nat : a + 1 \in Nat /\ (a <= f => a + 1 <= f + 1)
    OBVIOUS
  <2>2. attempt + 1 \in Nat /\ (attempt <= faults => attempt + 1 <= faults + 1)
    BY <1>3, <2>1
  <2>3. QED
    BY <1>1, <1>2, <1>3, <2>2
<1>5. phase' \in {"stage", "upload"}
  BY DEF Start
<1>6. Paid'
  BY <1>2, <1>3, <1>4, <1>5 DEF Paid
<1>7. Emptied' /\ FewDie'
  BY <1>1, <1>2 DEF BudgetInv, Emptied, FewDie
<1>8. CASE Pending = 0
  <2>1. phase' = "upload" /\ step' = "begin"
    BY <1>8 DEF Start, Enter, StepGoes
  <2>2. UploadClean'
    BY <2>1 DEF UploadClean
  <2>3. QED
    BY <1>4, <1>6, <1>7, <2>1, <2>2 DEF BudgetInv
<1>9. CASE Pending # 0
  <2>1. /\ phase' = "stage"
        /\ worker' = [w \in Workers |-> [at |-> "next", link |-> 0, try |-> 0]]
    BY <1>9 DEF Start, PoolStarts
  <2>2. \A w \in Workers : TriesSpent(w)'
    BY <2>1 DEF TriesSpent, Trying
  <2>3. PoolClean'
    BY <1>1, <1>2, <2>2 DEF PoolClean
  <2>4. QED
    BY <1>4, <1>6, <1>7, <2>1, <2>3 DEF BudgetInv
<1>10. QED
  BY <1>8, <1>9

\* A pool that has met nothing but dead links has fetched the file.
LEMMA StageBudget ==
  ASSUME BudgetInv, StageEnds
  PROVE  BudgetInv'
<1>1. /\ phase = "stage" /\ attempt' = attempt /\ cancelled' = cancelled
      /\ links' = <<>> /\ results' = <<>> /\ ended' = NotEnded
  BY DEF StageEnds, PoolLeaves
<1>2. faults' = faults /\ slow' = slow
  BY DEF StageEnds, Enter, uploadVars
<1>3. Emptied' /\ FewDie'
  BY <1>1, NoneDead DEF Emptied, FewDie
<1>4. CASE Outcome = "ok"
  <2>1. phase' = "upload" /\ step' = "begin"
    BY <1>4 DEF StageEnds, Enter, StepGoes
  <2>2. UploadClean'
    BY <2>1 DEF UploadClean
  <2>3. attempt' \in Nat /\ faults' \in Nat /\ Paid'
    BY <1>1, <1>2, <2>1, StaysPaid
  <2>4. QED
    BY <1>3, <2>1, <2>2, <2>3 DEF BudgetInv
<1>5. CASE Outcome # "ok"
  <2>1. ~Unpaid
    <3>1. ~PoolClean
      <4>1. ASSUME results = <<>>, ended.pool = "" PROVE Outcome = "ok"
        BY <4>1 DEF Outcome
      <4>2. PoolClean => results = <<>> /\ ended = NotEnded
        BY DEF PoolClean
      <4>3. NotEnded.pool = ""
        BY DEF NotEnded
      <4>4. QED
        BY <1>5, <4>1, <4>2, <4>3
    <3>2. QED
      BY <1>1, <3>1 DEF BudgetInv
  <2>2. /\ phase' \in {"failed", "cancelled", "queued"}
        /\ phase' = "queued" => ~cancelled
    BY <1>5 DEF StageEnds, RetryLater
  <2>3. attempt' \in Nat /\ faults' \in Nat /\ Paid'
    BY <1>1, <1>2, <2>1, <2>2, StaysPaid
  <2>4. phase' # "stage" /\ phase' # "upload"
    BY <2>2
  <2>5. QED
    BY <1>3, <2>3, <2>4 DEF BudgetInv
<1>6. QED
  BY <1>4, <1>5

\* An upload that has broken has met a fault, or a host that was slow.
LEMMA EndBudget ==
  ASSUME BudgetInv, UploadEnds
  PROVE  BudgetInv'
<1>1. /\ phase = "upload" /\ attempt' = attempt /\ cancelled' = cancelled
      /\ UNCHANGED poolVars
  BY DEF UploadEnds
<1>2. faults' = faults /\ slow' = slow
  BY DEF UploadEnds, Leave, uploadVars
<1>3. phase' \in {"delivered", "failed", "cancelled", "queued"}
  BY DEF UploadEnds, RetryLater
<1>4. phase' = "queued" => ~cancelled /\ ~Unpaid
  <2> SUFFICES ASSUME phase' = "queued" PROVE ~cancelled /\ ~Unpaid
    OBVIOUS
  <2>1. phase' = RetryLater /\ step = "broken"
    BY DEF UploadEnds, Leave, StepGoes
  <2>2. ~UploadClean
    BY <2>1 DEF UploadClean
  <2>3. QED
    BY <1>1, <2>1, <2>2 DEF BudgetInv, RetryLater
<1>5. attempt' \in Nat /\ faults' \in Nat /\ Paid'
  BY <1>1, <1>2, <1>4, StaysPaid
<1>6. phase' # "stage" /\ phase' # "upload"
  BY <1>3
<1>7. FewDie' /\ Emptied'
  BY <1>1, <1>6, PoolSame
<1>8. QED
  BY <1>5, <1>6, <1>7 DEF BudgetInv

\* Only time, or the drive, ends a link.
LEMMA FetchKills ==
  ASSUME LinkInv, NEW w \in Workers, Fetch(w)
  PROVE  DeadIn(links') = DeadIn(links)
<1>1. CASE links' = links
  BY <1>1
<1>2. CASE Issued(w)
  <2>1. PICK readable \in BOOLEAN : links' = Append(links, NewLink(readable))
    BY <1>2 DEF Issued
  <2>2. PICK new : new = NewLink(readable)
    OBVIOUS
  <2>3. new \in LinkType /\ new.life = "good" /\ links \in Seq(LinkType)
    BY <2>2 DEF NewLink, LinkType, Lives, LinkInv, PoolTyped
  <2>4. /\ Len(links) \in Nat /\ Len(links') = Len(links) + 1
        /\ \A l \in 1..Len(links) : links'[l] = links[l]
    BY <2>1, <2>2, <2>3, AppendProperties, LenProperties
  <2>5. links'[Len(links) + 1] = new
    BY <2>1, <2>2, <2>3, AppendProperties
  <2>6. PICK n : n = Len(links)
    OBVIOUS
  <2>7. \A k : k \in 1..(n + 1) <=> (k \in 1..n \/ k = n + 1)
    BY <2>4, <2>6
  <2>8. \A k : k \in DeadIn(links') <=> k \in DeadIn(links)
    BY <2>3, <2>4, <2>5, <2>6, <2>7 DEF DeadIn
  <2>9. QED
    BY <2>8
<1>3. QED
  BY <1>1, <1>2 DEF Fetch, TakeChunk, BeginsTry, Current, AskFails, Invalidate, Served,
                   Refused, Breaks, Hopeless

\* Where there are no links none can age.
LEMMA NoLinks ==
  ASSUME NEW l \in DOMAIN links
  PROVE  links # <<>>
  OBVIOUS

LEMMA Costs ==
  ASSUME Fault \/ FaultOrCancelled \/ UNCHANGED faults
  PROVE  faults' \in {faults, faults + 1}
  BY DEF Fault, FaultOrCancelled

LEMMA SendBudget ==
  ASSUME UploadInv, BudgetInv, Sending
  PROVE  BudgetInv'
<1>1. /\ phase = "upload" /\ phase' = "upload" /\ attempt' = attempt
      /\ cancelled' = cancelled /\ UNCHANGED poolVars /\ Uploading
  BY DEF Sending
<1>2. Fault \/ FaultOrCancelled \/ UNCHANGED faults
  BY <1>1 DEF Uploading, Begin, BeginFails, SendSegment, SegmentBreaks, AllSent, Commit,
              CommitErrs, CommitRefused, Resend, PauseEnds, Abort
<1>3. slow => slow'
  BY <1>1 DEF Uploading, Begin, BeginFails, SendSegment, SegmentBreaks, AllSent, Commit,
              CommitErrs, CommitRefused, Resend, PauseEnds, Abort
<1>4. faults' \in {faults, faults + 1}
  BY <1>2, Costs
<1>5. /\ attempt' \in Nat /\ faults' \in Nat /\ Paid'
      /\ Unpaid' => Unpaid /\ faults' = faults
  BY <1>1, <1>3, <1>4, StaysPaid
<1>6. FewDie' /\ Emptied'
  BY <1>1, PoolSame
<1>7. ASSUME Unpaid' PROVE UploadClean'
  <2>1. Unpaid /\ faults' = faults /\ ~slow' /\ ~cancelled
    BY <1>5, <1>7 DEF Unpaid
  <2>2. UploadClean /\ faults \in Nat
    BY <1>1, <2>1 DEF BudgetInv
  <2>3. QED
    BY <1>1, <2>1, <2>2, UploadingClean
<1>8. QED
  BY <1>1, <1>5, <1>6, <1>7 DEF BudgetInv

LEMMA FetchBudget ==
  ASSUME MaxDeaths < Retry, LinkInv, LinkInv', BudgetInv, NEW w \in Workers, Fetching(w)
  PROVE  BudgetInv'
<1>1. /\ phase = "stage" /\ phase' = "stage" /\ attempt' = attempt
      /\ cancelled' = cancelled /\ UNCHANGED uploadVars /\ Fetch(w)
  BY DEF Fetching
<1>2. slow' = slow
  BY <1>1 DEF uploadVars
<1>3. Fault \/ FaultOrCancelled \/ UNCHANGED faults
  BY <1>1 DEF Fetch, TakeChunk, BeginsTry, Current, Issued, AskFails, Invalidate, Served,
              Refused, Breaks, Hopeless, CallFails
<1>4. faults' \in {faults, faults + 1}
  BY <1>3, Costs
<1>5. /\ attempt' \in Nat /\ faults' \in Nat /\ Paid'
      /\ Unpaid' => Unpaid /\ faults' = faults
  BY <1>1, <1>2, <1>4, StaysPaid
<1>6. DeadIn(links') = DeadIn(links)
  BY <1>1, FetchKills
<1>7. FewDie' /\ Emptied'
  BY <1>1, <1>6 DEF BudgetInv, FewDie, Emptied
<1>8. ASSUME Unpaid' PROVE PoolClean'
  <2>1. Unpaid /\ faults' = faults
    BY <1>5, <1>8
  <2>2. PoolClean /\ FewDie /\ faults \in Nat /\ PoolTyped'
    BY <1>1, <2>1 DEF BudgetInv, LinkInv
  <2>3. QED
    BY <1>1, <2>1, <2>2, FetchClean
<1>9. QED
  BY <1>1, <1>5, <1>7, <1>8 DEF BudgetInv

LEMMA CancelBudget ==
  ASSUME BudgetInv, Cancel \/ TimesOut
  PROVE  BudgetInv'
<1>1. /\ attempt' = attempt /\ (cancelled => cancelled') /\ UNCHANGED uploadVars
      /\ links' = links
  <2>1. CASE Cancel
    <3>1. EndsOuter("canceled") \/ UNCHANGED poolVars
      BY <2>1 DEF Cancel
    <3>2. links' = links
      BY <3>1 DEF EndsOuter, poolVars
    <3>3. QED
      BY <2>1, <3>2 DEF Cancel
  <2>2. CASE TimesOut
    <3>1. links' = links
      BY <2>2 DEF TimesOut, EndsOuter
    <3>2. QED
      BY <2>2, <3>1 DEF TimesOut
  <2>3. QED
    BY <2>1, <2>2
<1>2. slow' = slow
  BY <1>1 DEF uploadVars
<1>3. Fault \/ FaultOrCancelled \/ UNCHANGED faults
  BY DEF Cancel, TimesOut
<1>4. faults' \in {faults, faults + 1}
  BY <1>3, Costs
<1>5. phase' = "queued" => phase = "queued"
  BY DEF Cancel, TimesOut
<1>6. attempt' \in Nat /\ faults' \in Nat /\ Paid' /\ (Unpaid' => Unpaid /\ faults' = faults)
  BY <1>1, <1>2, <1>4, <1>5, StaysPaid
<1>7. ~Unpaid'
  <2>1. CASE Cancel
    BY <2>1 DEF Cancel, Unpaid
  <2>2. CASE TimesOut
    <3>1. Fault /\ faults \in Nat
      BY <2>2 DEF TimesOut, BudgetInv
    <3>2. faults' # faults
      BY <3>1, NoFault
    <3>3. QED
      BY <1>6, <3>2
  <2>3. QED
    BY <2>1, <2>2
<1>8. FewDie'
  BY <1>1 DEF BudgetInv, FewDie
<1>9. Emptied'
  <2>1. phase' # "stage" => phase # "stage" /\ UNCHANGED poolVars
    BY DEF Cancel, TimesOut
  <2>2. QED
    BY <2>1 DEF BudgetInv, Emptied, poolVars
<1>10. QED
  BY <1>6, <1>7, <1>8, <1>9 DEF BudgetInv

LEMMA AgesBudget ==
  ASSUME LinkInv, LinkInv', BudgetInv, NEW l \in DOMAIN links, Ages(l),
         UNCHANGED <<cancelled, uploadVars, phase, attempt>>
  PROVE  BudgetInv'
<1>1. slow' = slow /\ faults' = faults /\ results' = results /\ ended' = ended
  BY DEF Ages, uploadVars
<1>2. /\ attempt' \in Nat /\ faults' \in Nat /\ Paid'
      /\ Unpaid' => Unpaid /\ faults' = faults
  BY <1>1, StaysPaid
<1>3. phase = "stage" /\ phase' = "stage"
  <2>1. links # <<>>
    BY NoLinks
  <2>2. QED
    BY <2>1 DEF BudgetInv, Emptied
<1>4. FewDie' /\ (PoolClean => PoolClean')
  BY AgesClean DEF BudgetInv, LinkInv
<1>5. Emptied'
  BY <1>3 DEF Emptied
<1>6. QED
  BY <1>2, <1>3, <1>4, <1>5 DEF BudgetInv

LEMMA StoresBudget ==
  ASSUME UploadInv, BudgetInv, NEW s \in DOMAIN held, Stores(s),
         UNCHANGED <<cancelled, poolVars, phase, attempt>>
  PROVE  BudgetInv'
<1>1. slow' = slow /\ (Fault \/ FaultOrCancelled \/ UNCHANGED faults)
  BY DEF Stores
<1>2. faults' \in {faults, faults + 1}
  BY <1>1, Costs
<1>3. /\ attempt' \in Nat /\ faults' \in Nat /\ Paid'
      /\ Unpaid' => Unpaid /\ faults' = faults
  BY <1>1, <1>2, StaysPaid
<1>4. FewDie' /\ (PoolClean => PoolClean')
  BY PoolSame
<1>5. Emptied'
  BY DEF BudgetInv, Emptied, poolVars
<1>6. ASSUME Unpaid', phase = "upload" PROVE UploadClean'
  <2>1. Unpaid /\ faults' = faults
    BY <1>3, <1>6
  <2>2. UploadClean /\ faults \in Nat
    BY <1>6, <2>1 DEF BudgetInv
  <2>3. QED
    BY <2>1, <2>2, StoresClean
<1>7. ASSUME Unpaid', phase = "stage" PROVE PoolClean'
  BY <1>3, <1>4, <1>7 DEF BudgetInv
<1>8. QED
  BY <1>3, <1>4, <1>5, <1>6, <1>7 DEF BudgetInv

LEMMA StutterBudget ==
  ASSUME BudgetInv, UNCHANGED vars
  PROVE  BudgetInv'
<1>1. /\ UNCHANGED poolVars /\ UNCHANGED uploadVars /\ faults' = faults /\ phase' = phase
      /\ attempt' = attempt /\ cancelled' = cancelled
  BY DEF vars
<1>2. slow' = slow
  BY <1>1 DEF uploadVars
<1>3. Paid' /\ (Unpaid' <=> Unpaid)
  BY <1>1, <1>2 DEF Paid, Unpaid, BudgetInv
<1>4. FewDie' /\ (PoolClean => PoolClean')
  BY <1>1, PoolSame
<1>5. Emptied'
  BY <1>1 DEF BudgetInv, Emptied, poolVars
<1>6. UploadClean => UploadClean'
  BY <1>1, UploadSame
<1>7. QED
  BY <1>1, <1>3, <1>4, <1>5, <1>6 DEF BudgetInv

\* The attempts of a row are explained by what went wrong: as long as fewer links die
\* than a chunk has tries, no attempt is spent on links that several workers see expire,
\* nor on segments still on their way when the commit is asked for
\* (downloadChunkWithRetry, downloadURLState, commit).
THEOREM AttemptsAreExplained ==
  ASSUME MaxDeaths < Retry
  PROVE  Spec => []AttemptsExplained
<1> DEFINE IInv == LinkInv /\ UploadInv /\ BudgetInv
<1>1. Init => IInv
  BY LinkInit, UploadInit, BudgetInit
<1>2. IInv /\ [Next]_vars => IInv'
  <2> SUFFICES ASSUME LinkInv, UploadInv, BudgetInv, [Next]_vars
               PROVE  IInv'
    OBVIOUS
  <2>1. LinkInv' /\ UploadInv'
    BY LinkNext, UploadNext
  <2>2. ASSUME NEW w \in Workers, Fetching(w) PROVE BudgetInv'
    BY <2>1, <2>2, FetchBudget
  <2>3. CASE Elsewhere
    BY <2>1, <2>3, AgesBudget, StoresBudget DEF Elsewhere
  <2>4. BudgetInv'
    BY <2>1, <2>2, <2>3, StartBudget, StageBudget, EndBudget, SendBudget, CancelBudget,
       StutterBudget DEF Next
  <2>5. QED
    BY <2>1, <2>4
<1>3. IInv => AttemptsExplained
  BY DEF BudgetInv, Paid, AttemptsExplained
<1>4. QED
  BY <1>1, <1>2, <1>3, PTL DEF Spec

=============================================================================
