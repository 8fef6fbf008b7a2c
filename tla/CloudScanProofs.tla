-------------------------- MODULE CloudScanProofs --------------------------
(***************************************************************************)
(* Proofs about CloudScan: what a scan adds says what the job says, a file *)
(* has one row, and what was delivered and is still there is not queued    *)
(* again, for any jobs, definitions, directories, files and any number of  *)
(* edits, failures and actions of the user beside the walk.                *)
(***************************************************************************)
EXTENDS CloudScan, TLAPS

----------------------------------------------------------------------------
(* Types.                                                                    *)
Partial(S, T) == UNION {[D -> T] : D \in SUBSET S}

EditType == [at: {"idle", "read", "written", "applied"}, job: Jobs \cup {None},
             def: MaybeDefinition, doc: JobMap, replaced: BOOLEAN]
ScanType == [at: {"idle", "drives", "jobs", "walk", "look"}, jobs: JobMap,
             job: Jobs \cup {None}, entries: Partial(Files, Contents),
             cache: Partial(Dirs, Listing), file: Files \cup {None},
             elsewhere: SUBSET Dirs]

SettingsTyped ==
  /\ document \in JobMap /\ jobs \in JobMap /\ reload \in JobMap \cup {None}
  /\ edit \in EditType
DrivesTyped == cloud \in Listing /\ drive \in [Dirs -> Listing]
RowsTyped == queue \subseteq RowRecord

\* What a scan that walks a job knows of it, and of the file it has looked at.
ScanTyped ==
  /\ scan \in ScanType
  /\ scan.at \in {"walk", "look"} =>
       scan.job \in Jobs /\ scan.jobs[scan.job] \in Definitions
  /\ scan.at = "look" => scan.file \in DOMAIN scan.entries

Typed == SettingsTyped /\ DrivesTyped /\ RowsTyped /\ ScanTyped

LEMMA PartialIs ==
  ASSUME NEW S, NEW T, NEW f
  PROVE  f \in Partial(S, T) <=>
           /\ f = [x \in DOMAIN f |-> f[x]] /\ DOMAIN f \subseteq S
           /\ \A x \in DOMAIN f : f[x] \in T
  BY DEF Partial

LEMMA ScanFields ==
  ASSUME ScanTyped
  PROVE  /\ scan.jobs \in JobMap /\ DOMAIN scan.entries \subseteq Files
         /\ \A f \in DOMAIN scan.entries : scan.entries[f] \in Contents
         /\ DOMAIN scan.cache \subseteq Dirs
         /\ \A d \in DOMAIN scan.cache : scan.cache[d] \in Listing
  <1>1. scan.jobs \in JobMap /\ scan.entries \in Partial(Files, Contents)
        /\ scan.cache \in Partial(Dirs, Listing)
    BY DEF ScanTyped, ScanType
  <1> QED BY <1>1, PartialIs

LEMMA IdleTyped ==
  /\ Idle \in ScanType /\ Idle.at = "idle"
  /\ NoListing \in Partial(Dirs, Listing)
  <1>0. ASSUME NEW S, NEW T  PROVE [x \in {} |-> None] \in Partial(S, T)
    <2>1. [x \in {} |-> None] \in [{} -> T] /\ {} \in SUBSET S OBVIOUS
    <2> QED BY <2>1 DEF Partial
  <1>1. NoListing \in Partial(Dirs, Listing) BY <1>0 DEF NoListing
  <1>2. [f \in {} |-> None] \in Partial(Files, Contents) BY <1>0
  <1>3. [j \in Jobs |-> None] \in JobMap BY DEF JobMap, MaybeDefinition
  <1> QED BY <1>1, <1>2, <1>3 DEF Idle, ScanType

\* The target of a job is a directory.
LEMMA TargetIsDir == ASSUME NEW d \in Definitions  PROVE Target[d] \in Dirs
  BY DEF Dirs

LEMMA ListingsTyped ==
  ASSUME ScanTyped, DrivesTyped, NEW d \in Dirs
  PROVE  Listings(d) \in Partial(Dirs, Listing)
  <1>1. DOMAIN Listings(d) = DOMAIN scan.cache \cup {d} BY DEF Listings
  <1>2. DOMAIN Listings(d) \subseteq Dirs BY <1>1, ScanFields
  <1>3. \A e \in DOMAIN Listings(d) : Listings(d)[e] \in Listing
    BY <1>1, ScanFields DEF Listings, DrivesTyped
  <1>4. Listings(d) = [e \in DOMAIN Listings(d) |-> Listings(d)[e]] BY DEF Listings
  <1> QED BY <1>2, <1>3, <1>4, PartialIs

LEMMA PassedTyped ==
  ASSUME ScanTyped, scan.at \in {"walk", "look"}, NEW f
  PROVE  /\ Passed(f) \in ScanType /\ Passed(f).at = "walk"
         /\ Passed(f).job = scan.job /\ Passed(f).jobs = scan.jobs
         /\ Passed(f).cache = scan.cache
  <1>1. Rest(f) \in Partial(Files, Contents)
    <2>1. DOMAIN Rest(f) = DOMAIN scan.entries \ {f} BY DEF Rest
    <2>2. \A g \in DOMAIN Rest(f) : Rest(f)[g] = scan.entries[g] BY DEF Rest
    <2>3. Rest(f) = [g \in DOMAIN Rest(f) |-> Rest(f)[g]] BY DEF Rest
    <2> QED BY <2>1, <2>2, <2>3, ScanFields, PartialIs
  <1>2. scan \in ScanType BY DEF ScanTyped
  <1> DEFINE rest == Rest(f)
  <1>3. Passed(f) = [scan EXCEPT !.at = "walk", !.entries = rest, !.file = None, !.elsewhere = {}]
    BY DEF Passed
  <1> HIDE DEF rest
  <1> QED BY <1>1, <1>2, <1>3 DEF ScanType, rest

LEMMA EndJobTyped ==
  ASSUME ScanTyped, scan.at \in {"walk", "look"}, EndJob
  PROVE  scan' \in ScanType /\ scan'.at = "jobs" /\ scan'.cache = NoListing
  <1> DEFINE left == [scan.jobs EXCEPT ![scan.job] = None]
  <1>1. left \in JobMap BY ScanFields DEF ScanTyped, JobMap, MaybeDefinition
  <1>2. scan' = [Idle EXCEPT !.at = "jobs", !.jobs = left] BY DEF EndJob
  <1>3. Idle.cache = NoListing BY DEF Idle
  <1> HIDE DEF left
  <1>4. scan' \in ScanType /\ scan'.at = "jobs" BY <1>1, <1>2, IdleTyped DEF ScanType
  <1>5. scan'.cache = Idle.cache BY <1>2, IdleTyped DEF ScanType
  <1> QED BY <1>3, <1>4, <1>5

----------------------------------------------------------------------------
(* What each step keeps typed.                                               *)

\* A row goes on to another state.
LEMMA BecomesTyped ==
  ASSUME RowsTyped, NEW r \in queue,
         NEW state \in {"pending", "running", "complete", "failed", "cancelled"},
         Becomes(r, state)
  PROVE  \E s \in RowRecord :
           /\ queue' = (queue \ {r}) \cup {s} /\ queue' \subseteq RowRecord
           /\ Key(s) = Key(r) /\ s.state = state /\ s.touched = TRUE
  <1>1. r \in RowRecord BY DEF RowsTyped
  <1>2. PICK s : s = [r EXCEPT !.state = state, !.touched = TRUE] OBVIOUS
  <1>3. s \in RowRecord BY <1>1, <1>2 DEF RowRecord
  <1>4. s.state = state /\ s.touched = TRUE BY <1>1, <1>2 DEF RowRecord
  <1>5. s.job = r.job /\ s.file = r.file /\ s.content = r.content
    BY <1>1, <1>2 DEF RowRecord
  <1>6. queue' = (queue \ {r}) \cup {s} BY <1>2 DEF Becomes
  <1>7. queue' \subseteq RowRecord BY <1>3, <1>6 DEF RowsTyped
  <1> QED BY <1>3, <1>4, <1>5, <1>6, <1>7 DEF Key

LEMMA CandidateTyped ==
  ASSUME ScanTyped, scan.at = "look"
  PROVE  /\ Candidate \in RowRecord
         /\ Candidate.job = scan.job /\ Candidate.def = scan.jobs[scan.job]
         /\ Key(Candidate) = <<scan.job, scan.file, scan.entries[scan.file]>>
  <1>1. /\ scan.job \in Jobs /\ scan.jobs[scan.job] \in Definitions
        /\ scan.file \in Files /\ scan.entries[scan.file] \in Contents
    BY ScanFields DEF ScanTyped
  <1> QED BY <1>1 DEF Candidate, RowRecord, Key

LEMMA ApplyShrinks ==
  ASSUME NEW next, Apply(next)  PROVE queue' \subseteq queue /\ jobs' = next
  BY DEF Apply

LEMMA SettingsStep ==
  ASSUME Typed, Settings
  PROVE  Typed' /\ queue' \subseteq queue /\ UNCHANGED <<cloud, drive, scan, held>>
  <1>1. /\ document \in JobMap /\ jobs \in JobMap /\ reload \in JobMap \cup {None}
        /\ edit \in EditType /\ queue \subseteq RowRecord
    BY DEF Typed, SettingsTyped, RowsTyped
  <1>2. edit.doc \in JobMap BY <1>1 DEF EditType
  <1>3. UNCHANGED <<cloud, drive, scan, held>>
    BY DEF Settings, TickReads, TickApplies, EditWrites, EditApplies, EditDrops, EditReads,
       ModalWrites
  <1>4. queue' \subseteq queue
    BY DEF Settings, TickReads, TickApplies, EditWrites, EditApplies, EditDrops, EditReads,
       ModalWrites, Apply
  <1>5. ASSUME NEW j \in Jobs, NEW d \in MaybeDefinition
        PROVE  [document EXCEPT ![j] = d] \in JobMap
    BY <1>1 DEF JobMap
  <1>6. ASSUME NEW e \in EditType
        PROVE  /\ EditOver(e) \in EditType
               /\ [e EXCEPT !.at = "written"] \in EditType
               /\ [e EXCEPT !.at = "applied"] \in EditType
    BY DEF EditOver, EditType, MaybeDefinition
  <1>7. SettingsTyped'
    <2>1. CASE TickReads BY <1>1, <2>1 DEF TickReads, SettingsTyped
    <2>2. CASE TickApplies BY <1>1, <2>2 DEF TickApplies, Apply, SettingsTyped
    <2>3. CASE EditWrites
      <3>1. edit' \in EditType BY <1>1, <1>6, <2>3 DEF EditWrites
      <3>2. document' \in JobMap /\ UNCHANGED <<jobs, reload>>
        BY <1>1, <1>2, <2>3 DEF EditWrites
      <3> QED BY <1>1, <3>1, <3>2 DEF SettingsTyped
    <2>4. CASE EditApplies
      <3>1. edit' \in EditType BY <1>1, <1>6, <2>4 DEF EditApplies
      <3>2. jobs' \in JobMap /\ UNCHANGED <<document, reload>>
        BY <1>2, <2>4 DEF EditApplies, Apply
      <3> QED BY <1>1, <3>1, <3>2 DEF SettingsTyped
    <2>5. CASE EditDrops
      <3>1. edit' \in EditType BY <1>1, <1>6, <2>5 DEF EditDrops
      <3>2. UNCHANGED <<document, jobs, reload>> BY <2>5 DEF EditDrops
      <3> QED BY <1>1, <3>1, <3>2 DEF SettingsTyped
    <2>6. ASSUME NEW j \in Jobs, NEW d \in MaybeDefinition, EditReads(j, d)
          PROVE  SettingsTyped'
      <3>1. edit' \in EditType BY <1>5, <2>6 DEF EditReads, EditType
      <3>2. jobs' = document /\ UNCHANGED <<document, reload>>
        BY <2>6 DEF EditReads, Apply
      <3> QED BY <1>1, <3>1, <3>2 DEF SettingsTyped
    <2>7. ASSUME NEW j \in Jobs, NEW d \in MaybeDefinition, ModalWrites(j, d)
          PROVE  SettingsTyped'
      BY <1>1, <1>5, <2>7 DEF ModalWrites, SettingsTyped
    <2> QED BY <2>1, <2>2, <2>3, <2>4, <2>5, <2>6, <2>7 DEF Settings
  <1>8. DrivesTyped' /\ RowsTyped'
    BY <1>1, <1>3, <1>4 DEF Typed, DrivesTyped, RowsTyped
  <1>9. ScanTyped' BY <1>3 DEF Typed, ScanTyped
  <1> QED BY <1>3, <1>4, <1>7, <1>8, <1>9 DEF Typed

LEMMA ScanTypes ==
  ASSUME Typed, StartScan \/ Scan
  PROVE  ScanTyped'
  <1>1. scan \in ScanType /\ ScanTyped /\ DrivesTyped /\ jobs \in JobMap
    BY DEF Typed, ScanTyped, SettingsTyped
  <1>2. ASSUME scan' \in ScanType, scan'.at \notin {"walk", "look"}  PROVE ScanTyped'
    BY <1>2 DEF ScanTyped
  <1>3. ASSUME NEW f, scan.at \in {"walk", "look"}, scan' = Passed(f)  PROVE ScanTyped'
    BY <1>1, <1>3, PassedTyped DEF ScanTyped
  <1>4. ASSUME NEW d \in Dirs, scan.at \in {"walk", "look"}
        PROVE  [scan EXCEPT !.cache = Listings(d)] \in ScanType
    <2>1. PICK cache \in Partial(Dirs, Listing) : cache = Listings(d) BY <1>1, ListingsTyped
    <2> QED BY <1>1, <2>1 DEF ScanType
  <1>5. EndScan => ScanTyped' BY <1>2, IdleTyped DEF EndScan
  <1>6. scan.at \in {"walk", "look"} /\ EndJob => ScanTyped' BY <1>1, <1>2, EndJobTyped
  <1>7. CASE StartScan
    <2>1. scan' = [Idle EXCEPT !.at = "drives", !.jobs = jobs] BY <1>7 DEF StartScan
    <2>2. scan' \in ScanType /\ scan'.at = "drives"
      BY <1>1, <2>1, IdleTyped DEF ScanType
    <2> QED BY <1>2, <2>2
  <1>8. CASE ScanDrives
    <2>1. CASE scan' = [scan EXCEPT !.at = "jobs"]
      <3>1. scan' \in ScanType /\ scan'.at = "jobs" BY <1>1, <2>1 DEF ScanType
      <3> QED BY <1>2, <3>1
    <2> QED BY <1>5, <1>8, <2>1 DEF ScanDrives
  <1>9. CASE ScanJob
    <2>1. ASSUME NEW j \in Jobs, scan.jobs[j] # None,
                 scan' = [scan EXCEPT !.at = "walk", !.job = j, !.cache = NoListing,
                                      !.entries = Entries(scan.jobs[j])]
          PROVE  ScanTyped'
      <3>1. scan.jobs[j] \in Definitions
        BY <1>1, <2>1, ScanFields DEF JobMap, MaybeDefinition
      <3>2. Entries(scan.jobs[j]) \in Partial(Files, Contents)
        <4> DEFINE e == Entries(scan.jobs[j])
        <4>1. /\ DOMAIN e = {g \in Wanted[scan.jobs[j]] : cloud[g] # None}
              /\ \A f \in DOMAIN e : e[f] = cloud[f]
              /\ e = [f \in DOMAIN e |-> e[f]]
          BY DEF Entries
        <4>2. Wanted[scan.jobs[j]] \subseteq Files BY <3>1, ScanAssumption
        <4> HIDE DEF e
        <4>3. DOMAIN e \subseteq Files /\ \A f \in DOMAIN e : e[f] \in Contents
          BY <1>1, <4>1, <4>2 DEF DrivesTyped, Listing
        <4> QED BY <4>1, <4>3, PartialIs DEF e
      <3>3. PICK entries \in Partial(Files, Contents) : entries = Entries(scan.jobs[j])
        BY <3>2
      <3>4. /\ scan' \in ScanType /\ scan'.at = "walk" /\ scan'.job = j
            /\ scan'.jobs = scan.jobs
        BY <1>1, <2>1, <3>3, IdleTyped DEF ScanType
      <3> QED BY <3>1, <3>4 DEF ScanTyped
    <2> QED BY <1>5, <1>9, <2>1 DEF ScanJob
  <1>10. CASE ListTarget
    <2>1. scan.at = "walk" BY <1>10 DEF ListTarget
    <2>2. CASE scan' = [scan EXCEPT !.cache = Listings(ScanTarget)]
      <3>1. ScanTarget \in Dirs BY <1>1, <2>1, TargetIsDir DEF ScanTyped, ScanTarget
      <3>2. scan' \in ScanType BY <1>4, <2>1, <2>2, <3>1
      <3>3. /\ scan'.at = scan.at /\ scan'.job = scan.job /\ scan'.jobs = scan.jobs
            /\ scan'.file = scan.file /\ scan'.entries = scan.entries
        BY <1>1, <2>2 DEF ScanType
      <3> QED BY <1>1, <3>2, <3>3 DEF ScanTyped
    <2> QED BY <1>5, <1>6, <1>10, <2>1, <2>2 DEF ListTarget
  <1>11. ASSUME NEW f \in Files, Consider(f)  PROVE ScanTyped'
    <2>1. scan.at = "walk" /\ f \in DOMAIN scan.entries BY <1>11 DEF Consider
    <2>2. PICK elsewhere : elsewhere = {Dir(r) : r \in Known(scan.job, f)} \ {ScanTarget}
      OBVIOUS
    <2>3. elsewhere \in SUBSET Dirs
      BY <2>2, TargetIsDir DEF Known, Dir, Typed, RowsTyped, RowRecord
    <2>4. CASE scan' = [scan EXCEPT !.at = "look", !.file = f, !.elsewhere = elsewhere]
      <3>1. /\ scan' \in ScanType /\ scan'.job = scan.job /\ scan'.jobs = scan.jobs
            /\ scan'.file = f /\ scan'.entries = scan.entries
        BY <1>1, <2>3, <2>4 DEF ScanType
      <3> QED BY <1>1, <2>1, <3>1 DEF ScanTyped
    <2>5. scan' = Passed(f)
          \/ scan' = [scan EXCEPT !.at = "look", !.file = f, !.elsewhere = elsewhere]
      BY <1>11, <2>2 DEF Consider
    <2> QED BY <1>3, <2>1, <2>4, <2>5
  <1>12. ASSUME NEW d \in Dirs, CheckElsewhere(d) \/ ElsewhereUnread(d)  PROVE ScanTyped'
    <2>1. scan.at = "look" BY <1>12 DEF CheckElsewhere, ElsewhereUnread
    <2>2. ASSUME NEW cache \in Partial(Dirs, Listing),
                 \/ scan' = [Passed(scan.file) EXCEPT !.cache = cache]
                 \/ scan' = [scan EXCEPT !.cache = cache, !.elsewhere = scan.elsewhere \ {d}]
          PROVE  ScanTyped'
      <3>1. CASE scan' = [Passed(scan.file) EXCEPT !.cache = cache]
        <4>1. PICK p \in ScanType : p = Passed(scan.file) BY <1>1, <2>1, PassedTyped
        <4>2. p.at = "walk" /\ p.job = scan.job /\ p.jobs = scan.jobs
          BY <1>1, <2>1, <4>1, PassedTyped
        <4>3. /\ scan' \in ScanType /\ scan'.at = p.at /\ scan'.job = p.job
              /\ scan'.jobs = p.jobs
          BY <2>2, <3>1, <4>1 DEF ScanType
        <4> QED BY <1>1, <2>1, <4>2, <4>3 DEF ScanTyped
      <3>2. CASE scan' = [scan EXCEPT !.cache = cache, !.elsewhere = scan.elsewhere \ {d}]
        <4>1. PICK rest \in SUBSET Dirs : rest = scan.elsewhere \ {d} BY <1>1 DEF ScanType
        <4>2. /\ scan' \in ScanType /\ scan'.at = scan.at /\ scan'.job = scan.job
              /\ scan'.jobs = scan.jobs /\ scan'.file = scan.file
              /\ scan'.entries = scan.entries
          BY <1>1, <2>2, <3>2, <4>1 DEF ScanType
        <4> QED BY <1>1, <4>2 DEF ScanTyped
      <3> QED BY <2>2, <3>1, <3>2
    <2>3. scan.cache \in Partial(Dirs, Listing) BY <1>1 DEF ScanType
    <2>4. CASE CheckElsewhere(d)
      <3>1. PICK cache : /\ cache = IF Listed(d) THEN scan.cache ELSE Listings(d)
                         /\ scan' = IF FoundElsewhere(cache[d])
                                    THEN [Passed(scan.file) EXCEPT !.cache = cache]
                                    ELSE [scan EXCEPT !.cache = cache,
                                                      !.elsewhere = scan.elsewhere \ {d}]
        BY <2>4 DEF CheckElsewhere
      <3>2. cache \in Partial(Dirs, Listing) BY <1>1, <2>3, <3>1, ListingsTyped
      <3> QED BY <2>2, <3>1, <3>2
    <2>5. CASE ElsewhereUnread(d)
      <3>1. scan' = [scan EXCEPT !.elsewhere = scan.elsewhere \ {d}]
        BY <2>5 DEF ElsewhereUnread
      <3>2. scan' = [scan EXCEPT !.cache = scan.cache, !.elsewhere = scan.elsewhere \ {d}]
        BY <1>1, <3>1 DEF ScanType
      <3> QED BY <2>2, <2>3, <3>2
    <2> QED BY <1>12, <2>4, <2>5
  <1>13. CASE Enqueue BY <1>3, <1>13 DEF Enqueue
  <1>14. CASE JobWalked BY <1>6, <1>14 DEF JobWalked
  <1> QED BY <1>7, <1>8, <1>9, <1>10, <1>11, <1>12, <1>13, <1>14 DEF Scan

\* A scan moves no row, and adds one at most.
LEMMA ScanRows ==
  ASSUME Typed, StartScan \/ Scan
  PROVE  /\ UNCHANGED <<document, jobs, reload, edit, cloud, drive>>
         /\ \/ queue' = queue
            \/ Enqueue /\ ~StopsAgain /\ queue' = queue \cup {Candidate}
  <1>1. UNCHANGED otherVars
    BY DEF StartScan, Scan, ScanDrives, ScanJob, ListTarget, Consider, CheckElsewhere,
       ElsewhereUnread, Enqueue, JobWalked
  <1>2. UNCHANGED <<document, jobs, reload, edit, cloud, drive>>
    BY <1>1 DEF otherVars, settingsVars
  <1>3. \/ queue' = queue
        \/ Enqueue /\ ~StopsAgain /\ queue' = queue \cup {Candidate}
    <2>1. CASE Enqueue BY <2>1 DEF Enqueue
    <2>2. CASE StartScan \/ (Scan /\ ~Enqueue)
      BY <2>2 DEF StartScan, Scan, ScanDrives, ScanJob, ListTarget, Consider, CheckElsewhere,
         ElsewhereUnread, JobWalked
    <2> QED BY <2>1, <2>2
  <1> QED BY <1>2, <1>3

\* A row that moves stays the row of its file, is touched from then on, and was
\* open unless it is delivered by the step; a row that goes leaves the others.
Moves(r) ==
  \/ queue' \subseteq queue
  \/ /\ Open(r)
     /\ \E s \in RowRecord :
          queue' = (queue \ {r}) \cup {s} /\ Key(s) = Key(r) /\ s.touched = TRUE

LEMMA RowStep ==
  ASSUME Typed, NEW r \in queue, Dispatch(r) \/ Deliver(r) \/ EndsBadly(r) \/ UserActs(r)
  PROVE  /\ Typed' /\ Moves(r)
         /\ UNCHANGED <<document, jobs, reload, edit, cloud, scan>>
  <1>1. /\ RowsTyped /\ DrivesTyped /\ r \in RowRecord
    BY DEF Typed, RowsTyped
  <1>2. UNCHANGED <<document, jobs, reload, edit, cloud, scan>>
    BY DEF Dispatch, Deliver, EndsBadly, UserActs, settingsVars
  <1>3. ASSUME NEW state \in {"pending", "running", "complete", "failed", "cancelled"},
               Becomes(r, state), Open(r)
        PROVE  RowsTyped' /\ Moves(r)
    <2>1. PICK s \in RowRecord :
            /\ queue' = (queue \ {r}) \cup {s} /\ queue' \subseteq RowRecord
            /\ Key(s) = Key(r) /\ s.state = state /\ s.touched = TRUE
      BY <1>1, <1>3, BecomesTyped
    <2> QED BY <1>3, <2>1 DEF Moves, RowsTyped
  <1>4. RowsTyped' /\ Moves(r)
    <2>1. CASE Dispatch(r)
      <3>1. Becomes(r, "running") /\ Open(r) BY <2>1 DEF Dispatch, Open
      <3> QED BY <1>3, <3>1
    <2>2. CASE Deliver(r)
      <3>1. Becomes(r, "complete") /\ Open(r) BY <2>2 DEF Deliver, Open
      <3> QED BY <1>3, <3>1
    <2>3. CASE EndsBadly(r)
      <3>1. Open(r) /\ (Becomes(r, "failed") \/ Becomes(r, "pending"))
        BY <2>3 DEF EndsBadly, Open
      <3> QED BY <1>3, <3>1
    <2>4. CASE UserActs(r)
      <3>1. \/ Open(r) /\ (Becomes(r, "cancelled") \/ Becomes(r, "pending"))
            \/ queue' = queue \ {r}
        BY <2>4 DEF UserActs, Open
      <3>2. queue' = queue \ {r} => RowsTyped' /\ Moves(r)
        BY <1>1 DEF RowsTyped, Moves
      <3> QED BY <1>3, <3>1, <3>2
    <2> QED BY <2>1, <2>2, <2>3, <2>4
  <1>5. DrivesTyped'
    <2>1. drive' \in [Dirs -> Listing]
      <3>1. CASE Deliver(r)
        <4>1. PICK content \in Contents \cup {None} : content = r.content
          BY <1>1 DEF RowRecord
        <4>2. drive' = [drive EXCEPT ![Dir(r)][r.file] = content]
          BY <3>1, <4>1 DEF Deliver
        <4>3. \A d \in Dirs : drive'[d] \in Listing
          BY <1>1, <4>2 DEF DrivesTyped, Listing
        <4>4. drive' = [d \in Dirs |-> drive'[d]] BY <1>1, <4>2 DEF DrivesTyped
        <4> QED BY <4>3, <4>4
      <3>2. CASE drive' = drive BY <1>1, <3>2 DEF DrivesTyped
      <3> QED BY <3>1, <3>2 DEF Dispatch, EndsBadly, UserActs
    <2> QED BY <1>1, <1>2, <2>1 DEF DrivesTyped
  <1>6. SettingsTyped' /\ ScanTyped'
    BY <1>2 DEF Typed, SettingsTyped, ScanTyped
  <1> QED BY <1>2, <1>4, <1>5, <1>6 DEF Typed

LEMMA FilesStep ==
  ASSUME Typed, FilesChange
  PROVE  /\ Typed'
         /\ UNCHANGED <<document, jobs, reload, edit, queue, scan>>
  <1>1. cloud \in Listing /\ drive \in [Dirs -> Listing] BY DEF Typed, DrivesTyped
  <1>2. UNCHANGED <<document, jobs, reload, edit, queue, scan>>
    BY DEF FilesChange, settingsVars
  <1>3. cloud' \in Listing BY <1>1 DEF FilesChange, Listing
  <1>4. drive' \in [Dirs -> Listing]
    <2>1. ASSUME NEW f \in Files, NEW d \in Dirs, drive' = [drive EXCEPT ![d][f] = None]
          PROVE  drive' \in [Dirs -> Listing]
      <3>1. \A e \in Dirs : drive'[e] \in Listing BY <1>1, <2>1 DEF Listing
      <3>2. drive' = [e \in Dirs |-> drive'[e]] BY <1>1, <2>1
      <3> QED BY <3>1, <3>2
    <2> QED BY <1>1, <2>1 DEF FilesChange
  <1>5. SettingsTyped' /\ ScanTyped' /\ RowsTyped'
    BY <1>2 DEF Typed, SettingsTyped, ScanTyped, RowsTyped
  <1> QED BY <1>2, <1>3, <1>4, <1>5 DEF Typed, DrivesTyped

LEMMA InitTyped == Init => Typed
  <1> SUFFICES ASSUME Init PROVE Typed OBVIOUS
  <1>1. SettingsTyped BY DEF Init, SettingsTyped, EditType, MaybeDefinition
  <1>2. DrivesTyped BY ScanAssumption DEF Init, DrivesTyped, Listing
  <1>3. RowsTyped BY DEF Init, RowsTyped
  <1>4. ScanTyped BY IdleTyped DEF Init, ScanTyped
  <1> QED BY <1>1, <1>2, <1>3, <1>4 DEF Typed

LEMMA TypedStep == Typed /\ [Next]_vars => Typed'
  <1> SUFFICES ASSUME Typed, [Next]_vars PROVE Typed' OBVIOUS
  <1>1. CASE Settings BY <1>1, SettingsStep
  <1>2. CASE StartScan \/ Scan
    <2>1. RowsTyped'
      <3>1. CASE queue' = queue BY <3>1 DEF Typed, RowsTyped
      <3>2. CASE Enqueue /\ queue' = queue \cup {Candidate}
        <4>1. ScanTyped /\ scan.at = "look" BY <3>2 DEF Typed, Enqueue
        <4>2. Candidate \in RowRecord BY <4>1, CandidateTyped
        <4> QED BY <3>2, <4>2 DEF Typed, RowsTyped
      <3> QED BY <1>2, <3>1, <3>2, ScanRows
    <2>2. SettingsTyped' /\ DrivesTyped'
      BY <1>2, ScanRows DEF Typed, SettingsTyped, DrivesTyped
    <2> QED BY <1>2, <2>1, <2>2, ScanTypes DEF Typed
  <1>3. CASE FilesChange BY <1>3, FilesStep
  <1>4. ASSUME NEW r \in queue, Dispatch(r) \/ Deliver(r) \/ EndsBadly(r) \/ UserActs(r)
        PROVE  Typed'
    BY <1>4, RowStep
  <1>5. CASE UNCHANGED vars
    BY <1>5 DEF vars, Typed, SettingsTyped, DrivesTyped, RowsTyped, ScanTyped
  <1> QED BY <1>1, <1>2, <1>3, <1>4, <1>5 DEF Next

----------------------------------------------------------------------------
(* Rows follow the jobs.  The property is its own inductive invariant: the   *)
(* settings drop what an edit made untrue in the step that applies it, and   *)
(* the second look stands in one locked section with the append.             *)

\* Rows that only go cannot break it, while the jobs stay.
LEMMA FollowsShrinking ==
  ASSUME RowsFollowJobs, queue' \subseteq queue, UNCHANGED jobs
  PROVE  RowsFollowJobs'
  BY DEF RowsFollowJobs, Open, Key

LEMMA FollowsApply ==
  ASSUME Typed, RowsFollowJobs, NEW next \in JobMap, Apply(next)
  PROVE  RowsFollowJobs'
  <1>1. queue' \subseteq queue /\ jobs' = next BY DEF Apply
  <1>2. ASSUME NEW r \in queue', r.state = "pending", ~r.touched  PROVE jobs'[r.job] = r.def
    <2>1. r \in queue /\ ~Drops(r, {j \in Jobs : jobs[j] # next[j]}) BY DEF Apply
    <2>2. r.job \in Jobs BY <2>1 DEF Typed, RowsTyped, RowRecord
    <2>3. jobs[r.job] = next[r.job] BY <1>2, <2>1, <2>2 DEF Drops
    <2> QED BY <1>1, <1>2, <2>1, <2>3 DEF RowsFollowJobs
  <1>3. ASSUME NEW r \in queue', NEW q \in queue', Open(r), Open(q), Key(r) = Key(q)
        PROVE  r = q
    BY <1>1, <1>3 DEF RowsFollowJobs
  <1> QED BY <1>2, <1>3 DEF RowsFollowJobs, Open, Key

LEMMA FollowsSettings ==
  ASSUME Typed, RowsFollowJobs, Settings
  PROVE  RowsFollowJobs'
  <1>1. /\ document \in JobMap /\ reload \in JobMap \cup {None} /\ edit.doc \in JobMap
    BY DEF Typed, SettingsTyped, EditType
  <1>2. ASSUME NEW j \in Jobs, NEW d \in MaybeDefinition, EditReads(j, d)
        PROVE  RowsFollowJobs'
    BY <1>1, <1>2, FollowsApply DEF EditReads
  <1>3. CASE TickApplies BY <1>1, <1>3, FollowsApply DEF TickApplies
  <1>4. CASE EditApplies BY <1>1, <1>4, FollowsApply DEF EditApplies
  <1>5. ASSUME \/ TickReads \/ EditWrites \/ EditDrops
               \/ \E j \in Jobs, d \in MaybeDefinition : ModalWrites(j, d)
        PROVE  RowsFollowJobs'
    <2>1. queue' \subseteq queue /\ UNCHANGED jobs
      BY <1>5 DEF TickReads, EditWrites, EditDrops, ModalWrites
    <2> QED BY <2>1, FollowsShrinking
  <1> QED BY <1>2, <1>3, <1>4, <1>5 DEF Settings

LEMMA FollowsRow ==
  ASSUME Typed, RowsFollowJobs, NEW r \in queue, Moves(r), UNCHANGED jobs
  PROVE  RowsFollowJobs'
  <1>1. ASSUME NEW s \in RowRecord, queue' = (queue \ {r}) \cup {s}, Open(r),
               Key(s) = Key(r), s.touched = TRUE
        PROVE  RowsFollowJobs'
    <2>1. ASSUME NEW a \in queue', a.state = "pending", ~a.touched
          PROVE  jobs'[a.job] = a.def
      <3>1. a \in queue BY <1>1, <2>1
      <3> QED BY <2>1, <3>1 DEF RowsFollowJobs
    <2>2. ASSUME NEW a \in queue \ {r}, Open(a)  PROVE Key(a) # Key(r)
      BY <1>1, <2>2 DEF RowsFollowJobs
    <2>3. ASSUME NEW a \in queue', NEW b \in queue', Open(a), Open(b), Key(a) = Key(b)
          PROVE  a = b
      <3>1. CASE a = s /\ b # s BY <1>1, <2>2, <2>3, <3>1
      <3>2. CASE b = s /\ a # s BY <1>1, <2>2, <2>3, <3>2
      <3>3. CASE a # s /\ b # s
        <4>1. a \in queue /\ b \in queue BY <1>1, <3>3
        <4> QED BY <2>3, <4>1 DEF RowsFollowJobs
      <3> QED BY <3>1, <3>2, <3>3
    <2> QED BY <2>1, <2>3 DEF RowsFollowJobs, Open, Key
  <1>2. CASE queue' \subseteq queue BY <1>2, FollowsShrinking
  <1> QED BY <1>1, <1>2 DEF Moves

\* The second look is what this rests on: the job has not changed since the scan
\* began, and no open row has the file.
LEMMA FollowsScan ==
  ASSUME Typed, RowsFollowJobs, StartScan \/ Scan
  PROVE  RowsFollowJobs'
  <1>1. UNCHANGED jobs BY ScanRows
  <1>2. CASE queue' = queue BY <1>1, <1>2, FollowsShrinking
  <1>3. ASSUME Enqueue, ~StopsAgain, queue' = queue \cup {Candidate}
        PROVE  RowsFollowJobs'
    <2>1. ScanTyped /\ scan.at = "look" BY <1>3 DEF Typed, Enqueue
    <2>2. PICK c \in RowRecord : c = Candidate BY <2>1, CandidateTyped
    <2>3. /\ c.job = scan.job /\ c.def = scan.jobs[scan.job]
          /\ Key(c) = <<scan.job, scan.file, scan.entries[scan.file]>>
      BY <2>1, <2>2, CandidateTyped
    <2>4. /\ jobs[scan.job] = scan.jobs[scan.job]
          /\ \A a \in queue : Open(a) => Key(a) # Key(c)
      BY <1>3, <2>3 DEF StopsAgain, Stops, Known
    <2>5. queue' = queue \cup {c} BY <1>3, <2>2
    <2>6. ASSUME NEW a \in queue', a.state = "pending", ~a.touched
          PROVE  jobs'[a.job] = a.def
      <3>1. CASE a = c BY <1>1, <2>3, <2>4, <3>1
      <3>2. CASE a \in queue BY <1>1, <2>6, <3>2 DEF RowsFollowJobs
      <3> QED BY <2>5, <3>1, <3>2
    <2>7. ASSUME NEW a \in queue', NEW b \in queue', Open(a), Open(b), Key(a) = Key(b)
          PROVE  a = b
      <3>1. CASE a \in queue /\ b \in queue BY <2>7, <3>1 DEF RowsFollowJobs
      <3>2. CASE a \notin queue \/ b \notin queue BY <2>4, <2>5, <2>7, <3>2
      <3> QED BY <3>1, <3>2
    <2> QED BY <2>6, <2>7 DEF RowsFollowJobs, Open, Key
  <1> QED BY <1>2, <1>3, ScanRows

LEMMA FollowsStep == Typed /\ RowsFollowJobs /\ [Next]_vars => RowsFollowJobs'
  <1> SUFFICES ASSUME Typed, RowsFollowJobs, [Next]_vars PROVE RowsFollowJobs' OBVIOUS
  <1>1. CASE Settings BY <1>1, FollowsSettings
  <1>2. CASE StartScan \/ Scan BY <1>2, FollowsScan
  <1>3. CASE FilesChange
    <2>1. queue' \subseteq queue /\ UNCHANGED jobs BY <1>3, FilesStep
    <2> QED BY <2>1, FollowsShrinking
  <1>4. ASSUME NEW r \in queue, Dispatch(r) \/ Deliver(r) \/ EndsBadly(r) \/ UserActs(r)
        PROVE  RowsFollowJobs'
    <2>1. Moves(r) /\ UNCHANGED jobs BY <1>4, RowStep
    <2> QED BY <2>1, FollowsRow
  <1>5. CASE UNCHANGED vars
    <2>1. queue' \subseteq queue /\ UNCHANGED jobs BY <1>5 DEF vars
    <2> QED BY <2>1, FollowsShrinking
  <1> QED BY <1>1, <1>2, <1>3, <1>4, <1>5 DEF Next

\* What a scan added and nobody touched is of the job as the engine knows it, and
\* a file has one open row, whatever edits and actions fell beside the scan.
THEOREM RowsSayWhatJobsSay == Spec => []RowsFollowJobs
  <1>1. Init => RowsFollowJobs BY DEF Init, RowsFollowJobs
  <1> QED BY <1>1, InitTyped, TypedStep, FollowsStep, PTL DEF Spec

----------------------------------------------------------------------------
(* Nothing is fetched again.  What the walk knows of a delivered file: it is *)
(* where its row says; a listing the walk has taken shows it there; and while*)
(* its file is looked at, its directory is one that is still to be checked.  *)
Shown(h) == Dir(h) \in DOMAIN scan.cache => scan.cache[Dir(h)][h.file] = h.content
ToCheck(h) ==
  scan.at = "look" /\ Key(h) = <<scan.job, scan.file, scan.entries[scan.file]>>
    => Dir(h) \in scan.elsewhere

HeldInv ==
  \A h \in held :
    /\ h \in queue /\ h.state = "complete" /\ Stored(h)
    /\ Shown(h) /\ ToCheck(h)

\* A step that leaves the walk alone, and of the held only those that still are.
LEMMA HeldKept ==
  ASSUME HeldInv, UNCHANGED scan, held' \subseteq held,
         \A h \in held' : h \in queue' /\ drive'[Dir(h)][h.file] = h.content
  PROVE  HeldInv'
  BY DEF HeldInv, Stored, Shown, ToCheck, Dir, Key

\* A step of the walk that looks at no file keeps what it shows.
LEMMA HeldWalked ==
  ASSUME HeldInv, UNCHANGED <<queue, drive>>, held' \subseteq held, scan'.at # "look",
         \A h \in held' : Shown(h)'
  PROVE  HeldInv'
  BY DEF HeldInv, Stored, ToCheck, Dir

LEMMA HeldSettings ==
  ASSUME Typed, HeldInv, Settings
  PROVE  HeldInv'
  <1>1. UNCHANGED <<cloud, drive, scan, held>> BY SettingsStep
  <1>2. ASSUME NEW h \in queue, h.state = "complete"  PROVE h \in queue'
    BY <1>2 DEF Settings, TickReads, TickApplies, EditWrites, EditApplies, EditDrops,
       EditReads, ModalWrites, Apply, Drops
  <1>3. \A h \in held' : h \in queue' /\ drive'[Dir(h)][h.file] = h.content
    BY <1>1, <1>2 DEF HeldInv, Stored
  <1> QED BY <1>1, <1>3, HeldKept

LEMMA HeldRow ==
  ASSUME Typed, HeldInv, NEW r \in queue,
         Dispatch(r) \/ Deliver(r) \/ EndsBadly(r) \/ UserActs(r)
  PROVE  HeldInv'
  <1>1. UNCHANGED scan BY RowStep
  <1>2. ASSUME NEW state, Becomes(r, state), r.state # "complete", UNCHANGED <<held, drive>>
        PROVE  HeldInv'
    <2>1. \A h \in held' : h \in queue' /\ drive'[Dir(h)][h.file] = h.content
      BY <1>2 DEF HeldInv, Becomes, Stored
    <2> QED BY <1>1, <1>2, <2>1, HeldKept
  <1>3. CASE Dispatch(r)
    <2>1. Becomes(r, "running") /\ r.state # "complete" /\ UNCHANGED <<held, drive>>
      BY <1>3 DEF Dispatch
    <2> QED BY <1>2, <2>1
  <1>4. CASE Deliver(r)
    <2>1. held' = StillHeld BY <1>4 DEF Deliver
    <2>2. /\ held' \subseteq held
          /\ \A h \in held' : h \in queue' /\ drive'[Dir(h)][h.file] = h.content
      BY <2>1 DEF StillHeld
    <2> QED BY <1>1, <2>2, HeldKept
  <1>5. CASE EndsBadly(r)
    <2>1. /\ Becomes(r, "failed") \/ Becomes(r, "pending")
          /\ r.state # "complete" /\ UNCHANGED <<held, drive>>
      BY <1>5 DEF EndsBadly
    <2> QED BY <1>2, <2>1
  <1>6. CASE UserActs(r)
    <2>1. held' = held \cap queue' /\ UNCHANGED drive BY <1>6 DEF UserActs
    <2>2. \A h \in held' : h \in queue' /\ drive'[Dir(h)][h.file] = h.content
      BY <2>1 DEF HeldInv, Stored
    <2> QED BY <1>1, <2>1, <2>2, HeldKept
  <1> QED BY <1>3, <1>4, <1>5, <1>6

LEMMA HeldFiles ==
  ASSUME Typed, HeldInv, FilesChange
  PROVE  HeldInv'
  <1>1. UNCHANGED <<queue, scan>> BY FilesStep
  <1>2. /\ held' \subseteq held
        /\ \A h \in held' : h \in queue' /\ drive'[Dir(h)][h.file] = h.content
    <2>1. CASE UNCHANGED <<drive, held>> BY <1>1, <2>1 DEF HeldInv, Stored
    <2>2. CASE held' = {h \in held : drive'[Dir(h)][h.file] = h.content}
      BY <1>1, <2>2 DEF HeldInv
    <2> QED BY <2>1, <2>2 DEF FilesChange
  <1> QED BY <1>1, <1>2, HeldKept

\* Taking a listing shows what is there: a held file, where it is held.
LEMMA HeldListed ==
  ASSUME Typed, HeldInv, NEW d \in Dirs, NEW h \in held,
         Dir(h) \in DOMAIN Listings(d), d \notin DOMAIN scan.cache
  PROVE  Listings(d)[Dir(h)][h.file] = h.content
  <1>1. CASE Dir(h) = d BY <1>1 DEF Listings, HeldInv, Stored
  <1>2. CASE Dir(h) # d
    <2>1. Dir(h) \in DOMAIN scan.cache BY <1>2 DEF Listings
    <2> QED BY <1>2, <2>1 DEF Listings, HeldInv, Shown
  <1> QED BY <1>1, <1>2

LEMMA HeldScan ==
  ASSUME Typed, HeldInv, StartScan \/ Scan
  PROVE  HeldInv'
  <1>1. /\ scan \in ScanType /\ ScanTyped /\ DrivesTyped /\ RowsTyped
        /\ UNCHANGED drive /\ jobs \in JobMap
    BY ScanRows DEF Typed, ScanTyped, SettingsTyped
  <1>2. ASSUME held' = {}  PROVE HeldInv' BY <1>2 DEF HeldInv
  <1>3. ASSUME UNCHANGED <<queue, held>>, scan'.at # "look", scan'.cache = NoListing
        PROVE  HeldInv'
    <2>1. \A h \in held' : Shown(h)' BY <1>3 DEF Shown, NoListing
    <2> QED BY <1>1, <1>3, <2>1, HeldWalked
  <1>4. ASSUME UNCHANGED <<queue, held>>, scan'.at # "look", scan'.cache = scan.cache
        PROVE  HeldInv'
    <2>1. \A h \in held' : Shown(h)' BY <1>4 DEF HeldInv, Shown, Dir
    <2> QED BY <1>1, <1>4, <2>1, HeldWalked
  <1>5. EndScan => HeldInv' BY <1>2 DEF EndScan
  <1>6. CASE StartScan
    <2>1. scan'.cache = Idle.cache /\ scan'.at = "drives"
      BY <1>1, <1>6, IdleTyped DEF StartScan, ScanType
    <2>2. UNCHANGED <<queue, held>> BY <1>6 DEF StartScan
    <2> QED BY <1>3, <2>1, <2>2 DEF Idle
  <1>7. CASE ScanDrives
    <2>1. CASE scan' = [scan EXCEPT !.at = "jobs"] /\ UNCHANGED <<queue, held>>
      <3>1. scan'.at = "jobs" /\ scan'.cache = scan.cache BY <1>1, <2>1 DEF ScanType
      <3> QED BY <1>4, <2>1, <3>1
    <2> QED BY <1>5, <1>7, <2>1 DEF ScanDrives
  <1>8. CASE ScanJob
    <2>1. ASSUME NEW j \in Jobs,
                 scan' = [scan EXCEPT !.at = "walk", !.job = j, !.cache = NoListing,
                                      !.entries = Entries(scan.jobs[j])],
                 held' = {r \in queue : r.job = j /\ r.state = "complete" /\ Stored(r)}
          PROVE  HeldInv'
      <3>1. scan'.at = "walk" /\ scan'.cache = NoListing BY <1>1, <2>1 DEF ScanType
      <3>2. UNCHANGED queue BY <1>8 DEF ScanJob
      <3>3. \A h \in held' : h \in queue' /\ h.state = "complete" /\ Stored(h)'
        BY <1>1, <2>1, <3>2 DEF Stored, Dir
      <3>4. \A h \in held' : Shown(h)' /\ ToCheck(h)'
        BY <3>1 DEF Shown, ToCheck, NoListing
      <3> QED BY <3>3, <3>4 DEF HeldInv
    <2> QED BY <1>5, <1>8, <2>1 DEF ScanJob
  <1>9. CASE ListTarget
    <2>1. scan.at = "walk" /\ ScanTarget \in Dirs /\ ~Listed(ScanTarget)
      BY <1>1, <1>9, TargetIsDir DEF ListTarget, ScanTyped, ScanTarget
    <2>2. UNCHANGED queue BY <1>9 DEF ListTarget
    <2>3. CASE scan' = [scan EXCEPT !.cache = Listings(ScanTarget)] /\ UNCHANGED held
      <3>1. scan'.at = "walk" /\ scan'.cache = Listings(ScanTarget)
        BY <1>1, <2>1, <2>3 DEF ScanType
      <3>2. \A h \in held' : Shown(h)'
        BY <2>1, <2>3, <3>1, HeldListed DEF Shown, Listed, Dir
      <3> QED BY <1>1, <2>2, <2>3, <3>1, <3>2, HeldWalked
    <2>4. CASE EndJob /\ UNCHANGED held
      <3>1. scan'.at = "jobs" /\ scan'.cache = NoListing BY <1>1, <2>1, <2>4, EndJobTyped
      <3> QED BY <1>3, <2>2, <2>4, <3>1
    <2> QED BY <1>5, <1>9, <2>3, <2>4 DEF ListTarget
  <1>10. ASSUME NEW f \in Files, Consider(f)  PROVE HeldInv'
    <2>1. /\ scan.at = "walk" /\ f \in DOMAIN scan.entries /\ Listed(ScanTarget)
          /\ UNCHANGED <<queue, held>>
      BY <1>10 DEF Consider
    <2>2. CASE scan' = Passed(f)
      <3>1. scan'.at = "walk" /\ scan'.cache = scan.cache BY <1>1, <2>1, <2>2, PassedTyped
      <3> QED BY <1>4, <2>1, <3>1
    <2>3. PICK elsewhere : elsewhere = {Dir(r) : r \in Known(scan.job, f)} \ {ScanTarget}
      OBVIOUS
    <2>4. ASSUME scan' = [scan EXCEPT !.at = "look", !.file = f, !.elsewhere = elsewhere],
                 scan.cache[ScanTarget][f] # scan.entries[f]
          PROVE  HeldInv'
      <3>1. /\ scan'.cache = scan.cache /\ scan'.job = scan.job /\ scan'.file = f
            /\ scan'.entries = scan.entries /\ scan'.elsewhere = elsewhere
        <4>1. elsewhere \in SUBSET Dirs
          BY <1>1, <2>3, TargetIsDir DEF Known, Dir, RowsTyped, RowRecord
        <4> QED BY <1>1, <2>4, <4>1 DEF ScanType
      <3>2. ASSUME NEW h \in held, Key(h) = <<scan.job, f, scan.entries[f]>>
            PROVE  Dir(h) \in elsewhere
        <4>1. h \in queue /\ Shown(h) BY DEF HeldInv
        <4>2. h.file = f /\ h.content = scan.entries[f] BY <3>2 DEF Key
        <4>3. Dir(h) # ScanTarget BY <2>1, <2>4, <4>1, <4>2 DEF Shown, Listed
        <4>4. h \in Known(scan.job, f) BY <3>2, <4>1 DEF Known
        <4> QED BY <2>3, <4>3, <4>4
      <3>3. \A h \in held' : ToCheck(h)' BY <2>1, <3>1, <3>2 DEF ToCheck, Key, Dir
      <3>4. \A h \in held' : Shown(h)' BY <2>1, <3>1 DEF HeldInv, Shown, Dir
      <3>5. \A h \in held' : h \in queue' /\ h.state = "complete" /\ Stored(h)'
        BY <1>1, <2>1 DEF HeldInv, Stored, Dir
      <3> QED BY <3>3, <3>4, <3>5 DEF HeldInv
    <2>5. \/ scan' = Passed(f)
          \/ /\ scan' = [scan EXCEPT !.at = "look", !.file = f, !.elsewhere = elsewhere]
             /\ scan.cache[ScanTarget][f] # scan.entries[f]
      BY <1>10, <2>3 DEF Consider
    <2> QED BY <2>2, <2>4, <2>5
  <1>11. ASSUME NEW d \in Dirs, CheckElsewhere(d)  PROVE HeldInv'
    <2>1. scan.at = "look" /\ d \in scan.elsewhere /\ UNCHANGED <<queue, held>>
      BY <1>11 DEF CheckElsewhere
    <2>2. PICK cache : /\ cache = IF Listed(d) THEN scan.cache ELSE Listings(d)
                       /\ scan' = IF FoundElsewhere(cache[d])
                                  THEN [Passed(scan.file) EXCEPT !.cache = cache]
                                  ELSE [scan EXCEPT !.cache = cache,
                                                    !.elsewhere = scan.elsewhere \ {d}]
      BY <1>11 DEF CheckElsewhere
    <2>3. scan'.cache = cache
      <3>1. PICK p \in ScanType : p = Passed(scan.file) BY <1>1, <2>1, PassedTyped
      <3> QED BY <1>1, <2>2, <3>1 DEF ScanType
    <2>4. /\ d \in DOMAIN cache
          /\ \A h \in held : Dir(h) \in DOMAIN cache => cache[Dir(h)][h.file] = h.content
      <3>1. CASE Listed(d) BY <2>2, <3>1 DEF Listed, HeldInv, Shown
      <3>2. CASE ~Listed(d)
        <4>1. cache = Listings(d) /\ d \notin DOMAIN scan.cache BY <2>2, <3>2 DEF Listed
        <4>2. d \in DOMAIN cache BY <4>1 DEF Listings
        <4> QED BY <4>1, <4>2, HeldListed
      <3> QED BY <3>1, <3>2
    <2>5. \A h \in held' : Shown(h)' BY <2>1, <2>3, <2>4 DEF Shown, Dir
    <2>6. CASE FoundElsewhere(cache[d])
      <3>1. scan' = [Passed(scan.file) EXCEPT !.cache = cache] BY <2>2, <2>6
      <3>2. scan'.at = "walk"
        <4>1. PICK p \in ScanType : p = Passed(scan.file) BY <1>1, <2>1, PassedTyped
        <4>2. p.at = "walk" BY <1>1, <2>1, <4>1, PassedTyped
        <4> QED BY <3>1, <4>1, <4>2 DEF ScanType
      <3> QED BY <1>1, <2>1, <2>5, <3>2, HeldWalked
    <2>7. CASE ~FoundElsewhere(cache[d])
      <3>1. scan' = [scan EXCEPT !.cache = cache, !.elsewhere = scan.elsewhere \ {d}]
        BY <2>2, <2>7
      <3>2. /\ scan'.job = scan.job /\ scan'.file = scan.file
            /\ scan'.entries = scan.entries /\ scan'.elsewhere = scan.elsewhere \ {d}
        BY <1>1, <3>1 DEF ScanType
      <3>3. ASSUME NEW h \in held, Key(h) = <<scan.job, scan.file, scan.entries[scan.file]>>
            PROVE  Dir(h) \in scan.elsewhere \ {d}
        <4>1. Dir(h) \in scan.elsewhere BY <2>1, <3>3 DEF HeldInv, ToCheck
        <4>2. h.file = scan.file /\ h.content = scan.entries[scan.file] BY <3>3 DEF Key
        <4>3. Dir(h) # d BY <2>4, <2>7, <4>2 DEF FoundElsewhere
        <4> QED BY <4>1, <4>3
      <3>4. \A h \in held' : ToCheck(h)' BY <2>1, <3>2, <3>3 DEF ToCheck, Key, Dir
      <3>5. \A h \in held' : h \in queue' /\ h.state = "complete" /\ Stored(h)'
        BY <1>1, <2>1 DEF HeldInv, Stored, Dir
      <3> QED BY <2>5, <3>4, <3>5 DEF HeldInv
    <2> QED BY <2>6, <2>7
  <1>12. ASSUME NEW d \in Dirs, ElsewhereUnread(d)  PROVE HeldInv'
    <2>1. /\ scan.at = "look" /\ UNCHANGED queue
          /\ scan' = [scan EXCEPT !.elsewhere = scan.elsewhere \ {d}]
          /\ held' = {r \in held : Dir(r) # d}
      BY <1>12 DEF ElsewhereUnread
    <2>2. /\ scan'.job = scan.job /\ scan'.file = scan.file /\ scan'.cache = scan.cache
          /\ scan'.entries = scan.entries /\ scan'.elsewhere = scan.elsewhere \ {d}
      BY <1>1, <2>1 DEF ScanType
    <2>3. \A h \in held' : h \in queue' /\ h.state = "complete" /\ Stored(h)'
      BY <1>1, <2>1 DEF HeldInv, Stored, Dir
    <2>4. \A h \in held' : Shown(h)' BY <2>1, <2>2 DEF HeldInv, Shown, Dir
    <2>5. \A h \in held' : ToCheck(h)' BY <2>1, <2>2 DEF HeldInv, ToCheck, Key, Dir
    <2> QED BY <2>3, <2>4, <2>5 DEF HeldInv
  <1>13. CASE Enqueue
    <2>1. scan.at = "look" /\ scan' = Passed(scan.file) /\ UNCHANGED held
          /\ queue \subseteq queue'
      BY <1>13 DEF Enqueue
    <2>2. scan'.at = "walk" /\ scan'.cache = scan.cache BY <1>1, <2>1, PassedTyped
    <2>3. \A h \in held' : h \in queue' /\ h.state = "complete" /\ Stored(h)'
      BY <1>1, <2>1 DEF HeldInv, Stored, Dir
    <2>4. \A h \in held' : Shown(h)' BY <2>1, <2>2 DEF HeldInv, Shown, Dir
    <2>5. \A h \in held' : ToCheck(h)' BY <2>2 DEF ToCheck
    <2> QED BY <2>3, <2>4, <2>5 DEF HeldInv
  <1>14. CASE JobWalked
    <2>1. scan.at = "walk" /\ EndJob /\ UNCHANGED <<queue, held>> BY <1>14 DEF JobWalked
    <2>2. scan'.at = "jobs" /\ scan'.cache = NoListing BY <1>1, <2>1, EndJobTyped
    <2> QED BY <1>3, <2>1, <2>2
  <1> QED BY <1>6, <1>7, <1>8, <1>9, <1>10, <1>11, <1>12, <1>13, <1>14 DEF Scan

LEMMA HeldStep == Typed /\ HeldInv /\ [Next]_vars => HeldInv'
  <1> SUFFICES ASSUME Typed, HeldInv, [Next]_vars PROVE HeldInv' OBVIOUS
  <1>1. CASE UNCHANGED vars
    <2>1. UNCHANGED <<queue, drive, scan, held>> BY <1>1 DEF vars
    <2> QED BY <2>1 DEF HeldInv, Stored, Shown, ToCheck, Dir, Key
  <1> QED BY <1>1, HeldSettings, HeldScan, HeldFiles, HeldRow DEF Next

\* Only the second look adds a row nobody has touched, and with no directory left
\* to check, nothing that is held has its key.
LEMMA AddsOnlyNew ==
  Typed /\ HeldInv /\ [Next]_vars => [\A r \in Added : ~ \E h \in held : Key(h) = Key(r)]_vars
  <1> SUFFICES ASSUME Typed, HeldInv, Next, NEW r \in Added, NEW h \in held
               PROVE  Key(h) # Key(r)
    OBVIOUS
  <1>1. r \in queue' \ queue /\ ~r.touched BY DEF Added
  <1>2. ~ (queue' \subseteq queue) BY <1>1
  <1>3. ~Settings BY <1>2, SettingsStep
  <1>4. ~FilesChange
    <2>1. FilesChange => queue' \subseteq queue BY FilesStep
    <2> QED BY <1>2, <2>1
  <1>5. ASSUME NEW q \in queue, Dispatch(q) \/ Deliver(q) \/ EndsBadly(q) \/ UserActs(q)
        PROVE  FALSE
    <2>1. Moves(q) BY <1>5, RowStep
    <2> QED BY <1>1, <1>2, <2>1 DEF Moves
  <1>6. StartScan \/ Scan BY <1>3, <1>4, <1>5 DEF Next
  <1>7. Enqueue /\ queue' = queue \cup {Candidate} BY <1>2, <1>6, ScanRows
  <1>8. r = Candidate /\ scan.at = "look" /\ scan.elsewhere = {}
    BY <1>1, <1>7 DEF Enqueue
  <1>9. Key(r) = <<scan.job, scan.file, scan.entries[scan.file]>>
    BY <1>8, CandidateTyped DEF Typed
  <1> QED BY <1>8, <1>9 DEF HeldInv, ToCheck

\* A file delivered before its job's walk began and still in its place is never
\* queued again, though its job was pointed at another directory meanwhile.
THEOREM DeliveredStaysDelivered == Spec => NotRefetched
  <1>1. Init => HeldInv BY DEF Init, HeldInv
  <1>2. Spec => [][\A r \in Added : ~ \E h \in held : Key(h) = Key(r)]_vars
    BY <1>1, InitTyped, TypedStep, HeldStep, AddsOnlyNew, PTL DEF Spec
  <1> QED BY <1>2 DEF NotRefetched

\* What the engine, a scan and the drives hold stays of the kind the code declares.
THEOREM TypesAreKept == Spec => []TypeOK
  <1> DEFINE Few == events \in 0..MaxEvents
  <1>1. Init => HeldInv /\ Few
    BY ScanAssumption DEF Init, HeldInv
  <1>2. Few /\ [Next]_vars => Few'
    <2> SUFFICES ASSUME Few, [Next]_vars PROVE Few' OBVIOUS
    <2>1. MaxEvents \in Nat BY ScanAssumption
    <2>2. UNCHANGED events \/ Event
      BY DEF Next, Settings, TickReads, TickApplies, EditWrites, EditApplies, EditDrops,
         EditReads, ModalWrites, StartScan, Scan, ScanDrives, ScanJob, ListTarget, Consider,
         CheckElsewhere, ElsewhereUnread, Enqueue, JobWalked, FilesChange, Dispatch, Deliver,
         EndsBadly, UserActs, vars
    <2>3. CASE Event BY <2>1, <2>3 DEF Event
    <2> QED BY <2>2, <2>3
  <1>3. Typed /\ HeldInv /\ Few => TypeOK
    <2> SUFFICES ASSUME Typed, HeldInv, Few PROVE TypeOK OBVIOUS
    <2>1. held \subseteq RowRecord BY DEF HeldInv, Typed, RowsTyped
    <2>2. /\ scan.at \in {"idle", "drives", "jobs", "walk", "look"} /\ scan.jobs \in JobMap
          /\ scan.job \in Jobs \cup {None} /\ scan.file \in Files \cup {None}
          /\ scan.elsewhere \subseteq Dirs
      BY DEF Typed, ScanTyped, ScanType
    <2>3. DOMAIN scan.entries \subseteq Files /\ DOMAIN scan.cache \subseteq Dirs
      BY ScanFields DEF Typed
    <2> QED
      BY <2>1, <2>2, <2>3 DEF TypeOK, Typed, SettingsTyped, EditType, DrivesTyped, RowsTyped
  <1> HIDE DEF Few
  <1> QED BY <1>1, <1>2, <1>3, InitTyped, TypedStep, HeldStep, PTL DEF Spec
=============================================================================
