----------------------------- MODULE CloudScan -----------------------------
(***************************************************************************)
(* Scans of the cloud drive: one walk of the jobs queues what tdrive does  *)
(* not hold, while jobs are edited in two places, rows are transferred and *)
(* the user handles rows and files.                                        *)
(*                                                                         *)
(* A job is replaced as a whole, so a Definition stands for everything     *)
(* reflect.DeepEqual compares.  A file's content stands for its SHA1 and   *)
(* size.  The transfer of a row is TransferQueue's: here it ends in one    *)
(* step.                                                                   *)
(***************************************************************************)
EXTENDS Naturals, FiniteSets

CONSTANTS
  Jobs,            (* job ids                                               *)
  Definitions,     (* what a job can be edited to                           *)
  Target,          (* the tdrive directory a definition maps onto           *)
  Wanted,          (* the files a definition selects and does not filter out*)
  Overwriting,     (* definitions with Overwrite set                        *)
  Files,           (* cloud paths, the files of one cloud directory         *)
  Unstorable,      (* files whose name tdrive refuses                       *)
  Contents,        (* what a file may hold                                  *)
  First,           (* ... and holds at first                                *)
  None,
  MaxEvents        (* edits, changes, failures and actions of the user      *)

Dirs == {Target[d] : d \in Definitions}

ASSUME ScanAssumption ==
  /\ Target \in [Definitions -> Dirs] /\ Wanted \in [Definitions -> SUBSET Files]
  /\ Overwriting \subseteq Definitions
  /\ Unstorable \subseteq Files /\ First \in Contents
  /\ None \notin Definitions \cup Contents \cup Jobs \cup Files
  /\ MaxEvents \in Nat

VARIABLES
  document,        (* the settings document of the host: its Jobs           *)
  jobs,            (* Engine.settings.Jobs                                  *)
  reload,          (* what a tick has read of the document and not applied  *)
  edit,            (* UpsertJob or DeleteJob in progress                    *)
  queue,           (* Engine.queue                                          *)
  cloud, drive,    (* what the two drives hold                              *)
  scan,            (* Engine.scanning, and where the scan's goroutine is    *)
  held,            (* history: rows delivered before the walk, still stored *)
  events

vars == <<document, jobs, reload, edit, queue, cloud, drive, scan, held, events>>

----------------------------------------------------------------------------
MaybeDefinition == Definitions \cup {None}
JobMap == [Jobs -> MaybeDefinition]
\* touched: dispatched or retried since a scan added it.
RowRecord == [job: Jobs, def: Definitions, file: Files, content: Contents,
              state: {"pending", "running", "complete", "failed", "cancelled"},
              touched: BOOLEAN]
Listing == [Files -> Contents \cup {None}]

NoListing == [d \in {} |-> None]
\* at: idle, drives, jobs, walk (between files) or look (a candidate was
\* inspected, the lock released); elsewhere: directories still to be checked.
Idle == [at |-> "idle", jobs |-> [j \in Jobs |-> None], job |-> None, entries |-> [f \in {} |-> None],
         cache |-> NoListing, file |-> None, elsewhere |-> {}]

Key(r) == <<r.job, r.file, r.content>>
Open(r) == r.state # "complete"
Dir(r) == Target[r.def]
Stored(r) == drive[Dir(r)][r.file] = r.content

TypeOK ==
  /\ document \in JobMap /\ jobs \in JobMap /\ reload \in JobMap \cup {None}
  /\ edit \in [at: {"idle", "read", "written", "applied"}, job: Jobs \cup {None},
               def: MaybeDefinition, doc: JobMap, replaced: BOOLEAN]
  /\ queue \subseteq RowRecord
  /\ cloud \in Listing /\ drive \in [Dirs -> Listing]
  /\ scan.at \in {"idle", "drives", "jobs", "walk", "look"}
  /\ scan.jobs \in JobMap /\ scan.job \in Jobs \cup {None} /\ scan.file \in Files \cup {None}
  /\ DOMAIN scan.entries \subseteq Files /\ DOMAIN scan.cache \subseteq Dirs
  /\ scan.elsewhere \subseteq Dirs
  /\ held \subseteq RowRecord /\ events \in 0..MaxEvents

Init ==
  /\ document \in JobMap /\ jobs = document /\ reload = None
  /\ edit = [at |-> "idle", job |-> None, def |-> None, doc |-> document, replaced |-> FALSE]
  /\ queue = {} /\ cloud = [f \in Files |-> First]
  /\ drive = [d \in Dirs |-> [f \in Files |-> None]]
  /\ scan = Idle /\ held = {} /\ events = 0

Event == events < MaxEvents /\ events' = events + 1
settingsVars == <<document, jobs, reload, edit>>

----------------------------------------------------------------------------
(* Settings.                                                               *)
\* Rows of an edited job go, except those in flight or delivered.
Drops(r, changed) == r.job \in changed /\ r.state \notin {"running", "complete"}

\* applySettings.
Apply(next) ==
  /\ jobs' = next
  /\ queue' = {r \in queue : ~Drops(r, {j \in Jobs : jobs[j] # next[j]})}

\* reloadSettings, by a tick: the read and the swap are apart.
TickReads ==
  /\ reload = None /\ reload' = document
  /\ UNCHANGED <<document, jobs, edit, queue, cloud, drive, scan, held, events>>

TickApplies ==
  /\ reload # None /\ reload' = None
  /\ Apply(reload)
  /\ UNCHANGED <<document, edit, cloud, drive, scan, held, events>>

\* UpsertJob and DeleteJob: the document is read and applied, then written with
\* the one job replaced, then applied again.  A job may be saved unchanged;
\* deleting one that is not there ends with the first reload, TickApplies.
EditReads(j, d) ==
  /\ edit.at = "idle" /\ Event
  /\ d = None => document[j] # None
  /\ Apply(document)
  /\ edit' = [at |-> "read", job |-> j, def |-> d, doc |-> [document EXCEPT ![j] = d],
              replaced |-> document[j] # None]
  /\ UNCHANGED <<document, reload, cloud, drive, scan, held>>

EditOver(e) == [e EXCEPT !.at = "idle", !.job = None, !.def = None, !.replaced = FALSE]

\* A write that fails, or whose answer is lost, ends the call.
EditWrites ==
  /\ edit.at = "read"
  /\ \/ edit' = [edit EXCEPT !.at = "written"] /\ document' = edit.doc /\ UNCHANGED events
     \/ edit' = EditOver(edit) /\ document' \in {document, edit.doc} /\ Event
  /\ UNCHANGED <<jobs, reload, queue, cloud, drive, scan, held>>

EditApplies ==
  /\ edit.at = "written" /\ edit' = [edit EXCEPT !.at = "applied"]
  /\ Apply(edit.doc)
  /\ UNCHANGED <<document, reload, cloud, drive, scan, held, events>>

\* ... and rows of the job are dropped once more: of an edited job, pending ones
\* of a deleted job, none of a new one.
EditDrops ==
  /\ edit.at = "applied" /\ edit' = EditOver(edit)
  /\ queue' = {r \in queue :
       ~ IF edit.def = None THEN r.job = edit.job /\ r.state = "pending"
         ELSE edit.replaced /\ Drops(r, {edit.job})}
  /\ UNCHANGED <<document, jobs, reload, cloud, drive, scan, held, events>>

\* The host's own settings page writes the document as well.
ModalWrites(j, d) ==
  /\ Event /\ d # document[j]
  /\ document' = [document EXCEPT ![j] = d]
  /\ UNCHANGED <<jobs, reload, edit, queue, cloud, drive, scan, held>>

Settings ==
  \/ TickReads \/ TickApplies \/ EditWrites \/ EditApplies \/ EditDrops
  \/ \E j \in Jobs, d \in MaybeDefinition : EditReads(j, d) \/ ModalWrites(j, d)

----------------------------------------------------------------------------
(* The scan.                                                               *)
otherVars == <<settingsVars, cloud, drive>>

\* One at a time, with the jobs of the moment.
StartScan ==
  /\ scan.at = "idle"
  /\ scan' = [Idle EXCEPT !.at = "drives", !.jobs = jobs]
  /\ UNCHANGED <<otherVars, queue, held, events>>

EndScan == scan' = Idle /\ held' = {}

\* cli.Drives; a failure ends the scan.
ScanDrives ==
  /\ scan.at = "drives"
  /\ \/ scan' = [scan EXCEPT !.at = "jobs"] /\ UNCHANGED <<held, events>>
     \/ EndScan /\ Event
  /\ UNCHANGED <<otherVars, queue>>

Entries(d) == [f \in {g \in Wanted[d] : cloud[g] # None} |-> cloud[f]]

\* The next job's walk begins with an empty driveCache and lists the cloud.
ScanJob ==
  /\ scan.at = "jobs"
  /\ \/ \E j \in Jobs :
          /\ scan.jobs[j] # None
          /\ scan' = [scan EXCEPT !.at = "walk", !.job = j, !.cache = NoListing,
                                  !.entries = Entries(scan.jobs[j])]
          /\ held' = {r \in queue : r.job = j /\ r.state = "complete" /\ Stored(r)}
     \/ (\A j \in Jobs : scan.jobs[j] = None) /\ EndScan
  /\ UNCHANGED <<otherVars, queue, events>>

EndJob == scan' = [Idle EXCEPT !.at = "jobs", !.jobs = [scan.jobs EXCEPT ![scan.job] = None]]

ScanTarget == Target[scan.jobs[scan.job]]
Listed(d) == d \in DOMAIN scan.cache
Listings(d) == [e \in DOMAIN scan.cache \cup {d} |-> IF e = d THEN drive[d] ELSE scan.cache[e]]

\* driveCache.at for the target.  A list that fails, here or in the cloud, ends
\* the job, and the scan if the login is gone.
ListTarget ==
  /\ scan.at = "walk" /\ ~Listed(ScanTarget)
  /\ \/ scan' = [scan EXCEPT !.cache = Listings(ScanTarget)] /\ UNCHANGED <<held, events>>
     \/ EndJob /\ UNCHANGED held /\ Event
     \/ EndScan /\ Event
  /\ UNCHANGED <<otherVars, queue>>

Rest(f) == [g \in DOMAIN scan.entries \ {f} |-> scan.entries[g]]
\* The walk goes on to the next file.
Passed(f) == [scan EXCEPT !.at = "walk", !.entries = Rest(f), !.file = None, !.elsewhere = {}]

Known(j, f) == {r \in queue : Key(r) = <<j, f, scan.entries[f]>>}

\* Mutant: the queue is a ledger, and what it delivered is never fetched again.
StopsDelivered(j, f) == jobs[j] # scan.jobs[j] \/ Known(j, f) # {}
\* inspectLocked: the job was edited, or the file has a row already.
Stops(j, f) == jobs[j] # scan.jobs[j] \/ \E r \in Known(j, f) : Open(r)

\* consider, up to the unlock after the first look.
Consider(f) ==
  /\ scan.at = "walk" /\ Listed(ScanTarget) /\ f \in DOMAIN scan.entries
  /\ LET present == scan.cache[ScanTarget][f] IN
       scan' = IF \/ present = scan.entries[f]
                  \/ present # None /\ scan.jobs[scan.job] \notin Overwriting
                  \/ Stops(scan.job, f)
               THEN Passed(f)
               ELSE [scan EXCEPT !.at = "look", !.file = f,
                       !.elsewhere = {Dir(r) : r \in Known(scan.job, f)} \ {ScanTarget}]
  /\ UNCHANGED <<otherVars, queue, held, events>>

\* Mutant: where a file was delivered before the job was edited is forgotten.
IgnoresElsewhere(listing) == FALSE
FoundElsewhere(listing) == listing[scan.file] = scan.entries[scan.file]

\* deliveredElsewhere; a directory that cannot be read is passed over.
CheckElsewhere(d) ==
  /\ scan.at = "look" /\ d \in scan.elsewhere
  /\ LET cache == IF Listed(d) THEN scan.cache ELSE Listings(d) IN
       /\ scan' = IF FoundElsewhere(cache[d]) THEN [Passed(scan.file) EXCEPT !.cache = cache]
                  ELSE [scan EXCEPT !.cache = cache, !.elsewhere = @ \ {d}]
       /\ UNCHANGED <<held, events>>
  /\ UNCHANGED <<otherVars, queue>>

ElsewhereUnread(d) ==
  /\ scan.at = "look" /\ d \in scan.elsewhere /\ ~Listed(d) /\ Event
  /\ scan' = [scan EXCEPT !.elsewhere = @ \ {d}]
  /\ held' = {r \in held : Dir(r) # d}
  /\ UNCHANGED <<otherVars, queue>>

Candidate ==
  [job |-> scan.job, def |-> scan.jobs[scan.job], file |-> scan.file,
   content |-> scan.entries[scan.file],
   state |-> IF scan.file \in Unstorable THEN "failed" ELSE "pending", touched |-> FALSE]

\* Mutant: nothing is looked at again.
NotAgain == FALSE
StopsAgain == Stops(scan.job, scan.file)

\* consider, the second look and the append in one locked section.
Enqueue ==
  /\ scan.at = "look" /\ scan.elsewhere = {}
  /\ queue' = IF StopsAgain THEN queue ELSE queue \cup {Candidate}
  /\ scan' = Passed(scan.file)
  /\ UNCHANGED <<otherVars, held, events>>

JobWalked ==
  /\ scan.at = "walk" /\ Listed(ScanTarget) /\ DOMAIN scan.entries = {}
  /\ EndJob
  /\ UNCHANGED <<otherVars, queue, held, events>>

Scan ==
  \/ ScanDrives \/ ScanJob \/ ListTarget \/ Enqueue \/ JobWalked
  \/ \E f \in Files : Consider(f)
  \/ \E d \in Dirs : CheckElsewhere(d) \/ ElsewhereUnread(d)

----------------------------------------------------------------------------
(* Rows and files.                                                         *)
Becomes(r, state) == queue' = (queue \ {r}) \cup {[r EXCEPT !.state = state, !.touched = TRUE]}
StillHeld == {r \in held \cap queue' : drive'[Dir(r)][r.file] = r.content}

\* takeNextWithRun: a row of a deleted job is not taken.
Dispatch(r) ==
  /\ r.state = "pending" /\ jobs[r.job] # None /\ Becomes(r, "running")
  /\ UNCHANGED <<settingsVars, cloud, drive, scan, held, events>>

MayReplace(r) == r.def \in Overwriting \/ drive[Dir(r)][r.file] \in {None, r.content}

Deliver(r) ==
  /\ r.state = "running" /\ MayReplace(r) /\ Becomes(r, "complete")
  /\ drive' = [drive EXCEPT ![Dir(r)][r.file] = r.content]
  /\ held' = StillHeld
  /\ UNCHANGED <<settingsVars, cloud, scan, events>>

\* A row fails for good, or is left for another attempt.
EndsBadly(r) ==
  /\ r.state = "running"
  /\ \/ ~MayReplace(r) /\ Becomes(r, "failed") /\ UNCHANGED events
     \/ Event /\ (Becomes(r, "failed") \/ Becomes(r, "pending"))
  /\ UNCHANGED <<settingsVars, cloud, drive, scan, held>>

\* Cancel, Retry and ClearFinished.
UserActs(r) ==
  /\ Event
  /\ \/ Open(r) /\ r.state \notin {"failed", "cancelled"} /\ Becomes(r, "cancelled")
     \/ r.state \in {"failed", "cancelled"} /\ Becomes(r, "pending")
     \/ r.state \in {"complete", "failed", "cancelled"} /\ queue' = queue \ {r}
  /\ held' = held \cap queue'
  /\ UNCHANGED <<settingsVars, cloud, drive, scan>>

\* A file is replaced in the cloud, or removed from tdrive.
FilesChange ==
  /\ Event
  /\ \E f \in Files :
       \/ /\ \E c \in Contents \cup {None} : c # cloud[f] /\ cloud' = [cloud EXCEPT ![f] = c]
          /\ UNCHANGED <<drive, held>>
       \/ \E d \in Dirs :
            /\ drive[d][f] # None /\ drive' = [drive EXCEPT ![d][f] = None]
            /\ held' = {r \in held : drive'[Dir(r)][r.file] = r.content}
            /\ UNCHANGED cloud
  /\ UNCHANGED <<settingsVars, queue, scan>>

Next ==
  \/ Settings \/ StartScan \/ Scan \/ FilesChange
  \/ \E r \in queue : Dispatch(r) \/ Deliver(r) \/ EndsBadly(r) \/ UserActs(r)

Spec == Init /\ [][Next]_vars

\* Ticks go on, a scan is started when its interval is over, calls return, and
\* rows are transferred while the schedule is open.
FairSpec ==
  /\ Spec
  /\ WF_vars(TickReads) /\ WF_vars(TickApplies)
  /\ WF_vars(EditWrites \/ EditApplies \/ EditDrops)
  /\ WF_vars(StartScan) /\ WF_vars(Scan)
  /\ WF_vars(\E r \in queue : Dispatch(r))
  /\ WF_vars(\E r \in queue : Deliver(r) \/ EndsBadly(r))

----------------------------------------------------------------------------
\* A scan that began before a job was edited, or beside the user's actions, leaves
\* no row behind that says otherwise (inspectLocked, applySettings): what a scan
\* added and nobody touched is of the job as the engine knows it, and a file has
\* one row that is waiting, running, failed or cancelled.
RowsFollowJobs ==
  \A r \in queue :
    /\ r.state = "pending" /\ ~r.touched => jobs[r.job] = r.def
    /\ \A q \in queue : Open(r) /\ Open(q) /\ Key(r) = Key(q) => r = q

\* A file that was delivered before the walk of its job began, and is still where
\* it was put, is not queued again, though the job was pointed elsewhere since
\* (consider, deliveredElsewhere).  Left out: a directory that could not be read.
Added == {r \in queue' \ queue : ~r.touched}
NotRefetched == [][\A r \in Added : ~ \E h \in held : Key(h) = Key(r)]_vars

\* Every file a job selects comes to tdrive, where the job puts it or where it put
\* it before, unless its row failed or was cancelled or another file has the name:
\* whatever was edited, interrupted or deleted meanwhile (driveIndex: the drive
\* is the index).
Handled(j, f) ==
  LET d == document[j]  present == drive[Target[d]][f] IN
  \/ present = cloud[f] \/ (present # None /\ d \notin Overwriting)
  \/ \E r \in queue : Key(r) = <<j, f, cloud[f]>> /\
       (r.state \in {"failed", "cancelled"} \/ (r.state = "complete" /\ Stored(r)))
FilesArrive == <>[](\A j \in Jobs, f \in Files :
  document[j] # None /\ cloud[f] # None /\ f \in Wanted[document[j]] => Handled(j, f))
=============================================================================
