---------------------------- MODULE FileDelivery ----------------------------
(***************************************************************************)
(* What the transfer of one file promises: the file appears in the drive   *)
(* at once, nothing is left half uploaded when its outcome is told, and    *)
(* "delivered" is told only of a file that is there.  An answer about a    *)
(* job, once lost, leaves the job to the host.                             *)
(***************************************************************************)
VARIABLES job, told, lost

Outcomes == {"delivered", "failed", "cancelled"}

Init == job = "none" /\ told = "working" /\ lost = FALSE

Move ==
  /\ told = "working" /\ told' = told
  /\ lost => lost'
  /\ \/ job = "none" /\ job' = "open"
     \/ job = "open" /\ job' \in {"published", "none"}
     \/ lost'

Tell(outcome) ==
  /\ told = "working" /\ told' = outcome
  /\ outcome = "delivered" => job = "published"
  /\ lost \/ (job \in {"none", "published"} /\ job' = job)
  /\ lost' = lost

Next == Move \/ \E outcome \in Outcomes : Tell(outcome)

Spec == Init /\ [][Next]_<<job, told, lost>>
=============================================================================
