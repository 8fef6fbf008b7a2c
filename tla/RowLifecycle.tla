----------------------------- MODULE RowLifecycle -----------------------------
(***************************************************************************)
(* What the queue promises about one row, whoever acts on it: which states *)
(* follow which, and which of those steps need the row to be busy (a       *)
(* transfer goroutine serves it) or free.                                  *)
(***************************************************************************)
CONSTANT Items
VARIABLES state, busy
vars == <<state, busy>>

Become(S, s) == state' = [i \in Items |-> IF i \in S THEN s ELSE state[i]]

Init == /\ state \in [Items -> {"new", "pending", "failed", "cancelled"}]
        /\ busy = {}

\* A scan appends a row.
Appear(i) == /\ state[i] = "new"
             /\ \E s \in {"pending", "failed"} : Become({i}, s)
             /\ UNCHANGED busy

\* One goroutine takes a free, waiting row.
Claim(i) == /\ state[i] = "pending" /\ i \notin busy
            /\ Become({i}, "running")
            /\ busy' = busy \cup {i}

\* It ends the attempt: only a running row gets an outcome.
EndAttempt(i) == /\ state[i] = "running" /\ i \in busy
                 /\ \E s \in {"pending", "failed", "complete"} : Become({i}, s)
                 /\ UNCHANGED busy

\* It takes back a completion it could not save.
RollBack(i) == /\ state[i] = "complete" /\ i \in busy
               /\ Become({i}, "running")
               /\ UNCHANGED busy

\* It lets go of a row that has an outcome.
Leave(i) == /\ i \in busy /\ state[i] # "running"
            /\ busy' = busy \ {i}
            /\ UNCHANGED state

\* Anything but a complete row can be cancelled, busy or not.
Cancel(S) == /\ \A i \in S : state[i] \notin {"new", "complete"}
             /\ Become(S, "cancelled")
             /\ UNCHANGED busy

\* Only a free row is reopened.
Reopen(S) == /\ \A i \in S : state[i] \in {"pending", "failed", "cancelled"}
                             /\ i \notin busy
             /\ Become(S, "pending")
             /\ UNCHANGED busy

Next == \/ \E i \in Items : \/ Appear(i) \/ Claim(i) \/ EndAttempt(i)
                            \/ RollBack(i) \/ Leave(i)
        \/ \E S \in SUBSET Items : Cancel(S) \/ Reopen(S)

Spec == Init /\ [][Next]_vars
=============================================================================
