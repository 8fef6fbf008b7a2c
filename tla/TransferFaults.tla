--------------------------- MODULE TransferFaults ---------------------------
(* What can befall the transfer of one file.                               *)
EXTENDS Naturals

CONSTANT MaxFaults      (* calls that fail, answers that are lost, time-outs *)

ASSUME FaultAssumption == MaxFaults \in Nat

VARIABLES
  faults,
  cancelled             (* the row's context has ended: somebody cancelled it *)

Fault == faults < MaxFaults /\ faults' = faults + 1

\* A call fails, at the cost of a fault or because its context has ended.
FaultOrCancelled == Fault \/ (cancelled /\ UNCHANGED faults)
=============================================================================
