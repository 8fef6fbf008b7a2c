---------------------------- MODULE TransferRows ----------------------------
(* The queue rows that ask for quota, slots and staging room: their order in *)
(* Engine.queue and their sizes.                                             *)
EXTENDS Integers, FiniteSets, FiniteSetsExt

CONSTANTS
  Rows,         (* number of rows; row 1 is the first of Engine.queue        *)
  Size          (* Item.Size of each row                                     *)

Row == 1..Rows

ASSUME RowsAssumption == Rows \in Nat \ {0} /\ Size \in [Row -> Nat]

\* The bytes of a set of rows, as a table.
Weights == [S \in SUBSET Row |-> MapThenSumSet(LAMBDA r : Size[r], S)]
Weight(S) == Weights[S]

\* The rows fit below a limit, or are one file that alone exceeds it: empty files
\* always come along.
WithinLimit(S, limit) ==
  Weight(S) <= limit \/ \A r, s \in S : Size[r] > 0 /\ Size[s] > 0 => r = s
=============================================================================
