---------------------------- MODULE MCResources ----------------------------
EXTENDS TransferResources

MCSize == <<2, 1, 3>>

\* Closed from midnight until the day is half over.
MCSchedule == [enabled |-> TRUE, start |-> 1, end |-> 0]
=============================================================================
