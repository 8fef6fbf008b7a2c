---------------------------- MODULE MCCloudScan ----------------------------
(* A small instance of CloudScan for TLC: a job can be pointed at another    *)
(* directory, where it also replaces files.                                  *)
EXTENDS CloudScan, TLC
CONSTANTS here, there, x, y, f

MCTarget == here :> x @@ there :> y
MCWanted == here :> {f} @@ there :> {f}
=============================================================================
