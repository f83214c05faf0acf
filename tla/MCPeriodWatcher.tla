-------------------------- MODULE MCPeriodWatcher --------------------------
(* Instances of PeriodWatcher for TLC: periods of two and of three days.   *)
EXTENDS PeriodWatcher, TLC

CONSTANTS short, long

TwoLengths == short :> 2 @@ long :> 3
=============================================================================
