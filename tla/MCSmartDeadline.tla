-------------------------- MODULE MCSmartDeadline --------------------------
(***************************************************************************)
(* Instances of SmartDeadline for TLC.  Requests that may be merged are    *)
(* interchangeable, and the order that ElevatorOrder states of them is as  *)
(* well.                                                                   *)
(***************************************************************************)
EXTENDS SmartDeadline, TLC

CONSTANTS r1, r2, r3

Interchangeable == Permutations(Requests \ Unmergeable)
=============================================================================
