----------------------------- MODULE MCThrottle -----------------------------
(* Throttle for TLC: the levels' default ratios, interchangeable requests  *)
(* and interchangeable dispatching CPUs.                                   *)
EXTENDS Throttle, TLC

MCRatio == [LIGHT |-> 75, MEDIUM |-> 50, HEAVY |-> 25]
Interchangeable == Permutations(Requests) \cup Permutations(Dispatchers)
=============================================================================
