------------------------ MODULE MCRequestAccounting ------------------------
(* RequestAccounting for TLC: the requests are interchangeable.            *)
EXTENDS RequestAccounting, TLC

RequestSymmetry == Permutations(Requests)
=============================================================================
