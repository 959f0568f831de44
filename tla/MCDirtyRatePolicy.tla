-------------------------- MODULE MCDirtyRatePolicy --------------------------
(* Small instances of DirtyRatePolicy for TLC.                             *)
EXTENDS DirtyRatePolicy, TLC
=============================================================================
