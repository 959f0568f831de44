----------------------------- MODULE MCDirtyRate -----------------------------
(* Small instances of DirtyRate for TLC.                                   *)
EXTENDS DirtyRate, TLC
=============================================================================
