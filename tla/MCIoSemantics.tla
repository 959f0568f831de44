---------------------------- MODULE MCIoSemantics ----------------------------
(***************************************************************************)
(* The parts of io_semantics.c, and the page-cache demonstration that asks *)
(* its hot-inode table, on small instances.  The parts are called one      *)
(* after the other by the same tracepoint handlers, but each keeps its     *)
(* state under a lock of its own and reads nothing of another's: one run   *)
(* checks all of them, and part says which one it is that runs.            *)
(***************************************************************************)
EXTENDS RequestRecords, UidWindows, WindowStats, DeviceUtil, HotInodes, PageBudget

VARIABLE part  \* the part that takes the steps of this behaviour

Init ==
  /\ part \in {"records", "uids", "stats", "util", "hot", "budget"}
  /\ RecordsInit
  /\ part # "records" => may = CHOOSE some \in Environments : TRUE
  /\ UidInit /\ StatsInit /\ UtilInit /\ HotInit /\ BudgetInit

Only(p) ==
  /\ part = p /\ UNCHANGED part
  /\ p # "records" => UNCHANGED recordVars
  /\ p # "uids" => UNCHANGED uidVars
  /\ p # "stats" => UNCHANGED statsVars
  /\ p # "util" => UNCHANGED utilVars
  /\ p # "hot" => UNCHANGED hotVars
  /\ p # "budget" => UNCHANGED budgetVars

Next ==
  \/ Only("records") /\ RecordsNext
  \/ Only("uids") /\ UidNext
  \/ Only("stats") /\ StatsNext
  \/ Only("util") /\ UtilNext
  \/ Only("hot") /\ HotNext
  \/ Only("budget") /\ BudgetNext

Spec == Init /\ [][Next]_<<part, recordVars, uidVars, statsVars, utilVars, hotVars, budgetVars>>
=============================================================================
