------------------------- MODULE MCModuleLifecycle -------------------------
(***************************************************************************)
(* Small instances of ModuleLifecycle.                                     *)
(***************************************************************************)
EXTENDS ModuleLifecycle

MCNodes == <<"enable", "rawdata_trace">>

MCProbesOf ==
    [g \in Groups |->
        CASE g = "block" -> <<"rq_insert", "rq_complete">>
          [] g = "f2fs" -> <<"gc_begin">>
          [] g = "psi" -> <<"psi_event">>
          [] g = "pagecache" -> <<"shrinker">>
          [] g = "ufs" -> <<"send">>]
=============================================================================
