---------------------------- MODULE MCWorkerPool -----------------------------
(***************************************************************************)
(* A reply of each kind, of which one is accepted; tickets opened with the *)
(* default priority or another; an update that sets the category.          *)
(***************************************************************************)
EXTENDS WorkerPool

MCReplies ==
  {[kind |-> k, category |-> "other", priority |-> "low"] :
      k \in {"http_error", "not_json"}}
    \cup {[kind |-> "json", category |-> c, priority |-> "unknown"] :
            c \in {"billing", "unknown"}}
MCPatches == {[category |-> "account", priority |-> None]}
MCOpening == {"medium", "high"}
=============================================================================
