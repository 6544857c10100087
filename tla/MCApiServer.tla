----------------------------- MODULE MCApiServer -----------------------------
(* Each route, and each kind of caller on a protected one. *)
EXTENDS ApiServer

MCTraffic == [route : {"health", "auth"}, caller : {"nobody"}]
               \cup [route : {"data"}, caller : Callers]
               \cup [route : {"me", "unknown"}, caller : {"active", "deactivated"}]
=============================================================================
