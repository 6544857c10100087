----------------------------- MODULE MCSessions -----------------------------
(* A small instance of Sessions: everything in it is interchangeable. *)
EXTENDS Sessions, TLC

MCSymmetry == Permutations(Emails) \cup Permutations(UserIds)
                \cup Permutations(Tokens) \cup Permutations(Requests)
=============================================================================
