----------------------------- MODULE MCListing ------------------------------
(***************************************************************************)
(* An agent who asks for the tickets of someone else, and three rows on    *)
(* pages of two: a full page, a last page with one row, and a row more     *)
(* that may come in while he reads.                                        *)
(***************************************************************************)
EXTENDS Listing

CONSTANTS ann, bob

MCUsers == {ann, bob}
MCRole  == [u \in MCUsers |-> IF u = ann THEN "admin" ELSE "agent"]
MCSymmetry == Permutations(Items)
=============================================================================
