---------------------------- MODULE MCTicketDesk ----------------------------
(***************************************************************************)
(* A small desk for TLC: one administrator and one agent, and the address  *)
(* "Bob" that belongs to no one but is the agent's up to case.             *)
(***************************************************************************)
EXTENDS TicketDesk, TLC

CONSTANTS ann, bob, annMail, bobMail, bobMailUpper

MCUsers    == {ann, bob}
MCRole     == [u \in MCUsers |-> IF u = ann THEN "admin" ELSE "agent"]
MCIsActive == [u \in MCUsers |-> TRUE]
MCEmails   == {annMail, bobMail, bobMailUpper}
MCEmailOf  == [u \in MCUsers |-> IF u = ann THEN annMail ELSE bobMail]
MCLower    == [e \in MCEmails |-> IF e = bobMailUpper THEN bobMail ELSE e]
MCPatches ==
  {[status |-> s, email |-> None] : s \in {"open", "resolved"}}
    \cup {[status |-> None, email |-> e] : e \in MCEmails}

\* Bodies that only move a ticket between active and done
MCStatusPatches == {[status |-> s, email |-> None] : s \in {"open", "closed"}}

\* Handlers, checks and reminders are interchangeable (safety runs only)
MCSymmetry == Permutations(Requests) \cup Permutations(Slots)
                \cup Permutations(Reminders)
=============================================================================
