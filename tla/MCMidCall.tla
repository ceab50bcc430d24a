----------------------------- MODULE MCMidCall -----------------------------
(* Instances of MidCall for TLC. *)
EXTENDS MidCall

AllWorlds == {{"sip"}, {"second"}, {"sip", "overlap"}, {"second", "overlap"}, {"resume"}, {"untimely"}, {"loss"}}
=============================================================================
