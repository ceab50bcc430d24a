---------------------------- MODULE MCTrunkLease ----------------------------
(* Instances of TrunkLease for TLC. *)
EXTENDS TrunkLease

AllWorlds == {{"register", "unregister"}, {"register", "refresh"}, {"unregister", "refresh"}, {"disable", "refresh"},
              {"register", "faults"}, {"unregister", "faults"}, {"refresh", "downs"}, {"unregister", "downs"}}
=============================================================================
