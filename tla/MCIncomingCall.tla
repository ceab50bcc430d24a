--------------------------- MODULE MCIncomingCall ---------------------------
(* Small instances of IncomingCall: the sets are given in the .cfg files. *)
EXTENDS IncomingCall, TLC

ClientSymmetry == Permutations(Clients)
=============================================================================
