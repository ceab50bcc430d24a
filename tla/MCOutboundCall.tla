--------------------------- MODULE MCOutboundCall ---------------------------
(***************************************************************************)
(* What the gateway delivers to a phone, in one run of TLC: which says     *)
(* whether this is a call it places or the browser's video on its way to   *)
(* the phone.  The other stays as it began.                                *)
(***************************************************************************)
EXTENDS OutboundCall

CONSTANTS
  None, Readers, Versions, Size, Pictures, Worlds   \* UplinkVideo

VARIABLES
  which,
  world, ses, picture, rd, phone, odd   \* UplinkVideo

Uplink == INSTANCE UplinkVideo

ASSUME UplinkAssumption == Uplink!Given

uplinkVars == <<world, ses, picture, rd, phone, odd>>

CallInit ==
  /\ which \in {"call", "uplink"} /\ Init /\ Uplink!Init
  /\ which = "call" => world = (CHOOSE w \in Worlds : TRUE) /\ ses.sps = None

CallNext ==
  \/ which = "call" /\ Next /\ UNCHANGED <<which, uplinkVars>>
  \/ which = "uplink" /\ Uplink!Next /\ UNCHANGED <<which, vars>>

CallSpec == CallInit /\ [][CallNext]_<<which, vars, uplinkVars>> /\ Fairness

-----------------------------------------------------------------------------

-----------------------------------------------------------------------------
(* The instance TLC runs. *)
MCSize == <<1, 2>>

(* How encoders cut a picture: every NAL unit by itself or cut in three, sets
   aggregated, with the IDR or without, even behind it. *)
One(x) == [nals |-> <<x>>, part |-> "whole"]
Stap(xs) == [nals |-> xs, part |-> "stap"]
Cut(x) == [i \in 1 .. 3 |-> [nals |-> <<x>>, part |-> <<"start", "middle", "end">>[i]]]

Singles == {<<One("sps"), One("pps"), One("idr"), One("idr")>>, <<One("slice"), One("slice")>>}
Fragments == {<<One("sps"), One("pps")>> \o Cut("idr"), Cut("slice")}
Aggregates ==
  {<<Stap(<<"sps", "pps">>)>> \o Cut("idr") \o <<One("idr")>>, <<Stap(<<"sps", "pps", "idr">>), One("idr")>>,
   <<Stap(<<"idr", "sps", "pps">>)>>, <<One("slice"), One("slice")>>}
Plain == {<<One("sps"), One("pps"), One("idr")>>, <<One("slice")>>}
Short == {<<Stap(<<"sps", "pps">>), One("idr")>>, <<One("slice")>>}
MCPictures == Singles \cup Fragments \cup Aggregates \cup Plain \cup Short

(* Every cut, for a phone of either mode; a second call; a second track, after
   the first or while it lasts. *)
World(tracks, pictures, count, calls, mode, overlap) ==
  [tracks |-> tracks, pictures |-> pictures, count |-> count, calls |-> calls, mode |-> mode, overlap |-> overlap]
MCWorlds ==
  {World({"r1"}, Singles \cup Fragments, 3, 1, 0, FALSE), World({"r1"}, Aggregates, 3, 1, 1, FALSE),
   World({"r1"}, Plain, 3, 2, 0, FALSE), World(Readers, Short, 2, 1, 1, FALSE),
   World(Readers, Short, 1, 1, 1, TRUE)}
=============================================================================
