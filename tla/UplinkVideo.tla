---------------------------- MODULE UplinkVideo ----------------------------
(***************************************************************************)
(* The browser's H.264 on its way to the SIP phone.  Every remote video    *)
(* track has a goroutine that reads its packets, puts the fragments of a   *)
(* NAL unit together for a phone of packetization mode 0, caches the       *)
(* parameter sets it sees, decides under the session's lock whether the    *)
(* packet may go and what goes in front of it, and hands the datagrams to  *)
(* a hold of one packet that finds out which packet ends its picture.  An  *)
(* answer says where they go, a new call resets all but the cached sets,   *)
(* and a replaced PeerConnection brings a second track.  The SPS, the PPS  *)
(* and the picture size of an encoder's configuration go by its version.   *)
(***************************************************************************)
EXTENDS Naturals, SequencesExt

CONSTANTS
  Readers,     \* the tracks, each with the goroutine that reads it
  Versions,    \* configurations of the encoder
  Size,        \* the picture size of each
  Pictures,    \* how an encoder cuts a picture into packets
  Worlds,      \* what to consider together: tracks, the pictures of each and how many
               \* (a bound), the calls of the session (a bound), the phone's mode, and
               \* whether a track may begin before the one before it has ended
  None

Sets == {"sps", "pps"}
Nals == Sets \cup {"idr", "slice"}
Parts == {"whole", "stap", "start", "middle", "end"}   \* single NAL unit, STAP-A, FU-A

Fragment(p) == p.part \in {"start", "middle", "end"}
Has(p, nals) == \E i \in DOMAIN p.nals : p.nals[i] \in nals
StartsIDR(p) == Has(p, {"idr"}) /\ p.part \notin {"middle", "end"}

(* What the constants must be. *)
Given ==
  /\ \A c \in Pictures : \A i \in DOMAIN c :
       /\ c[i].part \in Parts /\ c[i].nals # <<>> /\ ToSet(c[i].nals) \subseteq Nals
       /\ c[i].part # "stap" => Len(c[i].nals) = 1
  /\ \A w \in Worlds :
       /\ w.tracks \subseteq Readers /\ w.pictures \subseteq Pictures
       /\ {w.count, w.calls} \subseteq Nat \ {0}
       /\ w.mode \in {0, 1} /\ w.overlap \in BOOLEAN
  /\ None \notin Versions \cup Nat \cup Nals /\ Size \in [Versions -> Nat]

VARIABLES
  world,
  ses,      \* the session, as its lock protects it
  picture,  \* uplinkPicture: the datagram held back, or None
  rd,       \* the readers
  phone,    \* history: what the phone of this call got
  odd       \* history: what PhoneCanDecode excepts

vars == <<world, ses, picture, rd, phone, odd>>

NoInBand == [of |-> None, nals |-> {}]
Fresh(call, sps, pps) ==
  [call |-> call, sps |-> sps, pps |-> pps,           \* CachedSPS, CachedPPS
   size |-> None, sizePending |-> FALSE,              \* uplinkSPSWidth, uplinkPictureSizeIDRPending
   accepted |-> FALSE, last |-> FALSE,                \* uplinkIDRAccepted, LastUplinkKeyframe
   needsIDR |-> FALSE,                                \* mode0NeedsIDR
   injected |-> None, inBand |-> NoInBand,            \* uplinkSPSPPSTimestamp, uplinkInBand...
   ready |-> FALSE, dest |-> FALSE]                   \* mediaForwardReady, AsteriskVideoAddr

NoUnit == [of |-> None, ended |-> FALSE, blocked |-> FALSE, blind |-> FALSE]
Unborn == [at |-> "unborn", n |-> 0, version |-> None, cut |-> <<>>, pos |-> 0, nal |-> None, torn |-> FALSE,
           unit |-> NoUnit, packet |-> None, out |-> <<>>, free |-> <<>>]
NewPhone == [sps |-> None, pps |-> None, size |-> None, of |-> None, got |-> {}, ended |-> FALSE]

TypeOK ==
  /\ world \in Worlds /\ ses.call \in 1 .. world.calls /\ {ses.sps, ses.pps} \subseteq Versions \cup {None}
  /\ \A r \in Readers :
       /\ rd[r].at \in {"unborn", "read", "decide", "send", "flush", "ended"}
       /\ rd[r].n \in 0 .. world.count /\ rd[r].pos \in 0 .. Len(rd[r].cut)
  /\ odd \subseteq {"blind", "stale", "unsized", "crossed"}

Init ==
  /\ world \in Worlds
  /\ \E v \in Versions \cup {None} : ses = Fresh(1, v, v)     \* of the offer, if it names them
  /\ picture = None /\ rd = [r \in Readers |-> Unborn]
  /\ phone = NewPhone /\ odd = {}

Open(s) == s.accepted \/ s.last

-----------------------------------------------------------------------------
(* The track: pictures in packets of which any may be lost.  The last packet of
   a picture has the marker; a configuration begins with an IDR. *)

Encode(r) ==
  /\ rd[r].at = "read" /\ rd[r].n < world.count
  /\ \E c \in world.pictures, v \in Versions :
       /\ (\A i \in DOMAIN c : ~Has(c[i], {"idr"})) => v = rd[r].version
       /\ rd' = [rd EXCEPT ![r].n = @ + 1, ![r].version = v, ![r].cut = c, ![r].pos = 0, ![r].nal = None]
  /\ UNCHANGED <<world, ses, picture, phone, odd>>

Stamp(r) == <<r, rd[r].n>>                      \* SSRC and timestamp of the picture at hand
Marker(r) == rd[r].pos = Len(rd[r].cut)         \* of the packet at hand

-----------------------------------------------------------------------------
(* The caches. *)

(* New bytes void the claim that this access unit has its sets. *)
Cached(s, nal, v) ==
  CASE nal = "sps" /\ s.sps # v ->
         [s EXCEPT !.sps = v, !.inBand.nals = @ \ {"sps"}, !.injected = None]
    [] nal = "pps" /\ s.pps # v ->
         [s EXCEPT !.pps = v, !.inBand.nals = @ \ {"pps"}, !.injected = None]
    [] OTHER -> s

AllCached(s, nals, v) == FoldLeft(LAMBDA t, nal : Cached(t, nal, v), s, nals)

(* rejectUplinkPictureSizeChangeLocked, which accepts: once pictures flow, those
   of a new size wait for their IDR. *)
Sized(s, p, v) ==
  IF Has(p, {"sps"}) /\ s.size # Size[v]
  THEN [s EXCEPT !.size = Size[v], !.sizePending = @ \/ (s.size # None /\ Open(s))]
  ELSE s

(* noteUplinkInBandParameterSetLocked *)
Noted(s, of, nals) ==
  [s EXCEPT !.inBand = [of |-> of, nals |-> (IF @.of = of THEN @.nals ELSE {}) \cup nals]]

-----------------------------------------------------------------------------
(* Reading a packet, up to the caches. *)

(* NoteMode0Drop: nothing more before an IDR. *)
Broken(s) == [s EXCEPT !.needsIDR = TRUE]

Passes(r, i, p) ==
  /\ rd' = [rd EXCEPT ![r].at = "decide", ![r].pos = i, ![r].nal = None, ![r].packet = p]
  /\ ses' = IF p.part = "whole" THEN Cached(Sized(ses, p, rd[r].version), p.nals[1], rd[r].version)
            ELSE ses

(* h264Mode0Reassembler.push of a fragment: a gap drops the NAL unit. *)
Reassembles(r, i, p) ==
  LET follows == rd[r].nal # None /\ rd[r].nal = i - 1 IN
  \/ /\ p.part = "start" \/ (p.part = "middle" /\ follows)
     /\ rd' = [rd EXCEPT ![r].pos = i, ![r].nal = i] /\ UNCHANGED ses
  \/ p.part = "end" /\ follows /\ Passes(r, i, [p EXCEPT !.part = "whole"])
  \/ /\ p.part # "start" /\ ~follows
     /\ rd' = [rd EXCEPT ![r].pos = i, ![r].nal = None, ![r].torn = TRUE]
     /\ ses' = Broken(ses)

Read(r) ==
  /\ rd[r].at = "read"
  /\ \E i \in rd[r].pos + 1 .. Len(rd[r].cut) :
       IF world.mode = 0 /\ Fragment(rd[r].cut[i]) THEN Reassembles(r, i, rd[r].cut[i])
       ELSE Passes(r, i, rd[r].cut[i])
  /\ UNCHANGED <<world, picture, phone, odd>>

-----------------------------------------------------------------------------
(* The decision, in one critical section: s is the session, u the access unit. *)

Continues(u, of) == u.of = of /\ ~u.ended

(* uplinkH264AU.beginLocked *)
BeginSession(s, u, of) == IF Continues(u, of) THEN s ELSE [s EXCEPT !.injected = None, !.inBand = NoInBand]
BeginUnit(u, of, marker) ==
  IF Continues(u, of) THEN [u EXCEPT !.ended = marker] ELSE [NoUnit EXCEPT !.of = of, !.ended = marker]

(* uplinkH264AU.holdLocked: an IDR without sets blocks the rest of its unit. *)
Blocks(s, u, p) == u.blocked \/ (StartsIDR(p) /\ None \in {s.sps, s.pps})

(* holdUplinkForPictureSizeLocked, holdUplinkForMode0Locked, holdUplinkVideoUntilIDR *)
Waits(s, p) == ~StartsIDR(p) /\ (s.sizePending \/ s.needsIDR \/ ~(Open(s) \/ Has(p, Sets)))

(* Sets of a blocked unit go on, as packets of their own. *)
Goes(s, u, p) ==
  s.ready /\ ~Waits(s, p) /\ (Blocks(s, u, p) => Has(p, Sets) /\ p.part = "whole")

(* uplinkKeyframeParameterSetCopiesLocked: once in an access unit. *)
Injects(s, of, p) == StartsIDR(p) /\ (p.part = "stap" \/ s.injected # of)

(* What an IDR needs in front of it; a PPS is repeated after a missing SPS. *)
Missing(s, of) ==
  LET has == IF s.inBand.of = of THEN s.inBand.nals ELSE {} IN
  IF "sps" \in has THEN (IF "pps" \in has THEN <<>> ELSE <<"pps">>) ELSE <<"sps", "pps">>

(* uplinkIDRParameterSetPacketsLocked, prefixSTAPAIDRLocked: a STAP-A goes as
   single NAL units, its own sets replaced by what the unit misses. *)
Added(s, of, p) == IF Injects(s, of, p) THEN Missing(s, of) ELSE <<>>
Own(p) == SelectSeq(p.nals, LAMBDA x : StartsIDR(p) => x \notin Sets)


(* noteUplinkIDRAcceptedLocked, recordUplinkParameterSetIfForwarded: an IDR ends
   what waits for it, whether or not there is somebody to get it. *)
Decided(s, of, p) ==
  LET t == IF StartsIDR(p)
           THEN [s EXCEPT !.sizePending = FALSE, !.needsIDR = FALSE, !.accepted = TRUE, !.injected = of]
           ELSE s
      sent == IF ~StartsIDR(p) THEN ToSet(p.nals) \cap Sets ELSE IF Injects(s, of, p) THEN Sets ELSE {}
  IN  IF sent # {} /\ (s.dest \/ p.part = "stap") THEN Noted(t, of, sent) ELSE t

Datagrams(r, s, u, p) ==
  LET added == Added(s, u.of, p)
      nals == added \o Own(p)
      Version(i) == IF i > Len(added) THEN rd[r].version ELSE IF nals[i] = "sps" THEN s.sps ELSE s.pps IN
  [i \in DOMAIN nals |->
    [nal |-> nals[i], part |-> p.part, of |-> u.of, call |-> s.call, version |-> Version(i),
     marker |-> i = Len(nals) /\ Marker(r),
     known |-> s.sps = rd[r].version /\ s.pps = rd[r].version /\ ~u.blind,   \* history
     sized |-> s.size = Size[rd[r].version], torn |-> rd[r].torn /\ ~StartsIDR(p)]]   \* history

Decide(r) ==
  LET p == rd[r].packet
      of == Stamp(r)
      begun == Sized(BeginSession(ses, rd[r].unit, of), p, rd[r].version)
      s == IF p.part = "stap" THEN AllCached(begun, p.nals, rd[r].version) ELSE begun
      unit == BeginUnit(rd[r].unit, of, Marker(r))
      goes == Goes(s, unit, p)
      alone == goes /\ ~s.dest /\ (StartsIDR(p) \/ (Has(p, Sets) /\ p.part = "stap"))
      u == [unit EXCEPT !.blocked = IF s.ready THEN Blocks(s, unit, p) ELSE @, !.blind = @ \/ alone]
      out == IF goes /\ s.dest THEN Datagrams(r, s, u, p) ELSE <<>> IN
  /\ rd[r].at = "decide"
  /\ ses' = IF goes THEN Decided(s, of, p) ELSE s
  /\ rd' = [rd EXCEPT ![r].at = IF out = <<>> THEN "read" ELSE "send",
                      ![r].packet = None, ![r].unit = u, ![r].out = out,
                      ![r].torn = @ /\ ~(goes /\ StartsIDR(p))]
  /\ odd' = IF alone /\ StartsIDR(p) THEN odd \cup {"blind"} ELSE odd
  /\ UNCHANGED <<world, picture, phone>>

-----------------------------------------------------------------------------
(* Sending: the packet held back goes when the next one shows whether it was the
   last of its picture. *)

(* sendUplinkVideo *)
Send(r) ==
  LET d == Head(rd[r].out)
      prev == IF picture = None THEN <<>> ELSE <<[picture EXCEPT !.marker = picture.of # d.of]>>
      free == prev \o (IF d.marker THEN <<d>> ELSE <<>>) IN
  /\ rd[r].at = "send" /\ rd[r].free = <<>>
  /\ picture' = IF d.marker THEN None ELSE d
  /\ rd' = [rd EXCEPT ![r].out = Tail(@), ![r].free = free,
                      ![r].at = IF Len(rd[r].out) = 1 /\ free = <<>> THEN "read" ELSE "send"]
  /\ UNCHANGED <<world, ses, phone, odd>>

Starts(d, nals) == d.nal \in nals /\ d.part \notin {"middle", "end"}

Gets(d) ==
  [phone EXCEPT !.sps = IF d.nal = "sps" THEN d.version ELSE @,
                !.pps = IF d.nal = "pps" THEN d.version ELSE @,
                !.size = IF Starts(d, {"idr"}) THEN Size[d.version] ELSE @,
                !.got = (IF phone.of = d.of THEN @ ELSE {}) \cup (IF Starts(d, Nals) THEN {d.nal} ELSE {}),
                !.of = d.of, !.ended = d.marker]

(* deliverUplinkVideo: written to where it was bound for, then RecordUplinkKeyframe. *)
Deliver(r) ==
  LET d == Head(rd[r].free)
      mine == d.call = ses.call
      left == [rd[r] EXCEPT !.free = Tail(@)] IN
  /\ rd[r].free # <<>>
  /\ rd' = [rd EXCEPT ![r] = [left EXCEPT !.at =
              IF left.free = <<>> /\ left.out = <<>> THEN (IF @ = "flush" THEN "ended" ELSE "read") ELSE @]]
  /\ ses' = [ses EXCEPT !.last = @ \/ d.nal = "idr"]
  /\ phone' = IF mine THEN Gets(d) ELSE phone
  /\ odd' = CASE mine /\ Starts(d, {"idr"}) /\ d.sized -> odd \cap {"crossed"}
              [] mine /\ Starts(d, {"idr"}) /\ ~d.sized -> odd \cup {"unsized"}
              [] ~mine /\ d.nal = "idr" -> odd \cup {"stale"}
              [] OTHER -> odd
  /\ UNCHANGED <<world, picture>>

(* The track is gone: flushUplinkPicture ends whatever picture is held. *)
TrackEnds(r) ==
  /\ rd[r].at = "read"
  /\ picture' = None
  /\ rd' = [rd EXCEPT ![r] = [Unborn EXCEPT
              !.at = IF picture = None THEN "ended" ELSE "flush",
              !.free = IF picture = None THEN <<>> ELSE <<[picture EXCEPT !.marker = TRUE]>>]]
  /\ UNCHANGED <<world, ses, phone, odd>>

-----------------------------------------------------------------------------
(* The calls and the tracks. *)

Alive(r) == rd[r].at \notin {"unborn", "ended"}

(* OnTrack *)
TrackBegins(r) ==
  /\ r \in world.tracks /\ rd[r].at = "unborn"
  /\ world.overlap \/ \A q \in Readers : ~Alive(q)
  /\ rd' = [rd EXCEPT ![r].at = "read"]
  /\ odd' = odd \cup (IF \E q \in Readers : Alive(q) THEN {"crossed"} ELSE {})
  /\ UNCHANGED <<world, ses, picture, phone>>

(* RenegotiatePeerConnection caches the sets of the offer for the track to come. *)
Offer ==
  /\ \E r \in world.tracks : rd[r].at = "unborn"
  /\ \E r \in world.tracks : rd[r].at # "unborn"
  /\ \E v \in Versions : ses' = [ses EXCEPT !.sps = v, !.pps = v]
  /\ UNCHANGED <<world, picture, rd, phone, odd>>

(* startRTPListenerForSession, and where the answer or an early packet says to go. *)
MarkReady ==
  /\ ~ses.ready /\ ses' = [ses EXCEPT !.ready = TRUE]
  /\ UNCHANGED <<world, picture, rd, phone, odd>>
SetEndpoint ==
  /\ ses.ready /\ ~ses.dest /\ ses' = [ses EXCEPT !.dest = TRUE]
  /\ UNCHANGED <<world, picture, rd, phone, odd>>

(* ResetMediaState, at the beginning of the next call. *)
NewCall ==
  /\ ses.ready /\ ses.call < world.calls
  /\ ses' = Fresh(ses.call + 1, ses.sps, ses.pps)
  /\ picture' = None /\ phone' = NewPhone
  /\ odd' = odd \cap {"crossed"}
  /\ UNCHANGED <<world, rd>>

Next ==
  \/ \E r \in Readers : TrackBegins(r) \/ Encode(r) \/ Read(r) \/ Decide(r) \/ Send(r) \/ Deliver(r) \/ TrackEnds(r)
  \/ Offer \/ MarkReady \/ SetEndpoint \/ NewCall

Spec == Init /\ [][Next]_vars

-----------------------------------------------------------------------------
(* The phone has what it needs for what it gets, however packets get lost, the
   encoder changes its configuration, offers bring sets of their own, calls
   follow each other and the destination becomes known late:
   an IDR comes behind the SPS and the PPS of its configuration, if these are
   the ones the gateway has cached; *)
HasItsSets(d) ==
  Starts(d, {"idr"}) /\ d.known => phone.sps = d.version /\ phone.pps = d.version

(* within a picture the sets come first, and none of them twice; *)
SetsFirst(d) ==
  d.nal \in Sets /\ phone.of = d.of =>
    phone.got \cap {"idr", "slice"} = {} /\ (d.nal = "sps" => "sps" \notin phone.got)

(* a picture that is no IDR comes after an IDR, and after one of its size if the
   gateway knows its size, and after the last fragmented NAL unit that was lost
   to a phone of mode 0; *)
AfterItsIDR(d) ==
  Starts(d, {"slice"}) => phone.size # None /\ (d.sized => phone.size = Size[d.version]) /\ ~d.torn

(* and the last datagram of a picture, and no other, has the marker. *)
WellMarked(d) == phone.of # None => (phone.ended <=> phone.of # d.of)

(* All of it is about one track at a time.  AfterItsIDR excepts the time until
   the next IDR of a known size after an IDR taken while there was no SIP
   endpoint ("blind"), after an IDR taken with no size known ("unsized"), and
   after an old call's IDR that is written in the new one ("stale"). *)
Decodable(d) ==
  /\ "crossed" \notin odd => HasItsSets(d) /\ SetsFirst(d) /\ WellMarked(d)
  /\ odd = {} => AfterItsIDR(d)

Delivered(r) == rd[r].free # <<>> /\ rd'[r].free = Tail(rd[r].free)
=============================================================================
