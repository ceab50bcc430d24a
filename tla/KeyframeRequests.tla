------------------------- MODULE KeyframeRequests -------------------------
(***************************************************************************)
(* How the gateway asks the browser for key frames (IDR pictures) of the   *)
(* video it forwards to the SIP side, in one call                          *)
(* (internal/session/proactive_browser_pli.go, keyframe.go,                *)
(* uplink_keyframe_gate.go, switch_feedback.go, internal/sip/rtp.go and    *)
(* info.go).  Several sources ask: the SIP side itself, by INFO            *)
(* picture_fast_update (a VFU) and by RTCP PLI or FIR; a re-INVITE; the    *)
(* agent's page after it changes its picture; an "@switch"; the mode-0     *)
(* reassembler after a frame it cannot forward; and the proactive loop.    *)
(* They share clocks and throttles under the session's mutex, and several  *)
(* of them leave a goroutine with a timer behind.                          *)
(*                                                                         *)
(* Time is counted in units; an event takes one, so that no two events     *)
(* have one stamp and the code's comparisons of stamps keep their meaning. *)
(* A goroutine whose timer is due runs within Lag units.  The numbers of   *)
(* the code (250 ms, 350, 500, 800, 1 s, 1.5, 2, 10) keep their order.     *)
(* A picture of the browser goes out in slices, in order; the answer to a  *)
(* request is one at any time, or none.                                    *)
(***************************************************************************)
EXTENDS Integers, FiniteSets, Sequences

CONSTANTS
    Debounce,   \* SIPInfoFIRDebounce, 250 ms
    Gap,        \* BrowserIDRRequestMinGap, 500 ms
    PliMin,     \* webrtcPLIMinInterval, 400 ms
    Coalesce,   \* SIPKeyframePLICoalesce and webrtcPLIOverallMinInterval, 1 s
    SipMin,     \* sipOriginatedBrowserKeyframeMinInterval, 2 s
    Initial,    \* ProactiveBrowserPLIInitialInterval, 2 s
    Safety,     \* ProactiveBrowserPLISafetyInterval, 10 s
    Schedule,   \* SwitchKeyframePLISchedule: when a burst asks, from its start
    RetryCap,   \* SIPInfoFIRRetryCap
    Lag,        \* how late a goroutine may run
    Calm,       \* when the last event may come
    Horizon,    \* the end of the time looked at
    Worlds      \* how many events of each kind there may be

Never == -1000
Kinds == {"vfu", "rtcp", "reinvite", "page", "notice", "drop", "picture", "slice"}

VARIABLES
    now, left,      \* the time; the events of each kind still to come
    clk,            \* the session's clocks:
                    \*   slice  LastUplinkKeyframe     first  uplinkVideoLastIDR
                    \*   req    lastBrowserIDRRequest
                    \*   pli    LastWebRTCPLISent      fir    LastWebRTCFIRSent
                    \*   info   sipInfoFIRAt           sip    sipKeyframeRequestAt
                    \*   epoch  switchEpochAt          mode0  mode0PLIAt
                    \*   kick   switchUplinkKeyframeKickAt
    inFlight,       \* uplinkIDRInFlight
    ts,             \* uplinkVideoLastIDRTimestamp
    pend,           \* switchKeyframeIDRPending
    free,           \* postSwitchSIPKeyframePending
    held,           \* mode0NeedsIDR
    burstGen, bursts,               \* switchKeyframeBurstGen and the bursts
    retryGen, retryActive, retries, \* sipInfoFIRRetryGen, -Active, the retries
    sends,          \* requests decided and not yet written, each with its time
    wake, sleep,    \* when proactivePLIWake was signalled, Never if it was not;
                    \* when the proactive loop's timer fires
    pic,            \* ghost: the picture forwarded last: when its first slice went
                    \* out, whether more of it is to come
    need,           \* ghost: since when a SIP request waits for an IDR slice or
                    \* a request to the browser, Never if none waits
    vfu             \* ghost: the last VFU not debounced: when, and whether a
                    \* request to the browser followed it
clocks == <<clk, inFlight, ts, pend, free, held>>
gens == <<burstGen, bursts, retryGen, retryActive, retries>>
vars == <<now, left, clocks, gens, sends, wake, sleep, pic, need, vfu>>

NoClock == [c \in {"slice", "first", "req", "pli", "fir", "info", "sip", "epoch", "mode0", "kick"} |-> Never]
Init ==
    /\ now = 0
    /\ left \in Worlds
    /\ clk = NoClock
    /\ inFlight = FALSE /\ ts = 0 /\ pend = FALSE /\ free = FALSE /\ held = FALSE
    /\ burstGen = 0 /\ bursts = {}
    /\ retryGen = 0 /\ retryActive = FALSE /\ retries = {}
    /\ sends = {}
    /\ wake = Never /\ sleep = 0
    /\ pic = [at |-> Never, open |-> FALSE]
    /\ need = Never
    /\ vfu = [at |-> Never, asked |-> FALSE]

Within(c, d) == now - clk[c] < d        \* stamped, and less than d ago
Set(c) == c # Never
Latest(a, b) == IF a > b THEN a ELSE b

(* The timers, and the rule that no goroutine is left waiting too long.    *)
Dues == {b.at : b \in bursts} \cup {r.at : r \in retries} \cup {s.at : s \in sends}
            \cup {sleep} \cup ({wake} \ {Never})
Prompt == \A d \in Dues : now - d < Lag
Event(k) == /\ now <= Calm /\ Prompt
            /\ left[k] > 0
            /\ left' = [left EXCEPT ![k] = @ - 1]
            /\ now' = now + 1

Tick == /\ now < Horizon
        /\ Prompt
        /\ now' = now + 1
        /\ UNCHANGED <<left, clocks, gens, sends, wake, sleep, pic, need, vfu>>

(* A request written to the browser serves whatever waits for one.         *)
Asked == /\ need' = Never
         /\ vfu' = [vfu EXCEPT !.asked = TRUE]
NotAsked == UNCHANGED <<need, vfu>>

-----------------------------------------------------------------------------
(* What is written to the browser.  The gate every noted request but a     *)
(* switch's passes looks at the noted requests only, not at those written  *)
(* for a kick or for RTCP.                                                 *)
Coalesced == Within("req", Gap)
SendImmediate ==
    IF Coalesced THEN UNCHANGED clk /\ NotAsked
                 ELSE clk' = [clk EXCEPT !.req = now, !.pli = now] /\ Asked
SendSwitchPLI == clk' = [clk EXCEPT !.req = now, !.pli = now] /\ Asked
SendProactive ==
    CASE Coalesced -> UNCHANGED clk /\ NotAsked
      [] ~Coalesced /\ Within("pli", Coalesce) -> clk' = [clk EXCEPT !.req = now] /\ NotAsked
      [] OTHER -> clk' = [clk EXCEPT !.req = now, !.pli = now] /\ Asked

(* The goroutine that sends once after its caller has let go of the mutex. *)
Send(s) ==
    /\ s \in sends
    /\ sends' = sends \ {s}
    /\ SendImmediate
    /\ UNCHANGED <<now, left, inFlight, ts, pend, free, held, gens, wake, sleep, pic>>
Later(kind) == sends' = sends \cup {[kind |-> kind, at |-> now]}

(* What the SIP side asks for waits for an IDR under way, and for a request *)
(* just made.                                                              *)
SipRefused == inFlight \/ Within("req", Coalesce)
DeferWait == CASE inFlight -> 1
               [] OTHER -> clk.req + Coalesce - now

(* A VFU.  With the last IDR's first slice less than Gap ago the browser   *)
(* would ignore a request, so it is left to a retry, if none runs.         *)
Vfu ==
    /\ Event("vfu")
    /\ IF Within("info", Debounce)
       THEN UNCHANGED <<clocks, gens, sends, wake, need, vfu>>
       ELSE LET early == Within("first", Gap)
                defer == early \/ SipRefused
            IN /\ clk' = [clk EXCEPT !.info = now, !.sip = now]
               /\ pend' = TRUE
               /\ wake' = Latest(wake, now)
               /\ need' = IF Set(need) THEN need ELSE now
               /\ vfu' = [at |-> now, asked |-> FALSE]
               /\ IF defer THEN UNCHANGED sends ELSE Later("sip_info_fir")
               /\ IF defer /\ ~retryActive
                  THEN /\ retryGen' = retryGen + 1
                       /\ retryActive' = TRUE
                       /\ retries' = retries \cup
                             {[gen |-> retryGen + 1, for |-> now, sent |-> 0,
                               at |-> now + (IF early THEN Gap - (now - clk.first) ELSE DeferWait)]}
                  ELSE UNCHANGED <<retryGen, retryActive, retries>>
               /\ UNCHANGED <<inFlight, ts, free, held, burstGen, bursts>>
    /\ UNCHANGED <<sleep, pic>>

(* A retry runs: it gives up when an IDR started after its VFU, or when    *)
(* nothing is pending any more; it waits while an IDR is under way.        *)
RetryAnswered(r) == (Set(clk.first) /\ clk.first >= r.for) \/ ~pend
Retry(r) ==
    /\ r \in retries /\ now >= r.at
    /\ CASE retryGen # r.gen ->
              retries' = retries \ {r} /\ UNCHANGED <<retryActive, sends>>
         [] retryGen = r.gen /\ (RetryAnswered(r) \/ r.sent = RetryCap) ->
              retries' = retries \ {r} /\ retryActive' = FALSE /\ UNCHANGED sends
         [] OTHER ->
              /\ retries' = (retries \ {r}) \cup
                    {IF SipRefused THEN [r EXCEPT !.at = now + DeferWait]
                                   ELSE [r EXCEPT !.at = now + Coalesce, !.sent = @ + 1]}
              /\ IF SipRefused THEN UNCHANGED sends ELSE Later("sip_info_fir_retry")
              /\ UNCHANGED retryActive
    /\ UNCHANGED <<now, left, clocks, burstGen, bursts, retryGen, wake, sleep, pic, need, vfu>>

(* PLI or FIR by RTCP.  The first after a switch is passed on; a later one *)
(* not while an IDR is under way, nor SipMin after an IDR or a request.    *)
SipAllowed == free \/ ~(inFlight \/ Within("slice", SipMin) \/ Within("pli", SipMin) \/ Within("fir", SipMin))
Rtcp ==
    /\ Event("rtcp")
    /\ free' = FALSE
    /\ IF SipAllowed /\ ~Within("pli", PliMin)
       THEN clk' = [clk EXCEPT !.sip = now, !.pli = now] /\ Asked
       ELSE /\ clk' = [clk EXCEPT !.sip = now]
            /\ need' = IF Set(need) THEN need ELSE now
            /\ UNCHANGED vfu
    /\ UNCHANGED <<inFlight, ts, pend, held, gens, sends, wake, sleep, pic>>

Reinvite ==
    /\ Event("reinvite")
    /\ pend' = TRUE
    /\ wake' = Latest(wake, now)
    /\ Later("sip_reinvite")
    /\ UNCHANGED <<clk, inFlight, ts, free, held, gens, sleep, pic, need, vfu>>

(* The agent's page replaced its picture: a burst of requests.             *)
PageSwitch ==
    /\ Event("page")
    /\ clk' = [clk EXCEPT !.epoch = now]
    /\ pend' = TRUE
    /\ burstGen' = burstGen + 1
    /\ bursts' = bursts \cup {[gen |-> burstGen + 1, start |-> now, i |-> 1, at |-> now]}
    /\ wake' = Latest(wake, now)
    /\ UNCHANGED <<inFlight, ts, free, held, retryGen, retryActive, retries, sends, sleep, pic, need, vfu>>

EpochSatisfied == Set(clk.epoch) /\ Set(clk.first) /\ clk.first >= clk.epoch
(* Mutant: any slice after the switch ends the burst, an old picture's too. *)
BurstStops_AnySlice(b) == burstGen # b.gen \/ (Set(clk.slice) /\ clk.slice >= clk.epoch) \/ ~pend
BurstStops(b) == burstGen # b.gen \/ EpochSatisfied \/ ~pend
BurstAsks(b) ==
    /\ b \in bursts /\ now >= b.at
    /\ IF BurstStops(b)
       THEN bursts' = bursts \ {b} /\ UNCHANGED clk /\ NotAsked
       ELSE /\ bursts' = (bursts \ {b}) \cup
                 (IF b.i = Len(Schedule) THEN {}
                  ELSE {[b EXCEPT !.i = @ + 1, !.at = b.start + Schedule[b.i + 1]]})
            /\ SendSwitchPLI
    /\ UNCHANGED <<now, left, inFlight, ts, pend, free, held, burstGen, retryGen, retryActive, retries,
                   sends, wake, sleep, pic>>

(* "@switch", or a switch seen in the stream: FIR and PLI at once, unless  *)
(* one was sent a moment ago.                                              *)
Notice ==
    /\ Event("notice")
    /\ IF Within("kick", 1)
       THEN UNCHANGED <<clk, free>> /\ NotAsked
       ELSE /\ clk' = [clk EXCEPT !.kick = now, !.fir = now, !.pli = IF Within("pli", Coalesce) THEN @ ELSE now]
            /\ free' = TRUE
            /\ Asked
    /\ UNCHANGED <<inFlight, ts, pend, held, gens, sends, wake, sleep, pic>>

(* A frame that packetization mode 0 cannot carry: what follows is held    *)
(* until the next IDR, and one request is sent.                            *)
Mode0Retry == 4
NoteMode0Drop ==
    /\ Event("drop")
    /\ held' = TRUE
    /\ IF Within("mode0", Mode0Retry) THEN UNCHANGED <<clk, sends>>
       ELSE clk' = [clk EXCEPT !.mode0 = now] /\ Later("mode0_drop")
    /\ UNCHANGED <<inFlight, ts, pend, free, gens, wake, sleep, pic, need, vfu>>
-----------------------------------------------------------------------------
(* A slice of an IDR goes out to the SIP side.                             *)
(* Mutant: any slice satisfies a switch. *)
Observe_AnySlice(t, marker) ==
    /\ clk' = [clk EXCEPT !.slice = now,
                          !.first = IF t # ts THEN now ELSE @,
                          !.epoch = IF pend THEN Never ELSE @,
                          !.mode0 = IF held THEN Never ELSE @]
    /\ inFlight' = ~marker
    /\ ts' = t
    /\ pend' = FALSE
    /\ burstGen' = IF pend /\ Set(clk.epoch) THEN burstGen + 1 ELSE burstGen
    /\ held' = FALSE
    /\ need' = Never
    /\ UNCHANGED <<free, bursts, retryGen, retryActive, retries, sends, wake, sleep, vfu>>
Observe(t, marker) ==
    LET new == t # ts
        satisfies == IF Set(clk.epoch) THEN new ELSE TRUE
    IN /\ clk' = [clk EXCEPT !.slice = now,
                             !.first = IF new THEN now ELSE @,
                             !.epoch = IF pend /\ satisfies THEN Never ELSE @,
                             !.mode0 = IF held THEN Never ELSE @]
       /\ inFlight' = ~marker
       /\ ts' = t
       /\ pend' = (pend /\ ~satisfies)
       /\ burstGen' = IF pend /\ satisfies /\ Set(clk.epoch) THEN burstGen + 1 ELSE burstGen
       /\ held' = FALSE
       /\ need' = Never
       /\ UNCHANGED <<free, bursts, retryGen, retryActive, retries, sends, wake, sleep, vfu>>
FirstSlice ==
    /\ Event("picture")
    /\ ~pic.open
    /\ \E whole \in BOOLEAN :
         /\ Observe(ts + 1, whole)
         /\ pic' = [at |-> now, open |-> ~whole]
NextSlice ==
    /\ Event("slice")
    /\ pic.open
    /\ \E last \in BOOLEAN : Observe(ts, last) /\ pic' = [pic EXCEPT !.open = ~last]
(* The packet that would end the picture is not written or is no IDR slice: *)
(* the picture stays in flight.                                            *)
PictureCut ==
    /\ pic.open
    /\ pic' = [pic EXCEPT !.open = FALSE]
    /\ UNCHANGED <<now, left, clocks, gens, sends, wake, sleep, need, vfu>>
-----------------------------------------------------------------------------
(* The proactive loop.                                                     *)
SipAsked == Set(clk.sip)
(* Mutant: once the SIP side has asked, it is taken to recover by itself. *)
Reason_SipSeen ==
    CASE ~Set(clk.slice) -> IF Within("req", Initial) THEN "startup-wait" ELSE "send"
      [] Set(clk.slice) /\ Within("slice", Safety) -> "idr-fresh"
      [] Set(clk.slice) /\ ~Within("slice", Safety) /\ clk.req > clk.slice /\ Within("req", Safety) -> "safety-wait"
      [] OTHER -> IF SipAsked THEN "sip-answered" ELSE "send"
Reason ==
    CASE ~Set(clk.slice) -> IF Within("req", Initial) THEN "startup-wait" ELSE "send"
      [] Set(clk.slice) /\ Within("slice", Safety) -> "idr-fresh"
      [] Set(clk.slice) /\ ~Within("slice", Safety) /\ clk.req > clk.slice /\ Within("req", Safety) -> "safety-wait"
      [] Set(clk.slice) /\ ~Within("slice", Safety) /\ ~(clk.req > clk.slice /\ Within("req", Safety))
            -> IF SipAsked /\ clk.sip < clk.slice THEN "sip-answered" ELSE "send"
Wakes == CASE Reason = "send" -> now
           [] Reason = "startup-wait" -> clk.req + Initial
           [] Reason = "idr-fresh" -> clk.slice + Safety
           [] Reason = "safety-wait" -> clk.req + Safety
           [] OTHER -> now + Safety
Woken ==
    /\ Set(wake)
    /\ wake' = Never
    /\ sleep' = Wakes
    /\ UNCHANGED <<now, left, clocks, gens, sends, pic, need, vfu>>
Loop ==
    /\ ~Set(wake) /\ now >= sleep
    /\ UNCHANGED now
    /\ IF Reason = "send" THEN SendProactive ELSE UNCHANGED clk /\ NotAsked
    /\ sleep' = Wakes'
    /\ UNCHANGED <<left, inFlight, ts, pend, free, held, gens, sends, wake, pic>>

AtHorizon == now = Horizon /\ UNCHANGED vars
Next ==
    \/ Tick \/ Vfu \/ Rtcp \/ Reinvite \/ PageSwitch \/ Notice \/ NoteMode0Drop
    \/ FirstSlice \/ NextSlice \/ PictureCut
    \/ \E s \in sends : Send(s)
    \/ \E r \in retries : Retry(r)
    \/ \E b \in bursts : BurstAsks(b)
    \/ Woken \/ Loop
    \/ AtHorizon
Spec == Init /\ [][Next]_vars
-----------------------------------------------------------------------------
(* A request of the SIP side, by INFO or RTCP, that neither an IDR slice    *)
(* nor a request to the browser followed, is asked for by the proactive    *)
(* loop at the latest two of its intervals later: whatever was suppressed, *)
(* coalesced, deferred or left to a retry that gave up.                    *)
AskedInTime == Set(need) => now - need <= 2 * Safety + Lag + 1

(* While a page's switch waits, its burst is there until its last request. *)
SwitchKeepsAsking ==
    (Set(clk.epoch) /\ now < clk.epoch + Schedule[Len(Schedule)])
        => \E b \in bursts : b.gen = burstGen /\ b.start = clk.epoch

(* Whoever needs a key frame is asked for.                                 *)
RequestsAnswered == AskedInTime /\ SwitchKeepsAsking

(* A switch is satisfied only by a picture whose first slice went out      *)
(* after it: the rest of an older one does not count.                      *)
SatisfiedByNewPicture ==
    [][Set(clk.epoch) /\ ~Set(clk.epoch') => pic'.at >= clk.epoch]_vars

(* The last VFU, as long as no picture has started since and no request    *)
(* followed it, has a retry that serves it: the comments of                *)
(* HandleSIPInfoPictureFastUpdate and sipInfoFIRRetryShouldSend say so.    *)
VfuServed ==
    (Set(vfu.at) /\ ~vfu.asked /\ pic.at < vfu.at)
        => \/ \E r \in retries : r.gen = retryGen /\ r.sent < RetryCap
           \/ \E s \in sends : s.kind \in {"sip_info_fir", "sip_info_fir_retry"}

TypeOK ==
    /\ now \in 0..Horizon /\ left \in [Kinds -> Nat]
    /\ clk \in [DOMAIN NoClock -> {Never} \cup 0..Horizon]
    /\ inFlight \in BOOLEAN /\ pend \in BOOLEAN /\ free \in BOOLEAN /\ held \in BOOLEAN
    /\ ts \in Nat /\ burstGen \in Nat /\ retryGen \in Nat /\ retryActive \in BOOLEAN
    /\ Cardinality({r \in retries : r.gen = retryGen}) <= 1
=============================================================================
