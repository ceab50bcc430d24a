--------------------------- MODULE SpeechPipeline ---------------------------
(***************************************************************************)
(* Speech translation of one call.  The session owns a pipeline for each   *)
(* direction; the goroutine that reads a direction's audio pushes packets  *)
(* through the pipeline of the day, the pipeline keeps a gRPC stream to    *)
(* the translator, and every stream has a goroutine that reads responses,  *)
(* speaks captions that came without sound and queues what is to be heard. *)
(*                                                                         *)
(* Two locks matter.  streamMu of a pipeline is held while a stream is     *)
(* being opened and while a chunk is being sent, which waits for the       *)
(* translator to read.  The session's mutex is held by DisableTranslator   *)
(* while it waits for the streamMu of one pipeline after the other.        *)
(*                                                                         *)
(* A packet is 20 ms, and two make a chunk of 1280 bytes.  One direction   *)
(* is modelled, dir says which: DisableTranslator stops the pipeline of    *)
(* the other one before or after, holding the same mutex.                  *)
(***************************************************************************)
EXTENDS Naturals, FiniteSets

CONSTANTS MaxStreams,   \* bound: streams opened
          MaxEnables,   \* bound: how often translation is switched on
          MaxPending,   \* bound: sounds in the queue
          MaxBad        \* bound: packets that cannot be decoded

ASSUME BoundAssumption == {MaxStreams, MaxEnables, MaxPending, MaxBad} \subseteq Nat

Pipes == 1..MaxEnables
Streams == 1..MaxStreams
NoStream == 0

VARIABLES
  dir,       \* "out" for browser to SIP, "in" for SIP to browser
  enabled,   \* TranslatorEnabled
  pipe,      \* the session's pipeline, 0 for nil
  enables,   \* pipelines made
  stopping,  \* DisableTranslator waits for the pipeline's streamMu
  over,      \* the call is over: no more packets
  crashed,   \* a method was called on a nil pipeline, and the process is gone
  running,   \* [Pipes -> running]
  stream,    \* [Pipes -> number of its stream, or NoStream]
  buffered,  \* [Pipes -> packets in sendBuffer]
  pending,   \* [Pipes -> sounds in pendingOpusFrames]
  partial,   \* [Pipes -> a goroutine is speaking a partial caption]
  opened,    \* streams opened so far
  life,      \* [Streams -> "none", "open", "ended" or "broken" by the server, "closed" by us]
  reader,    \* [Streams -> what its goroutine does]
  owner,     \* [Streams -> the pipeline that opened it]
  caller,    \* where the goroutine that reads audio is
  has,       \* the pipeline it calls
  bad,       \* packets that could not be decoded
  late       \* history: pipelines stopped while a packet was past the running check

session == <<dir, enabled, pipe, enables, stopping>>
pipeline == <<running, stream, buffered, pending, partial>>
streams == <<opened, life, reader, owner>>
vars == <<session, over, crashed, pipeline, streams, caller, has, bad, late>>

TypeOK ==
  /\ dir \in {"out", "in"} /\ enabled \in BOOLEAN /\ pipe \in 0..MaxEnables
  /\ enables \in 0..MaxEnables /\ stopping \in BOOLEAN /\ over \in BOOLEAN /\ crashed \in BOOLEAN
  /\ running \in [Pipes -> BOOLEAN] /\ stream \in [Pipes -> 0..MaxStreams]
  /\ buffered \in [Pipes -> 0..1] /\ pending \in [Pipes -> 0..MaxPending]
  /\ partial \in [Pipes -> BOOLEAN] /\ opened \in 0..MaxStreams
  /\ life \in [Streams -> {"none", "open", "ended", "broken", "closed"}]
  /\ reader \in [Streams -> {"none", "recv", "speak", "failed", "gone"}]
  /\ owner \in [Streams -> 0..MaxEnables]
  /\ caller \in {"idle", "holds", "called", "decoded", "opening", "append", "sending"}
  /\ has \in 0..MaxEnables /\ late \subseteq Pipes /\ bad \in 0..MaxBad

Init ==
  /\ dir \in {"out", "in"} /\ enabled = FALSE /\ pipe = 0 /\ enables = 0 /\ stopping = FALSE
  /\ over = FALSE /\ crashed = FALSE
  /\ running = [p \in Pipes |-> FALSE] /\ stream = [p \in Pipes |-> NoStream]
  /\ buffered = [p \in Pipes |-> 0] /\ pending = [p \in Pipes |-> 0]
  /\ partial = [p \in Pipes |-> FALSE] /\ opened = 0
  /\ life = [s \in Streams |-> "none"] /\ reader = [s \in Streams |-> "none"]
  /\ owner = [s \in Streams |-> 0] /\ caller = "idle" /\ has = 0 /\ late = {} /\ bad = 0

(* streamMu is held across something slow. *)
StreamLocked(p) == caller \in {"opening", "append", "sending"} /\ has = p

(* Mutant: the stream is dropped without cancelling its context. *)
CloseStream_NoCancel(p) ==
  /\ stream' = [stream EXCEPT ![p] = NoStream] /\ buffered' = [buffered EXCEPT ![p] = 0]
  /\ UNCHANGED life

(* closeStreamLocked: cancels the stream's context and forgets what was to be sent. *)
CloseStream(p) ==
  /\ stream' = [stream EXCEPT ![p] = NoStream] /\ buffered' = [buffered EXCEPT ![p] = 0]
  /\ life' = IF stream[p] = NoStream THEN life
             ELSE [life EXCEPT ![stream[p]] = "closed"]

-----------------------------------------------------------------------------
(* The session: translate and translate_stop. *)

(* A translate while translation is on changes the session's languages only. *)
Enable ==
  /\ ~stopping /\ ~enabled /\ enables < MaxEnables
  /\ enables' = enables + 1 /\ enabled' = TRUE /\ pipe' = enables'
  /\ running' = [running EXCEPT ![enables'] = TRUE]
  /\ UNCHANGED <<dir, stopping, over, crashed, stream, buffered, pending, partial, streams, caller, has, bad, late>>

(* DisableTranslator takes the session's mutex, and Stop clears running. *)
Disable ==
  /\ ~stopping /\ enabled /\ stopping' = TRUE /\ running' = [running EXCEPT ![pipe] = FALSE]
  /\ UNCHANGED <<dir, enabled, pipe, enables, over, crashed, stream, buffered, pending, partial, streams, caller, has, bad, late>>

(* The rest of Stop, once streamMu is free, and of DisableTranslator. *)
Stop ==
  /\ stopping /\ ~StreamLocked(pipe)
  /\ CloseStream(pipe) /\ pending' = [pending EXCEPT ![pipe] = 0]
  /\ late' = IF caller = "decoded" /\ has = pipe THEN late \cup {pipe} ELSE late
  /\ pipe' = 0 /\ enabled' = FALSE /\ stopping' = FALSE
  /\ UNCHANGED <<dir, enables, over, crashed, running, partial, opened, reader, owner, caller, has, bad>>

(* Nothing that ends a session stops its translation. *)
SessionEnds ==
  /\ ~over /\ over' = TRUE
  /\ UNCHANGED <<session, crashed, pipeline, streams, caller, has, bad, late>>

-----------------------------------------------------------------------------
(* One packet of a direction. *)

Goto(where) == caller' = where /\ UNCHANGED has
Call(p) == caller' = "called" /\ has' = p
Return == caller' = "idle" /\ has' = 0
callerOnly == <<session, over, late>>

(* Browser to SIP: TranslatorEnabled and Translator are read under the
   session's mutex, which is then released. *)
PacketOut ==
  /\ dir = "out" /\ caller = "idle" /\ ~over /\ ~stopping /\ enabled
  /\ Goto("holds")
  /\ UNCHANGED <<callerOnly, bad, crashed, pipeline, streams>>

(* s.Translator is read a second time to call Process, without the mutex. *)
CallOut ==
  /\ dir = "out" /\ caller = "holds"
  /\ IF pipe = 0
     THEN crashed' = TRUE /\ Return
     ELSE Call(pipe) /\ UNCHANGED crashed
  /\ UNCHANGED <<callerOnly, bad, pipeline, streams>>

(* SIP to browser: the pipeline is read once, under the mutex. *)
PacketIn ==
  /\ dir = "in" /\ caller = "idle" /\ ~over /\ ~stopping /\ enabled
  /\ Call(pipe)
  /\ UNCHANGED <<callerOnly, bad, crashed, pipeline, streams>>

(* Mutant: Process does not look whether the pipeline runs. *)
Check_Never ==
  /\ caller = "called"
  /\ \/ pending[has] > 0 /\ Return /\ pending' = [pending EXCEPT ![has] = @ - 1]
     \/ pending[has] = 0 /\ Goto("decoded") /\ UNCHANGED pending
  /\ UNCHANGED <<callerOnly, bad, crashed, running, stream, buffered, partial, streams>>

(* The running check; a queued sound is heard in the packet's place, which is
   then lost to the translator; otherwise it is decoded, which may fail. *)
Check ==
  /\ caller = "called"
  /\ \/ ~running[has] /\ Return /\ UNCHANGED <<pending, bad>>
     \/ /\ running[has] /\ pending[has] > 0
        /\ Return /\ pending' = [pending EXCEPT ![has] = @ - 1] /\ UNCHANGED bad
     \/ /\ running[has] /\ pending[has] = 0 /\ UNCHANGED pending
        /\ \/ Goto("decoded") /\ UNCHANGED bad
           \/ bad < MaxBad /\ bad' = bad + 1 /\ Return
  /\ UNCHANGED <<callerOnly, crashed, running, stream, buffered, partial, streams>>

(* sendPCMToStream takes streamMu. *)
Lock ==
  /\ caller = "decoded"
  /\ Goto(IF stream[has] = NoStream THEN "opening" ELSE "append")
  /\ UNCHANGED <<callerOnly, bad, crashed, pipeline, streams>>

(* ensureStreamLocked: opening the stream or sending its settings may fail. *)
Open ==
  /\ caller = "opening"
  /\ \/ /\ opened < MaxStreams
        /\ LET s == opened + 1
           IN  /\ opened' = s
               /\ life' = [life EXCEPT ![s] = "open"] /\ reader' = [reader EXCEPT ![s] = "recv"]
               /\ owner' = [owner EXCEPT ![s] = has]
               /\ stream' = [stream EXCEPT ![has] = s]
        /\ Goto("append")
     \/ Return /\ UNCHANGED <<streams, stream>>
  /\ UNCHANGED <<callerOnly, bad, crashed, running, buffered, pending, partial>>

(* After the packet has been taken, a sound that has come meanwhile is heard. *)
Hear(p) == pending' = [pending EXCEPT ![p] = IF @ = 0 THEN 0 ELSE @ - 1]

AddPacket ==
  /\ caller = "append"
  /\ IF buffered[has] = 0
     THEN Return /\ buffered' = [buffered EXCEPT ![has] = 1] /\ Hear(has)
     ELSE Goto("sending") /\ UNCHANGED <<buffered, pending>>
  /\ UNCHANGED <<callerOnly, bad, crashed, running, stream, partial, streams>>

(* The translator takes the chunk. *)
Sent ==
  /\ caller = "sending" /\ life[stream[has]] = "open"
  /\ Return /\ buffered' = [buffered EXCEPT ![has] = 0] /\ Hear(has)
  /\ UNCHANGED <<callerOnly, bad, crashed, running, stream, partial, streams>>

(* The translator has ended the stream: it is closed, the next packet opens another. *)
SendFails ==
  /\ caller = "sending" /\ life[stream[has]] # "open"
  /\ Return /\ CloseStream(has)
  /\ UNCHANGED <<callerOnly, bad, crashed, running, pending, partial, opened, reader, owner>>

-----------------------------------------------------------------------------
(* The translator, and the goroutine that reads a stream's responses. *)

readerOnly == <<session, over, crashed, running, opened, owner, caller, has, bad, late>>
Current(s) == owner[s] # 0 /\ stream[owner[s]] = s

(* The translator ends the stream, with or without an error. *)
ServerEnds(s) ==
  /\ life[s] = "open" /\ \E how \in {"ended", "broken"} : life' = [life EXCEPT ![s] = how]
  /\ UNCHANGED <<readerOnly, stream, buffered, pending, partial, reader>>

(* enqueueAudioData *)
Queue(p) == pending' = [pending EXCEPT ![p] = @ + 1]
MayQueue(p) == pending[p] < MaxPending

ResponseWithSound(s) ==
  /\ reader[s] = "recv" /\ life[s] = "open" /\ MayQueue(owner[s]) /\ Queue(owner[s])
  /\ UNCHANGED <<readerOnly, stream, buffered, partial, life, reader>>

(* A final caption without sound is spoken by the reader itself. *)
ResponseFinal(s) ==
  /\ reader[s] = "recv" /\ life[s] = "open" /\ reader' = [reader EXCEPT ![s] = "speak"]
  /\ UNCHANGED <<readerOnly, stream, buffered, pending, partial, life>>

Spoken(s) ==
  /\ reader[s] = "speak" /\ reader' = [reader EXCEPT ![s] = "recv"]
  /\ \/ MayQueue(owner[s]) /\ Queue(owner[s])
     \/ UNCHANGED pending
  /\ UNCHANGED <<readerOnly, stream, buffered, partial, life>>

(* A long partial caption is spoken by a goroutine of its own, at most one
   every 3 s, which is also the most that speaking takes. *)
ResponsePartial(s) ==
  /\ reader[s] = "recv" /\ life[s] = "open" /\ ~partial[owner[s]]
  /\ partial' = [partial EXCEPT ![owner[s]] = TRUE]
  /\ UNCHANGED <<readerOnly, stream, buffered, pending, life, reader>>

PartialSpoken(p) ==
  /\ partial[p] /\ partial' = [partial EXCEPT ![p] = FALSE]
  /\ \/ running[p] /\ MayQueue(p) /\ Queue(p)
     \/ UNCHANGED pending
  /\ UNCHANGED <<readerOnly, stream, buffered, life, reader>>

(* Recv: at the end of a stream that the translator ended the reader just goes;
   after an error, or our own cancel, it looks whether the stream is current. *)
RecvEnds(s) ==
  /\ reader[s] = "recv" /\ life[s] # "open"
  /\ reader' = [reader EXCEPT ![s] = IF life[s] = "ended" THEN "gone" ELSE "failed"]
  /\ UNCHANGED <<readerOnly, stream, buffered, pending, partial, life>>

(* Mutant: the reader closes whatever stream the pipeline has by now. *)
ReaderCloses_Any(s) ==
  /\ reader[s] = "failed" /\ ~StreamLocked(owner[s]) /\ reader' = [reader EXCEPT ![s] = "gone"]
  /\ CloseStream(owner[s])
  /\ UNCHANGED <<readerOnly, pending, partial>>

ReaderCloses(s) ==
  /\ reader[s] = "failed" /\ ~StreamLocked(owner[s]) /\ reader' = [reader EXCEPT ![s] = "gone"]
  /\ IF Current(s) THEN CloseStream(owner[s]) ELSE UNCHANGED <<stream, buffered, life>>
  /\ UNCHANGED <<readerOnly, pending, partial>>

-----------------------------------------------------------------------------
Process == Check \/ Lock \/ Open \/ AddPacket \/ Sent \/ SendFails
Talk(s) == ResponseWithSound(s) \/ ResponseFinal(s) \/ ResponsePartial(s)
Read(s) == Spoken(s) \/ RecvEnds(s) \/ ReaderCloses(s)

Next ==
  ~crashed /\
  \/ Enable \/ Disable \/ Stop \/ SessionEnds
  \/ PacketOut \/ CallOut \/ PacketIn \/ Process
  \/ \E s \in Streams : ServerEnds(s) \/ Talk(s) \/ Read(s)
  \/ \E p \in Pipes : PartialSpoken(p)

Spec == Init /\ [][Next]_vars

-----------------------------------------------------------------------------
(* A stream that costs the translator something is the stream of a pipeline,
   and one of a stopped pipeline only where a packet had passed the running
   check: a stream is never replaced or dropped without being cancelled. *)
StreamsOwned ==
  /\ \A s \in Streams : life[s] = "open" => Current(s)
  /\ \A p \in Pipes : stream[p] # NoStream /\ p # pipe => p \in late

(* A stream that works is closed by nothing but the end of its pipeline: not by
   the reader of an earlier one that has only now heard of its own end. *)
WorkingStreamKept ==
  [][\A s \in Streams : life[s] = "open" /\ life'[s] = "closed" => stopping]_vars

(* DisableTranslator is thread-safe: a packet on its way through finds the
   pipeline it was told about, or another, and never nil. *)
PacketFindsPipeline == ~crashed

-----------------------------------------------------------------------------
(* The invariant the proofs are by induction on. *)

(* The session has a pipeline exactly while translation is on, and only that
   one runs, and not once it is being stopped. *)
OneRuns ==
  /\ enabled <=> pipe # 0
  /\ stopping => enabled
  /\ \A p \in Pipes : running[p] => p = pipe /\ ~stopping

(* A packet past the running check has a pipeline that is the session's, or was
   when it passed; one that holds streamMu knows whether there is a stream. *)
CallerKnows ==
  /\ caller \notin {"idle", "holds"} => has \in Pipes
  /\ caller \in {"decoded", "opening", "append", "sending"} => has = pipe \/ has \in late
  /\ caller = "opening" => stream[has] = NoStream
  /\ caller \in {"append", "sending"} => stream[has] # NoStream

(* Streams know their pipelines, and only a stream that has failed has a reader
   about to close it. *)
StreamsKnown ==
  /\ \A s \in Streams : life[s] # "none" => owner[s] \in Pipes
  /\ \A s \in Streams : reader[s] # "none" => life[s] # "none"
  /\ \A s \in Streams : reader[s] = "failed" => life[s] # "open"
  /\ \A p \in Pipes : stream[p] # NoStream => owner[stream[p]] = p /\ stream[p] <= opened

IInv == TypeOK /\ OneRuns /\ CallerKnows /\ StreamsKnown /\ StreamsOwned
=============================================================================
