---------------------------- MODULE VirtualCamera ----------------------------
(***************************************************************************)
(* VirtualCamera (hal/src/VirtualCamera.cpp): the Camera HAL3 device that  *)
(* answers capture requests with frames of a provider.                     *)
(*                                                                         *)
(* mutex_ serializes the device's entry points, so a call starts only when *)
(* pc is "idle"; a capture request is a sequence of steps during which     *)
(* only time passes.  Durations are in abstract ticks, and the clock is    *)
(* the time since the last shutter, saturating at the longest duration.    *)
(* The framework's callbacks are a history, events, of the request being   *)
(* processed.  Calls the code refuses without changing anything stutter.   *)
(***************************************************************************)
EXTENDS Integers, Sequences, FiniteSets, FiniteSetsExt, Functions

CONSTANTS
  Stream,      \* streams the framework may ask for
  Format,      \* Format[s]: the pixel format of a stream
  Size,        \* Size[s]: its width and height
  MaxStreamDimension,
  Provider,    \* providers a route may name
  Fps,         \* Fps[p]: the rate in the provider's source.cfg
  Second,      \* ticks in a second
  DefaultFps, MaxFps, MaxOutputPixelRate,
  MaxBuffers,  \* bound on the output buffers of a request
  None

(* A duration is a whole number of ticks, at least one.  A rate read from  *)
(* a configuration may be any number.                                      *)
ASSUME CameraAssumption ==
  /\ Second \in Nat \ {0} /\ DefaultFps \in 1..Second /\ MaxFps \in 1..Second
  /\ MaxOutputPixelRate \in Nat /\ MaxBuffers \in Nat
  /\ Size \in [Stream -> Nat \X Nat] /\ Fps \in [Provider -> Int]
  /\ None \notin Provider \cup Nat \cup {"current"}

VARIABLES
  scoped,            \* resolveScopedRoute_: a standalone device
  open, callbacks, gralloc,
  configured, streams, outputDuration,
  route,             \* provider the last successful configuration is for
  settled,           \* no source change or failed configuration since then
  path, view, sourceDuration,     \* source path; provider of the loaded view
  lastSettings,      \* None, or the session the kept settings come from
  since,             \* time since lastFrameTimestampNs_, None while it is 0
  pc, request, outputs, events, answer, locked

device == <<scoped, open, callbacks, gralloc>>
session == <<configured, streams, outputDuration, route>>
source == <<path, view, sourceDuration>>
capture == <<pc, request, outputs, events, answer, locked>>
vars == <<device, session, settled, source, lastSettings, since, capture>>

YuvFormats == {"implementation_defined", "ycbcr_420"}
Fence == {"none", "pending", "closed", "returned"}
Buffer == [stream : Stream, valid : BOOLEAN, fence : Fence]
Event == [type : {"shutter", "result"}] \cup [type : {"error"}, buffer : 1..MaxBuffers]
Duration(fps) == Second \div fps

(* How filling one buffer can end.                                         *)
YuvOutcomes ==
  {"lock_failed", "not_generated", "unlock_failed", "filled"}
    \cup IF gralloc = "gralloc1" THEN {"no_planes", "wrong_format", "bad_layout"} ELSE {}
JpegOutcomes ==
  {"encoder_failed", "too_large", "lock_failed", "no_destination", "unlock_failed", "filled"}
Outcome ==
  JpegOutcomes \cup {"not_generated", "no_planes", "wrong_format", "bad_layout",
                     "invalid_buffer", "fence_failed"}

TypeOK ==
  /\ scoped \in BOOLEAN /\ open \in BOOLEAN /\ callbacks \in BOOLEAN
  /\ gralloc \in {"none", "legacy", "gralloc1"}
  /\ configured \in BOOLEAN /\ streams \subseteq Stream /\ settled \in BOOLEAN
  /\ path \in Provider \cup {None} /\ view \in Provider \cup {None}
  /\ route \in Provider \cup {None}
  /\ sourceDuration \in 1..Second /\ outputDuration \in 1..Second
  /\ lastSettings \in {"current", "earlier", None}
  /\ since \in 0..Second \cup {None}
  /\ pc \in {"idle", "pace", "fill", "draw", "result", "return"}
  /\ request \in Seq(Buffer) /\ Len(request) <= MaxBuffers
  /\ outputs \in Seq(Outcome) /\ locked \subseteq DOMAIN request
  /\ events \in Seq(Event) /\ answer \in {"none", "ok", "invalid", "no_memory"}

Init ==
  /\ scoped \in BOOLEAN
  /\ open = FALSE /\ callbacks = FALSE /\ gralloc = "none"
  /\ configured = FALSE /\ streams = {} /\ route = None /\ settled = FALSE
  /\ path = None /\ view = None
  /\ sourceDuration = Duration(DefaultFps) /\ outputDuration = Duration(DefaultFps)
  /\ lastSettings = None /\ since = None
  /\ pc = "idle" /\ request = <<>> /\ outputs = <<>> /\ events = <<>>
  /\ answer = "none" /\ locked = {}

(* Time passes.                                                            *)
Tick ==
  /\ since # None /\ since < Second
  /\ since' = since + 1
  /\ UNCHANGED <<device, session, settled, source, lastSettings, capture>>

-----------------------------------------------------------------------------
Open ==
  /\ pc = "idle" /\ ~open
  /\ open' = TRUE /\ callbacks' = FALSE /\ configured' = FALSE /\ since' = None
  /\ UNCHANGED <<scoped, gralloc, streams, outputDuration, route, settled, source,
                 lastSettings, capture>>

Close ==
  /\ pc = "idle" /\ open
  /\ open' = FALSE /\ callbacks' = FALSE /\ configured' = FALSE /\ streams' = {}
  /\ since' = None /\ lastSettings' = None
  /\ gralloc' = IF gralloc = "gralloc1" THEN "none" ELSE gralloc
  /\ UNCHANGED <<scoped, outputDuration, route, settled, source, capture>>

(* The framework initializes an open device once; the lock interface is    *)
(* the gralloc module's own functions or, without them, gralloc1.          *)
Initialize ==
  /\ pc = "idle" /\ open /\ ~callbacks
  /\ gralloc' \in {"legacy", "gralloc1"} /\ callbacks' = TRUE
  /\ UNCHANGED <<scoped, open, session, settled, source, lastSettings, since, capture>>

(* setSourcePath(), which the proxy calls before configure_streams().      *)
SetSourcePath(p) ==
  /\ pc = "idle" /\ open /\ ~scoped
  /\ path' = p /\ settled' = FALSE
  /\ UNCHANGED <<device, session, view, sourceDuration, lastSettings, since, capture>>

LoadSourceConfiguration(p) ==
  /\ view' = p
  /\ sourceDuration' = IF p # None /\ Fps[p] \in 1..MaxFps THEN Duration(Fps[p])
                       ELSE Duration(DefaultFps)

Pixels(s) == Size[s][1] * Size[s][2]
SupportedSize(s) ==
  \A d \in 1..2 : /\ Size[s][d] \in 1..MaxStreamDimension
                  /\ Format[s] = "blob" \/ Size[s][d] % 2 = 0
Acceptable(s) == Format[s] \in YuvFormats \cup {"blob"} /\ SupportedSize(s)

OutputDuration(accepted) ==
  LET largest == Max({Pixels(s) : s \in accepted})
      fps == MaxOutputPixelRate \div Max({1, largest})
  IN  Duration(Max({1, Min({MaxFps, fps})}))

(* Mutant: a new configuration keeps the settings of the last request.     *)
KeepSettings(kept) == kept

(* What a new configuration leaves of the kept settings.                   *)
FreeSettings(kept) == None

(* Settings that outlive a configuration are those of an earlier session.  *)
StartSession(p, accepted) ==
  /\ configured' = TRUE /\ streams' = accepted /\ outputDuration' = OutputDuration(accepted)
  /\ since' = None /\ route' = p /\ settled' = TRUE
  /\ lastSettings' = IF FreeSettings(lastSettings) = None THEN None ELSE "earlier"

(* configure_streams().  A standalone device takes the provider p that the *)
(* client's package is routed to.  The source is replaced before the       *)
(* streams are checked, and stays replaced when one is refused.            *)
Configure(config, p) ==
  /\ pc = "idle" /\ open /\ callbacks
  /\ path' = IF scoped THEN p ELSE path
  /\ LoadSourceConfiguration(path')
  /\ IF \A i \in DOMAIN config : Acceptable(config[i])
       THEN StartSession(path', Range(config))
       ELSE settled' = FALSE /\ UNCHANGED <<session, lastSettings, since>>
  /\ UNCHANGED <<device, capture>>

-----------------------------------------------------------------------------
(* process_capture_request(): the checks, and the settings the request is  *)
(* served with, which a request may leave to an earlier one.               *)
Request(buffers, withSettings) ==
  /\ pc = "idle" /\ open
  /\ request' = buffers
  /\ \/ /\ callbacks /\ configured /\ (withSettings \/ lastSettings # None)
        /\ lastSettings' = IF withSettings THEN "current" ELSE lastSettings
        /\ pc' = "pace" /\ UNCHANGED answer
     \/ /\ ~callbacks \/ ~configured \/ (~withSettings /\ lastSettings = None)
        /\ answer' = "invalid" /\ pc' = "return" /\ UNCHANGED lastSettings
     \/ /\ callbacks /\ configured /\ withSettings
        /\ answer' = "no_memory" /\ pc' = "return" /\ UNCHANGED lastSettings
  /\ UNCHANGED <<device, session, settled, source, since, outputs, events, locked>>

(* notifyShutter(), notifyBufferError() and the result.                    *)
ShutterEvent == [type |-> "shutter"]
ErrorEvent(i) == [type |-> "error", buffer |-> i]
ResultEvent == [type |-> "result"]

(* Mutant: only the provider's own rate paces the session.                 *)
FrameDurationOfSource == sourceDuration

FrameDuration == Max({sourceDuration, outputDuration})

Shutter ==
  /\ pc = "pace"
  /\ since # None => since >= FrameDuration
  /\ since' = 0
  /\ events' = Append(events, ShutterEvent) /\ pc' = "fill"
  /\ UNCHANGED <<device, session, settled, source, lastSettings, request, outputs, answer, locked>>

index == Len(outputs) + 1

(* Mutant: the error is not reported to the framework.                     *)
FinishBufferSilently(outcome) ==
  /\ outputs' = Append(outputs, outcome) /\ UNCHANGED events
  /\ pc' = IF index = Len(request) THEN "result" ELSE "fill"

FinishBuffer(outcome) ==
  /\ outputs' = Append(outputs, outcome)
  /\ events' = IF outcome = "filled" THEN events
               ELSE Append(events, ErrorEvent(index))
  /\ pc' = IF index = Len(request) THEN "result" ELSE "fill"

FenceWait == {"signalled", "timed_out", "poll_failed"}
SetFence(f) == request' = [request EXCEPT ![index].fence = f]

(* Mutant: a failed wait returns before the fence is closed.               *)
FillBufferLeakingFence ==
  /\ pc = "fill"
  /\ LET buffer == request[index] IN
     \/ /\ ~buffer.valid
        /\ SetFence(IF buffer.fence = "pending" THEN "returned" ELSE "none")
        /\ FinishBuffer("invalid_buffer")
     \/ /\ buffer.valid /\ buffer.fence = "none"
        /\ pc' = "draw" /\ UNCHANGED <<request, outputs, events>>
     \/ /\ buffer.valid /\ buffer.fence = "pending"
        /\ \/ SetFence("closed") /\ pc' = "draw" /\ UNCHANGED <<outputs, events>>
           \/ FinishBuffer("fence_failed") /\ UNCHANGED request
  /\ UNCHANGED <<device, session, settled, source, lastSettings, since, answer, locked>>

(* Mutant: a frame whose fence does not signal is begun again.             *)
FillBufferAgain ==
  /\ pc = "fill"
  /\ LET buffer == request[index] IN
     \/ /\ ~buffer.valid
        /\ SetFence(IF buffer.fence = "pending" THEN "returned" ELSE "none")
        /\ FinishBuffer("invalid_buffer")
     \/ /\ buffer.valid /\ buffer.fence = "none"
        /\ pc' = "draw" /\ UNCHANGED <<request, outputs, events>>
     \/ /\ buffer.valid /\ buffer.fence = "pending"
        /\ \/ SetFence("closed") /\ pc' = "draw" /\ UNCHANGED <<outputs, events>>
           \/ pc' = "pace" /\ events' = <<>> /\ UNCHANGED <<request, outputs>>
  /\ UNCHANGED <<device, session, settled, source, lastSettings, since, answer, locked>>

(* fillBuffer(): an invalid buffer gets its fence back; a fence that is    *)
(* waited for is closed whether or not the wait succeeds.                  *)
FillBuffer ==
  /\ pc = "fill"
  /\ LET buffer == request[index] IN
     \/ /\ ~buffer.valid
        /\ SetFence(IF buffer.fence = "pending" THEN "returned" ELSE "none")
        /\ FinishBuffer("invalid_buffer")
     \/ /\ buffer.valid /\ buffer.fence = "none"
        /\ pc' = "draw" /\ UNCHANGED <<request, outputs, events>>
     \/ /\ buffer.valid /\ buffer.fence = "pending"
        /\ SetFence("closed")
        /\ \E wait \in FenceWait :
             IF wait = "signalled" THEN pc' = "draw" /\ UNCHANGED <<outputs, events>>
             ELSE FinishBuffer("fence_failed")
  /\ UNCHANGED <<device, session, settled, source, lastSettings, since, answer, locked>>

(* The two returns that follow a successful lock and unlock nothing.       *)
LeftLocked(outcome) == outcome \in {"wrong_format", "no_destination"}

Draw(outcome) ==
  /\ locked' = IF LeftLocked(outcome) THEN locked \cup {index} ELSE locked
  /\ FinishBuffer(outcome)
  /\ UNCHANGED <<device, session, settled, source, lastSettings, since, request, answer>>

FillYuv ==
  /\ pc = "draw" /\ Format[request[index].stream] # "blob"
  /\ \E outcome \in YuvOutcomes : Draw(outcome)

FillJpeg ==
  /\ pc = "draw" /\ Format[request[index].stream] = "blob"
  /\ \E outcome \in JpegOutcomes : Draw(outcome)

(* The single result of the request; without memory for its metadata the   *)
(* call fails after the callbacks already made.                            *)
Result ==
  /\ pc = "result" /\ pc' = "return"
  /\ \/ answer' = "ok" /\ events' = Append(events, ResultEvent)
     \/ answer' = "no_memory" /\ UNCHANGED events
  /\ UNCHANGED <<device, session, settled, source, lastSettings, since, request, outputs, locked>>

(* The call returns, the mutex is free and the history ends.               *)
Return ==
  /\ pc = "return" /\ pc' = "idle"
  /\ request' = <<>> /\ outputs' = <<>> /\ events' = <<>> /\ answer' = "none" /\ locked' = {}
  /\ UNCHANGED <<device, session, settled, source, lastSettings, since>>

-----------------------------------------------------------------------------
Configurations == UNION {[1..n -> Stream] : n \in 1..2}
Buffers == {b \in Buffer : b.stream \in streams /\ b.fence \in {"none", "pending"}}
(* The framework puts one buffer of a stream into a request.               *)
Requests(n) ==
  {r \in [1..n -> Buffers] : \A i, j \in 1..n : i # j => r[i].stream # r[j].stream}

Steps == Shutter \/ FillBuffer \/ FillYuv \/ FillJpeg \/ Result \/ Return
Next ==
  \/ Tick \/ Open \/ Close \/ Initialize
  \/ \E p \in Provider : SetSourcePath(p)
  \/ \E config \in Configurations, p \in Provider : Configure(config, p)
  \/ \E n \in 1..MaxBuffers, withSettings \in BOOLEAN :
       \E buffers \in Requests(n) : Request(buffers, withSettings)
  \/ Steps

Spec == Init /\ [][Next]_vars
(* The calling thread runs to the end of its request, and time passes.     *)
FairSpec == Spec /\ WF_vars(Tick) /\ WF_vars(Steps)

-----------------------------------------------------------------------------
Unfilled == {i \in DOMAIN outputs : outputs[i] # "filled"}

(* The first n callbacks: the shutter, and an error for each output that   *)
(* was not filled, in the order of the outputs.                            *)
Reported(n) ==
  /\ events[1] = ShutterEvent
  /\ {events[k] : k \in 2..n} = {ErrorEvent(i) : i \in Unfilled}
  /\ \A k, l \in 2..n : k < l => events[k].buffer < events[l].buffer

(* A request that returns 0 has called the framework back with exactly one *)
(* shutter, then a buffer error for each output it could not fill, in      *)
(* order, then one result for all its outputs (processRequestLocked).  One *)
(* that fails has made no callback and kept no fence, unless its failure   *)
(* is the result metadata of a request already carried out.                *)
CallbacksMatchAnswer ==
  /\ answer = "ok" =>
       /\ Len(outputs) = Len(request) /\ Len(events) >= 2
       /\ Reported(Len(events) - 1) /\ events[Len(events)] = ResultEvent
  /\ answer \in {"invalid", "no_memory"} /\ Len(outputs) < Len(request) =>
       events = <<>> /\ \A i \in DOMAIN request : request[i].fence \in {"none", "pending"}

(* Once an output was filled or given up, its acquire fence has been       *)
(* closed or handed back, never left open (fillBuffer), and its buffer is  *)
(* unlocked, unless gralloc's lock succeeded with an answer that fillYuv   *)
(* or fillJpeg cannot use.                                                 *)
BuffersSettled ==
  \A i \in DOMAIN outputs :
    /\ request[i].fence # "pending" /\ (request[i].fence = "returned" => ~request[i].valid)
    /\ i \in locked => outputs[i] = IF Format[request[i].stream] = "blob" THEN "no_destination"
                                    ELSE "wrong_format"

(* A request that leaves out its settings is served with settings of its   *)
(* own stream configuration, never with those kept from before it.  Frames *)
(* and view are those of the provider the session was configured for,      *)
(* until setSourcePath() or a refused configuration replaces the source of *)
(* the running session; even then a standalone device never combines one   *)
(* provider's frames with another one's view.                              *)
ServedFromThisSession ==
  /\ pc \in {"pace", "fill", "draw", "result"} => lastSettings = "current"
  /\ pc = "draw" => /\ settled => path = route /\ view = route
                    /\ scoped => path = view

(* Two shutters of a session are apart by the frame duration that the      *)
(* largest configured stream and, once settled, the provider allow.        *)
Paced ==
  [][(pc = "pace" /\ pc' = "fill" /\ since # None) =>
       /\ since >= OutputDuration(streams)
       /\ settled /\ route # None /\ Fps[route] \in 1..MaxFps => since >= Duration(Fps[route])]_vars

(* Every accepted request returns: pacing waits for time alone, fences     *)
(* time out, and no step of the request waits for another call.            *)
RequestAnswered == (pc # "idle") ~> (pc = "idle")
=============================================================================
