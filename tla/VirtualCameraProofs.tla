------------------------- MODULE VirtualCameraProofs -------------------------
(***************************************************************************)
(* Proofs about VirtualCamera, for any streams, sizes, providers and rates *)
(* and any number of output buffers.                                       *)
(***************************************************************************)
EXTENDS VirtualCamera, SequenceTheorems, TLAPS

SourceDuration(p) ==
  IF p # None /\ Fps[p] \in 1..MaxFps THEN Duration(Fps[p]) ELSE Duration(DefaultFps)

(* What the device keeps between calls: the durations belong to the loaded *)
(* view and to the configured streams, and settings are kept of a session  *)
(* only.                                                                   *)
SessionType ==
  /\ scoped \in BOOLEAN /\ open \in BOOLEAN /\ callbacks \in BOOLEAN
  /\ gralloc \in {"none", "legacy", "gralloc1"}
  /\ configured \in BOOLEAN /\ streams \subseteq Stream /\ settled \in BOOLEAN
  /\ path \in Provider \cup {None} /\ view \in Provider \cup {None}
  /\ route \in Provider \cup {None}
  /\ sourceDuration \in 1..Second /\ outputDuration \in 1..Second
  /\ lastSettings \in {"current", None}
SessionInv ==
  /\ SessionType
  /\ configured => outputDuration = OutputDuration(streams)
  /\ sourceDuration = SourceDuration(view)
  /\ scoped => path = view
  /\ settled => path = route /\ view = route

(* A request is served by a configured session, with settings of it.       *)
Serving == {"pace", "fill", "draw", "result"}
ServedInv == pc \in Serving => configured /\ lastSettings = "current"

(* Where a request is: what it has answered, and how many outputs it has   *)
(* dealt with.                                                             *)
Unserved == outputs = <<>> /\ events = <<>> /\ locked = {}
ProgressInv ==
  /\ pc \in Serving \cup {"idle", "return"} /\ answer \in {"none", "ok", "invalid", "no_memory"}
  /\ pc # "return" => answer = "none"
  /\ pc \in {"idle", "pace"} => Unserved
  /\ pc \in {"pace", "fill", "draw"} => Len(outputs) < Len(request)
  /\ pc = "result" => Len(outputs) = Len(request)
  /\ pc = "return" => \/ answer = "ok" /\ Len(outputs) = Len(request)
                      \/ answer = "no_memory" /\ Len(outputs) = Len(request)
                      \/ answer \in {"invalid", "no_memory"} /\ Unserved

(* The callbacks made so far.                                              *)
CallbackInv ==
  /\ events \in Seq(Event)
  /\ pc \in {"fill", "draw", "result"} => Len(events) >= 1 /\ Reported(Len(events))
  /\ answer = "ok" => /\ Len(events) >= 2 /\ Reported(Len(events) - 1)
                      /\ events[Len(events)] = ResultEvent

(* The buffer being drawn is valid and its fence is closed; those still to *)
(* come are as the framework sent them.                                    *)
BufferInv ==
  /\ request \in Seq(Buffer) /\ Len(request) <= MaxBuffers /\ outputs \in Seq(Outcome)
  /\ Len(outputs) <= Len(request) /\ locked \subseteq DOMAIN outputs
  /\ pc = "draw" => request[index].valid /\ request[index].fence \in {"none", "closed"}
  /\ \A i \in DOMAIN request :
       i > Len(outputs) /\ (pc = "draw" => i # index) => request[i].fence \in {"none", "pending"}

CaptureInv == ProgressInv /\ CallbackInv /\ BufferInv /\ BuffersSettled

Inv == SessionInv /\ ServedInv /\ CaptureInv /\ since \in 0..Second \cup {None}

-----------------------------------------------------------------------------
(* Max and Min of two numbers (updateFrameDurationLocked and               *)
(* configureStreams use std::max and std::min).                            *)
LEMMA PairMax ==
  ASSUME NEW a \in Int, NEW b \in Int
  PROVE  Max({a, b}) \in {a, b} /\ Max({a, b}) >= a /\ Max({a, b}) >= b
<1>1. \E x \in {a, b} : \A y \in {a, b} : x >= y
  BY SMT
<1> QED
  BY <1>1 DEF Max

(* And the smaller of two numbers.                                         *)
LEMMA PairMin ==
  ASSUME NEW a \in Int, NEW b \in Int
  PROVE  Min({a, b}) \in {a, b} /\ Min({a, b}) <= a /\ Min({a, b}) <= b
<1>1. \E x \in {a, b} : \A y \in {a, b} : x <= y
  BY SMT
<1> QED
  BY <1>1 DEF Min

(* A frame lasts from one tick to a second.                                *)
LEMMA DurationRange ==
  ASSUME NEW fps \in 1..Second
  PROVE  Duration(fps) \in 1..Second
<1>1. Second \in Nat \ {0}
  BY CameraAssumption
<1> QED
  BY ONLY <1>1, fps \in 1..Second, SMT DEF Duration

(* So does a frame of the source, of whatever rate it states.              *)
LEMMA SourceDurationRange ==
  ASSUME NEW p \in Provider \cup {None}
  PROVE  SourceDuration(p) \in 1..Second
<1>1. DefaultFps \in 1..Second /\ \A f \in 1..MaxFps : f \in 1..Second
  BY CameraAssumption
<1> QED
  BY <1>1, DurationRange DEF SourceDuration

(* The pixel rate allows at least one frame per second, however large the  *)
(* streams are.                                                            *)
LEMMA OutputDurationRange ==
  ASSUME NEW config \in Configurations
  PROVE  OutputDuration(Range(config)) \in 1..Second /\ Range(config) \subseteq Stream
<1> DEFINE pixels == {Pixels(s) : s \in Range(config)}
           rate == MaxOutputPixelRate \div Max({1, Max(pixels)})
           fps == Max({1, Min({MaxFps, rate})})
<1>1. PICK n \in 1..2 : config \in [1..n -> Stream]
  BY DEF Configurations
<1>2. Range(config) = {config[1], config[n]} /\ config[1] \in Stream /\ config[n] \in Stream
  BY <1>1 DEF Range
<1>3. \A s \in Stream : Pixels(s) \in Nat
  <2>1. \A a, b \in Nat : a * b \in Nat
    BY ONLY SMT
  <2> QED
    BY <2>1, CameraAssumption DEF Pixels
<1>4. pixels = {Pixels(config[1]), Pixels(config[n])}
  BY <1>2
<1>5. Max(pixels) \in Nat
  <2>1. Pixels(config[1]) \in Nat /\ Pixels(config[n]) \in Nat
    BY <1>2, <1>3
  <2>2. Pixels(config[1]) \in Int /\ Pixels(config[n]) \in Int
    BY <2>1
  <2>3. Max({Pixels(config[1]), Pixels(config[n])}) \in {Pixels(config[1]), Pixels(config[n])}
    BY <2>2, PairMax, Zenon
  <2> QED
    BY <1>4, <2>1, <2>3, Zenon
<1> HIDE DEF pixels
<1>6. Max({1, Max(pixels)}) \in Nat \ {0}
  <2>1. 1 \in Int /\ Max(pixels) \in Int
    BY <1>5
  <2>2. Max({1, Max(pixels)}) \in {1, Max(pixels)} /\ Max({1, Max(pixels)}) >= 1
    BY <2>1, PairMax, Zenon
  <2> QED
    BY <1>5, <2>2
<1>7. rate \in Nat
  <2>1. \A a \in Nat, b \in Nat \ {0} : a \div b \in Nat
    BY ONLY SMT
  <2> QED
    BY <1>6, <2>1, CameraAssumption
<1> HIDE DEF rate
<1>8. fps \in 1..MaxFps
  <2>1. MaxFps \in Int /\ rate \in Int /\ 1 \in Int
    BY <1>7, CameraAssumption
  <2>2. Min({MaxFps, rate}) \in {MaxFps, rate} /\ Min({MaxFps, rate}) <= MaxFps
    BY <2>1, PairMin, Zenon
  <2>3. Min({MaxFps, rate}) \in Int
    BY <2>1, <2>2, Zenon
  <2>4. fps \in {1, Min({MaxFps, rate})} /\ fps >= 1
    BY <2>1, <2>3, PairMax, Zenon
  <2> QED
    BY <2>1, <2>2, <2>3, <2>4, CameraAssumption
<1>9. fps \in 1..Second
  BY <1>8, CameraAssumption
<1> QED
  BY <1>2, <1>9, DurationRange, Zenon DEF OutputDuration, rate, pixels

-----------------------------------------------------------------------------
(* The callbacks of a request.                                             *)
LEMMA EventTypes ==
  /\ ShutterEvent \in Event /\ ResultEvent \in Event
  /\ \A i \in 1..MaxBuffers : ErrorEvent(i) \in Event /\ ErrorEvent(i).buffer = i
BY CameraAssumption DEF Event, ShutterEvent, ResultEvent, ErrorEvent

(* One more output is finished: it joins the unfilled ones unless it was   *)
(* filled.                                                                 *)
LEMMA Finished ==
  ASSUME outputs \in Seq(Outcome), NEW outcome \in Outcome, outputs' = Append(outputs, outcome)
  PROVE  /\ outputs' \in Seq(Outcome) /\ Len(outputs') = index /\ index \in Nat \ {0}
         /\ outputs'[index] = outcome /\ \A i \in DOMAIN outputs : outputs'[i] = outputs[i]
         /\ DOMAIN outputs = 1..Len(outputs) /\ DOMAIN outputs' = 1..index
         /\ Unfilled' = Unfilled \cup (IF outcome = "filled" THEN {} ELSE {index})
<1>1. /\ outputs' \in Seq(Outcome) /\ Len(outputs') = index
      /\ outputs'[index] = outcome /\ \A i \in 1..Len(outputs) : outputs'[i] = outputs[i]
  BY AppendProperties DEF index
<1>2. DOMAIN outputs = 1..Len(outputs) /\ DOMAIN outputs' = 1..index /\ index \in Nat \ {0}
  BY <1>1, LenProperties DEF index
<1>3. 1..index = 1..Len(outputs) \cup {index} /\ Len(outputs) \in Nat
  BY <1>2, LenProperties DEF index
<1> QED
  BY <1>1, <1>2, <1>3, Zenon DEF Unfilled

(* Its error, if any, is the next callback, and later in the order than    *)
(* the ones before.                                                        *)
LEMMA ErrorReported ==
  ASSUME events \in Seq(Event), Len(events) >= 1, Reported(Len(events)),
         outputs \in Seq(Outcome), NEW outcome \in Outcome, index \in 1..MaxBuffers,
         FinishBuffer(outcome)
  PROVE  events' \in Seq(Event) /\ Len(events') >= 1 /\ Reported(Len(events))'
<1>1. outputs' = Append(outputs, outcome)
  BY DEF FinishBuffer
<1>2. CASE outcome = "filled"
  <2>1. events' = events /\ Unfilled' = Unfilled
    BY <1>1, <1>2, Finished, Zenon DEF FinishBuffer
  <2> QED
    BY <2>1, Zenon DEF Reported
<1>3. CASE outcome # "filled"
  <2> DEFINE n == Len(events)
             e == ErrorEvent(index)
  <2>1. events' = Append(events, e) /\ Unfilled' = Unfilled \cup {index}
    BY <1>1, <1>3, Finished DEF FinishBuffer
  <2>2. e \in Event /\ e.buffer = index
    BY EventTypes
  <2> HIDE DEF e
  <2>3. /\ events' \in Seq(Event) /\ Len(events') = n + 1 /\ n \in Nat
        /\ events'[n + 1] = e /\ \A k \in 1..n : events'[k] = events[k]
    BY <2>1, <2>2, AppendProperties, LenProperties
  <2> HIDE DEF n
  <2>4. 2..(n + 1) = 2..n \cup {n + 1} /\ n >= 1 /\ \A k \in 2..n : k \in 1..n
    BY <2>3 DEF n
  <2>5. events'[1] = ShutterEvent
    BY <2>3, <2>4 DEF Reported
  <2>6. {events'[k] : k \in 2..(n + 1)} = {ErrorEvent(i) : i \in Unfilled'}
    <3>1. {events'[k] : k \in 2..(n + 1)} = {events[k] : k \in 2..n} \cup {e}
      <4>1. \A k \in 2..n : events'[k] = events[k]
        BY <2>3, <2>4, Zenon
      <4>2. {events'[k] : k \in 2..(n + 1)} = {events'[k] : k \in 2..n} \cup {events'[n + 1]}
        BY <2>4, Zenon
      <4>3. {events'[k] : k \in 2..n} = {events[k] : k \in 2..n}
        BY <4>1, Zenon
      <4> QED
        BY <2>3, <4>2, <4>3, Zenon
    <3>2. {ErrorEvent(i) : i \in Unfilled'} = {ErrorEvent(i) : i \in Unfilled} \cup {e}
      BY <2>1, Zenon DEF e
    <3> QED
      BY <3>1, <3>2, Zenon DEF Reported, n
  <2>7. ASSUME NEW k \in 2..n PROVE events[k].buffer \in 1..Len(outputs)
    <3>1. PICK i \in Unfilled : events[k] = ErrorEvent(i)
      BY Zenon DEF Reported, n
    <3>2. i \in 1..Len(outputs) /\ i \in 1..MaxBuffers
      BY CameraAssumption, LenProperties DEF Unfilled, index
    <3> QED
      BY <3>1, <3>2, EventTypes, Zenon
  <2>8. ASSUME NEW k \in 2..(n + 1), NEW l \in 2..(n + 1), k < l
        PROVE  events'[k].buffer < events'[l].buffer
    <3>1. k \in 2..n /\ events'[k] = events[k]
      BY <2>3, <2>4, <2>8
    <3>2. CASE l \in 2..n
      <4>1. events'[l] = events[l]
        BY <2>3, <2>4, <3>2
      <4> QED
        BY <2>8, <3>1, <3>2, <4>1, Zenon DEF Reported, n
    <3>3. CASE l = n + 1
      <4>1. events'[l].buffer = index
        BY <2>2, <2>3, <3>3, Zenon
      <4>2. events[k].buffer < index
        BY <2>7, <3>1, LenProperties DEF index
      <4> QED
        BY <3>1, <4>1, <4>2, Zenon
    <3> QED
      BY <2>4, <3>2, <3>3
  <2>9. Len(events') >= 1
    BY <2>3, <2>4
  <2> QED
    BY <2>3, <2>5, <2>6, <2>8, <2>9, Zenon DEF Reported
<1> QED
  BY <1>2, <1>3

(* A step of a request leaves the other buffers as they are, and of its    *)
(* own changes the fence only.                                             *)
RequestKept ==
  /\ request' \in Seq(Buffer) /\ Len(request') = Len(request)
  /\ \A j \in DOMAIN request \ {index} : request'[j] = request[j]
  /\ request'[index].stream = request[index].stream
  /\ request'[index].valid = request[index].valid

(* fillBuffer() replaces the fence of its own buffer only.                 *)
LEMMA FenceSet ==
  ASSUME request \in Seq(Buffer), index \in DOMAIN request, NEW f \in Fence, SetFence(f)
  PROVE  RequestKept /\ request'[index].fence = f
<1> DEFINE b == [request[index] EXCEPT !.fence = f]
<1>1. request[index] \in Buffer /\ DOMAIN request = 1..Len(request) /\ Len(request) \in Nat
  BY ElementOfSeq, LenProperties
<1>2. /\ b \in Buffer /\ b.fence = f
      /\ b.stream = request[index].stream /\ b.valid = request[index].valid
  BY <1>1 DEF Buffer
<1>3. request' = [request EXCEPT ![index] = b]
  BY DEF SetFence
<1> HIDE DEF b
<1>4. request' \in Seq(Buffer) /\ Len(request') = Len(request)
  BY <1>2, <1>3, ExceptSeq
<1> QED
  BY <1>2, <1>3, <1>4, Zenon DEF RequestKept

(* fillBuffer() and its callers finish one buffer.                         *)
LEMMA FinishStep ==
  ASSUME CaptureInv, pc \in {"fill", "draw"}, NEW outcome \in Outcome, FinishBuffer(outcome),
         RequestKept, answer' = answer,
         request'[index].fence # "pending",
         request'[index].fence = "returned" => ~request'[index].valid,
         locked' = locked
           \/ /\ locked' = locked \cup {index}
              /\ outcome = IF Format[request'[index].stream] = "blob" THEN "no_destination"
                           ELSE "wrong_format"
  PROVE  CaptureInv' /\ pc' \in {"fill", "result"}
<1>1. ProgressInv /\ CallbackInv /\ BufferInv /\ BuffersSettled
  BY DEF CaptureInv
<1>2. outputs \in Seq(Outcome) /\ outputs' = Append(outputs, outcome)
  BY <1>1 DEF BufferInv, FinishBuffer
<1>3. Len(outputs) < Len(request) /\ answer = "none" /\ answer' = "none"
  BY <1>1, Zenon DEF ProgressInv
<1>4. /\ DOMAIN request = 1..Len(request) /\ DOMAIN request' = 1..Len(request)
      /\ Len(request) \in Nat /\ Len(request) <= MaxBuffers /\ Len(outputs) \in Nat
  BY <1>1, LenProperties DEF BufferInv, RequestKept
<1>5. index \in 1..MaxBuffers /\ index \in 1..Len(request) /\ index \notin DOMAIN outputs
  BY <1>2, <1>3, <1>4, CameraAssumption, LenProperties DEF index
<1>6. pc' \in {"fill", "result"} /\ (pc' = "fill" => index < Len(request))
                                /\ (pc' = "result" => index = Len(request))
  <2>1. pc' = IF index = Len(request) THEN "result" ELSE "fill"
    BY DEF FinishBuffer
  <2>2. index # Len(request) => index < Len(request)
    <3>1. \A n \in Nat : \A i \in 1..n : i # n => i < n
      OBVIOUS
    <3> QED
      BY <1>4, <1>5, <3>1, Zenon
  <2> QED
    BY <2>1, <2>2, Zenon
<1>7. events' \in Seq(Event) /\ Len(events') >= 1 /\ Reported(Len(events))'
  BY <1>1, <1>2, <1>5, ErrorReported DEF CallbackInv
<1>8. /\ outputs' \in Seq(Outcome) /\ Len(outputs') = index
      /\ outputs'[index] = outcome /\ \A i \in DOMAIN outputs : outputs'[i] = outputs[i]
      /\ DOMAIN outputs = 1..Len(outputs) /\ DOMAIN outputs' = 1..index
  BY <1>2, Finished
<1>9. 1..index = DOMAIN outputs \cup {index} /\ DOMAIN outputs' \subseteq DOMAIN request'
  BY <1>4, <1>5, <1>8 DEF index
<1>10. locked' \subseteq DOMAIN outputs'
  BY <1>1, <1>8, <1>9, Zenon DEF BufferInv
<1>11. ProgressInv'
  <2>1. /\ Len(outputs') = index /\ Len(request') = Len(request) /\ answer' = "none"
        /\ pc' \in {"fill", "result"}
    BY <1>3, <1>6, <1>8, Zenon DEF RequestKept
  <2> QED
    BY <1>6, <2>1, Zenon DEF ProgressInv, Serving
<1>12. CallbackInv'
  BY <1>3, <1>7, Zenon DEF CallbackInv
<1>13. BufferInv'
  <2>1. Len(outputs') <= Len(request')
    BY <1>5, <1>8 DEF RequestKept
  <2>2. pc' # "draw"
    BY <1>6
  <2>3. ASSUME NEW i \in DOMAIN request', i > Len(outputs')
        PROVE  request'[i].fence \in {"none", "pending"}
    <3>1. i \in DOMAIN request /\ i # index /\ i > Len(outputs)
      BY <1>4, <1>5, <1>8, <2>3 DEF index
    <3> QED
      BY <1>1, <3>1, Zenon DEF BufferInv, RequestKept
  <2> QED
    BY <1>4, <1>8, <1>10, <2>1, <2>2, <2>3, Zenon DEF BufferInv, RequestKept
<1>14. BuffersSettled'
  <2> SUFFICES ASSUME NEW i \in DOMAIN outputs'
               PROVE  /\ request'[i].fence # "pending"
                      /\ request'[i].fence = "returned" => ~request'[i].valid
                      /\ i \in locked' => outputs'[i] = IF Format[request'[i].stream] = "blob"
                                                         THEN "no_destination" ELSE "wrong_format"
    BY Zenon DEF BuffersSettled
  <2>1. CASE i = index
    <3>1. index \notin locked
      BY <1>1, <1>5 DEF BufferInv
    <3> QED
      BY <1>8, <2>1, <3>1, Zenon
  <2>2. CASE i # index
    <3>1. i \in DOMAIN outputs /\ i \in DOMAIN request
      BY <1>4, <1>8, <1>9, <2>2 DEF RequestKept
    <3>2. request'[i] = request[i] /\ outputs'[i] = outputs[i] /\ (i \in locked' => i \in locked)
      BY <1>8, <2>2, <3>1, Zenon DEF RequestKept
    <3> QED
      BY <1>1, <3>1, <3>2, Zenon DEF BuffersSettled
  <2> QED
    BY <2>1, <2>2
<1> QED
  BY <1>6, <1>11, <1>12, <1>13, <1>14, Zenon DEF CaptureInv

-----------------------------------------------------------------------------
(* Steps that leave the session alone.                                     *)
LEMMA SessionKept ==
  ASSUME SessionInv, UNCHANGED <<device, session, settled, source, lastSettings>>
  PROVE  SessionInv'
BY ZenonT(40) DEF SessionInv, SessionType, device, session, source, OutputDuration, SourceDuration

(* Steps that leave the request alone.                                     *)
LEMMA CaptureKept ==
  ASSUME CaptureInv, UNCHANGED capture
  PROVE  CaptureInv'
<1>1. UNCHANGED <<pc, request, outputs, events, answer, locked>>
  BY DEF capture
<1>2. ProgressInv'
  BY <1>1, Zenon DEF CaptureInv, ProgressInv, Unserved
<1>3. CallbackInv'
  BY <1>1, Zenon DEF CaptureInv, CallbackInv, Reported, Unfilled
<1>4. BufferInv' /\ BuffersSettled'
  BY <1>1, Zenon DEF CaptureInv, BufferInv, BuffersSettled, index
<1> QED
  BY <1>2, <1>3, <1>4 DEF CaptureInv

(* Time passes.                                                            *)
LEMMA TickStep ==
  ASSUME Inv, Tick
  PROVE  Inv'
<1>1. SessionInv' /\ CaptureInv'
  BY SessionKept, CaptureKept, Zenon DEF Inv, Tick
<1>2. since \in Nat /\ since' \in 0..Second
  BY CameraAssumption DEF Inv, Tick
<1> QED
  BY <1>1, <1>2, Zenon DEF Inv, Tick, ServedInv, session, capture

(* The calls that change the device while no request is served.            *)
LEMMA DeviceStep ==
  ASSUME Inv, Open \/ Close \/ Initialize \/ \E p \in Provider : SetSourcePath(p)
  PROVE  Inv'
<1>1. pc = "idle" /\ UNCHANGED capture /\ (since' = None \/ since' = since)
  BY Zenon DEF Open, Close, Initialize, SetSourcePath
<1>2. CaptureInv' /\ ServedInv' /\ since' \in 0..Second \cup {None}
  <2>1. pc' = "idle"
    BY <1>1 DEF capture
  <2> QED
    BY <1>1, <2>1, CaptureKept, Zenon DEF Inv, ServedInv, Serving
<1>3. ASSUME Open PROVE SessionInv'
  BY <1>3, Zenon DEF Inv, Open, SessionInv, SessionType, source, SourceDuration
<1>4. ASSUME Close PROVE SessionInv'
  BY <1>4, Zenon DEF Inv, Close, SessionInv, SessionType, source, SourceDuration
<1>5. ASSUME Initialize PROVE SessionInv'
  BY <1>5, Zenon
  DEF Inv, Initialize, SessionInv, SessionType, session, source, SourceDuration, OutputDuration
<1>6. ASSUME NEW p \in Provider, SetSourcePath(p) PROVE SessionInv'
  BY <1>6, Zenon
  DEF Inv, SetSourcePath, SessionInv, SessionType, device, session, SourceDuration, OutputDuration
<1> QED
  BY <1>2, <1>3, <1>4, <1>5, <1>6, Zenon DEF Inv

(* configureStreams() loads the source before it looks at the streams, so  *)
(* that the view is the path's whether or not the session starts.          *)
LEMMA ConfigureStep ==
  ASSUME Inv, NEW config \in Configurations, NEW p \in Provider, Configure(config, p)
  PROVE  Inv'
<1>1. pc = "idle" /\ UNCHANGED capture /\ UNCHANGED device
  BY Zenon DEF Configure
<1>2. pc' = "idle" /\ scoped' = scoped /\ open' = open /\ callbacks' = callbacks /\ gralloc' = gralloc
  BY <1>1 DEF capture, device
<1>3. CaptureInv' /\ ServedInv'
  BY <1>1, <1>2, CaptureKept, Zenon DEF Inv, ServedInv, Serving
<1>4. path' \in Provider \cup {None} /\ view' = path' /\ sourceDuration' = SourceDuration(path')
  BY Zenon DEF Inv, SessionInv, SessionType, Configure, LoadSourceConfiguration, SourceDuration
<1>5. sourceDuration' \in 1..Second
  BY <1>4, SourceDurationRange, Zenon
<1>6. CASE StartSession(path', Range(config))
  <2>1. OutputDuration(Range(config)) \in 1..Second /\ Range(config) \subseteq Stream
    BY OutputDurationRange, Zenon
  <2>2. SessionInv'
    BY <1>2, <1>4, <1>5, <1>6, <2>1, Zenon
    DEF Inv, SessionInv, SessionType, StartSession, FreeSettings, SourceDuration, OutputDuration
  <2> QED
    BY <1>3, <1>6, <2>2, Zenon DEF Inv, StartSession
<1>7. CASE settled' = FALSE /\ UNCHANGED <<session, lastSettings, since>>
  <2>1. SessionInv'
    BY <1>2, <1>4, <1>5, <1>7, Zenon
    DEF Inv, SessionInv, SessionType, session, SourceDuration, OutputDuration
  <2> QED
    BY <1>3, <1>7, <2>1, Zenon DEF Inv
<1> QED
  BY <1>6, <1>7, Zenon DEF Configure

(* processCaptureRequest(): a request is served or fails before it has     *)
(* touched a buffer or called the framework back.                          *)
LEMMA RequestStep ==
  ASSUME Inv, NEW n \in 1..MaxBuffers, NEW buffers \in Requests(n), NEW withSettings \in BOOLEAN,
         Request(buffers, withSettings)
  PROVE  Inv'
<1>1. /\ pc = "idle" /\ request' = buffers
      /\ UNCHANGED <<outputs, events, locked, device, session, settled, source, since>>
  BY Zenon DEF Request
<1>2. \/ pc' = "pace" /\ answer' = answer /\ lastSettings' = "current" /\ configured
      \/ pc' = "return" /\ answer' \in {"invalid", "no_memory"} /\ lastSettings' = lastSettings
  BY Zenon DEF Request, Inv, SessionInv, SessionType
<1>3. SessionInv'
  <2>1. lastSettings' \in {"current", None}
    BY <1>2, Zenon DEF Inv, SessionInv, SessionType
  <2> QED
    BY <1>1, <2>1, Zenon
    DEF Inv, SessionInv, SessionType, device, session, source, OutputDuration, SourceDuration
<1>4. ServedInv'
  BY <1>1, <1>2, Zenon DEF ServedInv, Serving, session
<1>5. Unserved' /\ answer = "none"
  BY <1>1, Zenon DEF Inv, CaptureInv, ProgressInv, Unserved
<1>6. /\ request' \in Seq(Buffer) /\ Len(request') = n /\ DOMAIN request' = 1..n
      /\ n \in Nat /\ n <= MaxBuffers /\ 0 < n
  <2>1. buffers \in [1..n -> Buffer] /\ n \in Nat /\ n <= MaxBuffers /\ 0 < n
    BY CameraAssumption DEF Requests, Buffers
  <2>2. buffers \in Seq(Buffer)
    BY <2>1, IsASeq
  <2> QED
    BY <1>1, <2>1, <2>2, LenProperties
<1>7. \A i \in 1..n : request'[i].fence \in {"none", "pending"}
  BY <1>1, Zenon DEF Requests, Buffers
<1>8. Len(outputs') = 0 /\ DOMAIN outputs' = {} /\ outputs' \in Seq(Outcome) /\ events' \in Seq(Event)
  BY <1>5, EmptySeq DEF Unserved
<1>9. ProgressInv'
  <2>1. Len(outputs') < Len(request')
    BY <1>6, <1>8
  <2> QED
    BY <1>2, <1>5, <2>1, Zenon DEF ProgressInv, Serving
<1>10. CallbackInv'
  BY <1>2, <1>5, <1>8, Zenon DEF CallbackInv
<1>11. BufferInv' /\ BuffersSettled'
  <2>1. Len(outputs') <= Len(request') /\ Len(request') <= MaxBuffers
    BY <1>6, <1>8
  <2>2. locked' \subseteq DOMAIN outputs' /\ pc' # "draw"
    BY <1>2, <1>5, Zenon DEF Unserved
  <2> QED
    BY <1>6, <1>7, <1>8, <2>1, <2>2, Zenon DEF BufferInv, BuffersSettled
<1> QED
  BY <1>1, <1>3, <1>4, <1>9, <1>10, <1>11, Zenon DEF Inv, CaptureInv

(* Steps of a request leave the session alone.                             *)
Outside == <<device, session, settled, source, lastSettings, since>>
(* They keep the invariant if they keep their own part of it.              *)
LEMMA ServingStep ==
  ASSUME Inv, pc \in Serving, UNCHANGED Outside, CaptureInv'
  PROVE  Inv'
<1>1. SessionInv'
  BY SessionKept, Zenon DEF Inv, Outside
<1> QED
  BY <1>1, Zenon DEF Inv, ServedInv, Outside, session

(* notifyShutter() is the first callback of a request.                     *)
LEMMA ShutterStep ==
  ASSUME Inv, Shutter
  PROVE  Inv'
<1>1. /\ pc = "pace" /\ pc' = "fill" /\ events' = Append(events, ShutterEvent) /\ since' = 0
      /\ UNCHANGED <<request, outputs, answer, locked>>
      /\ UNCHANGED <<device, session, settled, source, lastSettings>>
  BY Zenon DEF Shutter
<1>2. SessionInv' /\ ServedInv'
  BY <1>1, SessionKept, Zenon DEF Inv, ServedInv, Serving, session
<1>3. Unserved /\ answer = "none" /\ Len(outputs) < Len(request)
  BY <1>1, Zenon DEF Inv, CaptureInv, ProgressInv
<1>4. events' = <<ShutterEvent>> /\ Unfilled' = {}
  BY <1>1, <1>3 DEF Unserved, Unfilled
<1>5. events' \in Seq(Event) /\ Len(events') = 1 /\ events'[1] = ShutterEvent /\ 2..Len(events') = {}
  BY <1>4, EventTypes
<1>6. CallbackInv'
  <2>1. Reported(Len(events))'
    BY <1>4, <1>5, Zenon DEF Reported
  <2>2. Len(events') >= 1
    BY <1>5
  <2> QED
    BY <1>1, <1>3, <1>5, <2>1, <2>2, Zenon DEF CallbackInv
<1>7. ProgressInv'
  BY <1>1, <1>3, Zenon DEF ProgressInv, Serving
<1>8. BufferInv' /\ BuffersSettled'
  BY <1>1, Zenon DEF Inv, CaptureInv, BufferInv, BuffersSettled, index
<1>9. since' \in 0..Second \cup {None}
  BY <1>1, CameraAssumption
<1> QED
  BY <1>2, <1>6, <1>7, <1>8, <1>9, Zenon DEF Inv, CaptureInv

(* fillBuffer() up to the drawing: the buffer is given up with its fence   *)
(* closed or handed back, or is drawn with its fence closed.               *)
LEMMA FillBufferStep ==
  ASSUME Inv, FillBuffer
  PROVE  Inv'
<1> DEFINE buffer == request[index]
<1>1. CaptureInv /\ pc = "fill" /\ UNCHANGED Outside /\ answer' = answer /\ locked' = locked
  BY Zenon DEF Inv, FillBuffer, Outside
<1>2. /\ request \in Seq(Buffer) /\ outputs \in Seq(Outcome) /\ Len(outputs) < Len(request)
      /\ answer = "none"
  BY <1>1, Zenon DEF CaptureInv, BufferInv, ProgressInv
<1>3. index \in DOMAIN request /\ index > Len(outputs)
  BY <1>2, LenProperties DEF index
<1>4. buffer.fence \in {"none", "pending"}
  BY <1>1, <1>3, Zenon DEF CaptureInv, BufferInv
<1>5. {"invalid_buffer", "fence_failed"} \subseteq Outcome /\ {"none", "closed", "returned"} \subseteq Fence
  BY DEF Outcome, Fence
<1>6. ASSUME ~buffer.valid, SetFence(IF buffer.fence = "pending" THEN "returned" ELSE "none"),
             FinishBuffer("invalid_buffer")
      PROVE  CaptureInv'
  <2>1. PICK f \in {"returned", "none"} : SetFence(f)
    BY <1>6, Zenon
  <2>2. RequestKept /\ request'[index].fence = f
    BY <1>2, <1>3, <1>5, <2>1, FenceSet, Zenon
  <2>3. request'[index].fence # "pending" /\ ~request'[index].valid
    BY <1>6, <2>2, Zenon DEF RequestKept
  <2> QED
    BY <1>1, <1>5, <1>6, <2>2, <2>3, FinishStep, Zenon
<1>7. ASSUME SetFence("closed"), FinishBuffer("fence_failed")
      PROVE  CaptureInv'
  <2>1. RequestKept /\ request'[index].fence = "closed"
    BY <1>2, <1>3, <1>5, <1>7, FenceSet, Zenon
  <2>2. request'[index].fence # "pending" /\ request'[index].fence # "returned"
    BY <2>1, Zenon
  <2> QED
    BY <1>1, <1>5, <1>7, <2>1, <2>2, FinishStep, Zenon
<1>8. ASSUME pc' = "draw", UNCHANGED <<outputs, events>>, RequestKept,
             buffer.valid, request'[index].fence \in {"none", "closed"}
      PROVE  CaptureInv'
  <2>1. /\ DOMAIN outputs = 1..Len(outputs) /\ index = Len(outputs) + 1 /\ index' = index
        /\ DOMAIN request = DOMAIN request' /\ Len(outputs) \in Nat /\ DOMAIN request = 1..Len(request)
    BY <1>2, <1>8, LenProperties DEF index, RequestKept
  <2>2. \A i \in DOMAIN outputs : i \in DOMAIN request \ {index}
    BY <1>2, <2>1, LenProperties
  <2>3. ProgressInv'
    BY <1>1, <1>2, <1>8, Zenon DEF ProgressInv, Serving, RequestKept
  <2>4. CallbackInv'
    BY <1>1, <1>2, <1>8, ZenonT(40) DEF CaptureInv, CallbackInv, Reported, Unfilled
  <2>5. BufferInv'
    <3>1. \A i \in DOMAIN request' : i > Len(outputs') /\ i # index' => request'[i].fence \in {"none", "pending"}
      BY <1>1, <1>8, <2>1, Zenon DEF CaptureInv, BufferInv, RequestKept
    <3>2. request' \in Seq(Buffer) /\ Len(request') = Len(request) /\ request'[index'].valid
      BY <1>8, <2>1, Zenon DEF RequestKept
    <3> QED
      BY <1>1, <1>8, <2>1, <3>1, <3>2, Zenon DEF CaptureInv, BufferInv
  <2>6. BuffersSettled'
    <3>1. \A i \in DOMAIN outputs : request'[i] = request[i]
      BY <1>8, <2>2, Zenon DEF RequestKept
    <3> QED
      BY <1>1, <1>8, <3>1, ZenonT(40) DEF CaptureInv, BuffersSettled
  <2> QED
    BY <2>3, <2>4, <2>5, <2>6 DEF CaptureInv
<1>9. ASSUME UNCHANGED request PROVE RequestKept
  BY <1>2, <1>9, Zenon DEF RequestKept
<1>10. ASSUME SetFence("closed") PROVE RequestKept /\ request'[index].fence = "closed"
  BY <1>2, <1>3, <1>5, <1>10, FenceSet, Zenon
<1>11. \/ /\ ~buffer.valid /\ SetFence(IF buffer.fence = "pending" THEN "returned" ELSE "none")
          /\ FinishBuffer("invalid_buffer")
       \/ /\ buffer.valid /\ buffer.fence = "none" /\ pc' = "draw" /\ UNCHANGED <<request, outputs, events>>
       \/ /\ buffer.valid /\ SetFence("closed") /\ pc' = "draw" /\ UNCHANGED <<outputs, events>>
       \/ SetFence("closed") /\ FinishBuffer("fence_failed")
  BY Zenon DEF FillBuffer
<1>12. CaptureInv'
  <2>1. ASSUME buffer.valid, buffer.fence = "none", pc' = "draw", UNCHANGED <<request, outputs, events>>
        PROVE  CaptureInv'
    BY <1>8, <1>9, <2>1, Zenon
  <2>2. ASSUME buffer.valid, SetFence("closed"), pc' = "draw", UNCHANGED <<outputs, events>>
        PROVE  CaptureInv'
    BY <1>8, <1>10, <2>2, Zenon
  <2> QED
    BY <1>6, <1>7, <1>11, <2>1, <2>2, Zenon
<1> QED
  BY <1>1, <1>12, ServingStep, Zenon DEF Serving

(* fillYuv() and fillJpeg(): only their one return under a lock leaves the *)
(* buffer locked.                                                          *)
LEMMA DrawStep ==
  ASSUME Inv, FillYuv \/ FillJpeg
  PROVE  Inv'
<1>1. pc = "draw" /\ CaptureInv
  BY Zenon DEF Inv, FillYuv, FillJpeg
<1>2. PICK outcome \in Outcome :
        /\ Draw(outcome)
        /\ LeftLocked(outcome) => outcome = IF Format[request[index].stream] = "blob"
                                            THEN "no_destination" ELSE "wrong_format"
  <2>1. ASSUME FillYuv
        PROVE  \E outcome \in Outcome : /\ Draw(outcome)
                                        /\ Format[request[index].stream] # "blob"
                                        /\ LeftLocked(outcome) => outcome = "wrong_format"
    BY <2>1 DEF FillYuv, YuvOutcomes, Outcome, JpegOutcomes, LeftLocked
  <2>2. ASSUME FillJpeg
        PROVE  \E outcome \in Outcome : /\ Draw(outcome)
                                        /\ Format[request[index].stream] = "blob"
                                        /\ LeftLocked(outcome) => outcome = "no_destination"
    BY <2>2 DEF FillJpeg, Outcome, JpegOutcomes, LeftLocked
  <2> QED
    BY <2>1, <2>2, Zenon
<1>3. FinishBuffer(outcome) /\ UNCHANGED Outside /\ request' = request /\ answer' = answer
  BY <1>2, Zenon DEF Draw, Outside
<1>4. /\ request \in Seq(Buffer) /\ request[index].fence \in {"none", "closed"}
  BY <1>1, Zenon DEF CaptureInv, BufferInv
<1>5. RequestKept /\ request'[index].fence # "pending" /\ request'[index].fence # "returned"
  BY <1>3, <1>4, Zenon DEF RequestKept
<1>6. \/ locked' = locked
      \/ /\ locked' = locked \cup {index}
         /\ outcome = IF Format[request'[index].stream] = "blob" THEN "no_destination" ELSE "wrong_format"
  BY <1>2, <1>3, Zenon DEF Draw
<1>7. CaptureInv'
  BY <1>1, <1>3, <1>5, <1>6, FinishStep, Zenon
<1> QED
  BY <1>1, <1>3, <1>7, ServingStep, Zenon DEF Serving

(* The result is its last, after an error for each unfilled output.        *)
LEMMA ResultStep ==
  ASSUME Inv, Result
  PROVE  Inv'
<1>1. /\ pc = "result" /\ pc' = "return" /\ CaptureInv
      /\ UNCHANGED <<request, outputs, locked>> /\ UNCHANGED Outside
  BY Zenon DEF Inv, Result, Outside
<1>2. /\ Len(outputs) = Len(request) /\ events \in Seq(Event)
      /\ Len(events) >= 1 /\ Reported(Len(events))
  BY <1>1, Zenon DEF CaptureInv, ProgressInv, CallbackInv
<1>3. BufferInv' /\ BuffersSettled'
  BY <1>1, Zenon DEF CaptureInv, BufferInv, BuffersSettled, index
<1>4. ASSUME answer' = "ok", events' = Append(events, ResultEvent) PROVE ProgressInv' /\ CallbackInv'
  <2> DEFINE n == Len(events)
  <2>1. /\ events' \in Seq(Event) /\ Len(events') = n + 1 /\ n \in Nat
        /\ events'[n + 1] = ResultEvent /\ \A k \in 1..n : events'[k] = events[k]
    BY <1>2, <1>4, EventTypes, AppendProperties, LenProperties
  <2> HIDE DEF n
  <2>2. n >= 1 /\ Len(events') >= 2 /\ Len(events') - 1 = n /\ \A k \in 2..n : k \in 1..n
    BY <1>2, <2>1 DEF n
  <2>3. /\ events'[1] = events[1]
        /\ \A k \in 2..n : events'[k] = events[k]
    BY <2>1, <2>2
  <2>4. {events'[k] : k \in 2..n} = {events[k] : k \in 2..n} /\ Unfilled' = Unfilled
    BY <1>1, <2>3, Zenon DEF Unfilled
  <2>5. Reported(Len(events) - 1)'
    BY <1>2, <2>2, <2>3, <2>4, Zenon DEF Reported, n
  <2>6. CallbackInv'
    BY <1>1, <2>1, <2>2, <2>5, Zenon DEF CallbackInv
  <2> QED
    BY <1>1, <1>2, <1>4, <2>6, Zenon DEF ProgressInv, Serving
<1>5. ASSUME answer' = "no_memory", UNCHANGED events PROVE ProgressInv' /\ CallbackInv'
  BY <1>1, <1>2, <1>5, Zenon DEF ProgressInv, CallbackInv, Serving
<1>6. CaptureInv'
  BY <1>3, <1>4, <1>5, Zenon DEF Result, CaptureInv
<1> QED
  BY <1>1, <1>6, ServingStep, Zenon DEF Serving

(* Before and after a call there is nothing to know of a request.          *)
LEMMA NoRequest ==
  ASSUME pc = "idle", request = <<>>, outputs = <<>>, events = <<>>, answer = "none", locked = {}
  PROVE  CaptureInv
<1>1. /\ request \in Seq(Buffer) /\ outputs \in Seq(Outcome) /\ events \in Seq(Event)
      /\ Len(request) = 0 /\ Len(outputs) = 0 /\ DOMAIN request = {} /\ DOMAIN outputs = {}
  BY EmptySeq
<1>2. Len(request) <= MaxBuffers /\ Len(outputs) <= Len(request)
  BY <1>1, CameraAssumption
<1>3. ProgressInv /\ CallbackInv
  BY <1>1, Zenon DEF ProgressInv, CallbackInv, Serving, Unserved
<1>4. BufferInv /\ BuffersSettled
  BY <1>1, <1>2, Zenon DEF BufferInv, BuffersSettled
<1> QED
  BY <1>3, <1>4 DEF CaptureInv

(* processCaptureRequest() returns.                                        *)
LEMMA ReturnStep ==
  ASSUME Inv, Return
  PROVE  Inv'
<1>1. pc' = "idle" /\ UNCHANGED Outside
  BY Zenon DEF Return, Outside
<1>2. CaptureInv'
  <2>1. /\ request' \in Seq(Buffer) /\ outputs' \in Seq(Outcome) /\ events' \in Seq(Event)
        /\ Len(request') = 0 /\ Len(outputs') = 0 /\ DOMAIN request' = {} /\ DOMAIN outputs' = {}
    BY EmptySeq DEF Return
  <2>2. Len(request') <= MaxBuffers /\ Len(outputs') <= Len(request')
    BY <2>1, CameraAssumption
  <2>3. ProgressInv' /\ CallbackInv'
    BY <2>1, Zenon DEF Return, ProgressInv, CallbackInv, Serving, Unserved
  <2>4. BufferInv' /\ BuffersSettled'
    BY <2>1, <2>2, Zenon DEF Return, BufferInv, BuffersSettled
  <2> QED
    BY <2>3, <2>4 DEF CaptureInv
<1>3. SessionInv'
  BY <1>1, SessionKept, Zenon DEF Inv, Outside
<1> QED
  BY <1>1, <1>2, <1>3, Zenon DEF Inv, ServedInv, Serving, Outside

-----------------------------------------------------------------------------
(* A device that was never opened satisfies the invariant.                 *)
THEOREM InvInit == Init => Inv
<1> SUFFICES ASSUME Init PROVE Inv
  OBVIOUS
<1>1. CaptureInv
  BY NoRequest, Zenon DEF Init
<1>2. sourceDuration = SourceDuration(view) /\ outputDuration = Duration(DefaultFps)
  BY Zenon DEF Init, SourceDuration
<1>3. Duration(DefaultFps) \in 1..Second
  BY CameraAssumption, DurationRange
<1>4. SessionInv
  BY <1>2, <1>3, Zenon DEF Init, SessionInv, SessionType, SourceDuration
<1> QED
  BY <1>1, <1>4, Zenon DEF Init, Inv, ServedInv, Serving

(* Every call of the device and every step of a request keep it.           *)
THEOREM InvStep == Inv /\ [Next]_vars => Inv'
<1> SUFFICES ASSUME Inv, [Next]_vars PROVE Inv'
  OBVIOUS
<1>1. CASE UNCHANGED vars
  BY <1>1, SessionKept, CaptureKept, Zenon DEF Inv, ServedInv, vars, session, capture
<1>2. CASE Next
  BY <1>2, TickStep, DeviceStep, ConfigureStep, RequestStep, ShutterStep, FillBufferStep,
     DrawStep, ResultStep, ReturnStep, Zenon
  DEF Next, Steps
<1> QED
  BY <1>1, <1>2

(* The invariant holds in every reachable state of the device.             *)
THEOREM Invariance == Spec => []Inv
BY InvInit, InvStep, PTL DEF Spec

(* The state is well typed.                                                *)
THEOREM TypeCorrect == Spec => []TypeOK
<1>1. Inv => TypeOK
  <2> SUFFICES ASSUME Inv PROVE TypeOK
    OBVIOUS
  <2>1. locked \subseteq DOMAIN request
    BY LenProperties DEF Inv, CaptureInv, BufferInv
  <2> QED
    BY <2>1, Zenon
    DEF Inv, SessionInv, SessionType, CaptureInv, ProgressInv, CallbackInv, BufferInv, Serving, TypeOK
<1> QED
  BY <1>1, Invariance, PTL

(* A request that returns 0 has made exactly the callbacks of its outputs, *)
(* in order, and one refused early has made none (processRequestLocked).   *)
THEOREM CallbacksAreRight == Spec => []CallbacksMatchAnswer
<1>1. Inv => CallbacksMatchAnswer
  <2> SUFFICES ASSUME Inv PROVE CallbacksMatchAnswer
    OBVIOUS
  <2>1. answer # "none" => pc = "return"
    BY Zenon DEF Inv, CaptureInv, ProgressInv
  <2>2. ASSUME answer = "ok"
        PROVE  /\ Len(outputs) = Len(request) /\ Len(events) >= 2
               /\ Reported(Len(events) - 1) /\ events[Len(events)] = ResultEvent
    BY <2>1, <2>2, Zenon DEF Inv, CaptureInv, ProgressInv, CallbackInv
  <2>3. ASSUME answer \in {"invalid", "no_memory"}, Len(outputs) < Len(request)
        PROVE  events = <<>> /\ \A i \in DOMAIN request : request[i].fence \in {"none", "pending"}
    <3>1. Len(outputs) # Len(request)
      BY <2>3, LenProperties DEF Inv, CaptureInv, BufferInv
    <3>2. Unserved
      BY <2>1, <2>3, <3>1, Zenon DEF Inv, CaptureInv, ProgressInv
    <3>3. \A i \in DOMAIN request : i > Len(outputs)
      BY <3>2, EmptySeq, LenProperties DEF Inv, CaptureInv, BufferInv, Unserved
    <3> QED
      BY <2>1, <2>3, <3>2, <3>3, Zenon DEF Inv, CaptureInv, BufferInv, Unserved
  <2> QED
    BY <2>2, <2>3 DEF CallbacksMatchAnswer
<1> QED
  BY <1>1, Invariance, PTL

(* No fence of a finished output stays open (fillBuffer), and only the two *)
(* unusable answers of gralloc leave a buffer locked.                      *)
THEOREM NoFenceLeaks == Spec => []BuffersSettled
<1>1. Inv => BuffersSettled
  BY DEF Inv, CaptureInv
<1> QED
  BY <1>1, Invariance, PTL

(* A frame and its settings belong to the session (loadSourceConfiguration *)
(* and configureStreams): no frame is drawn from a mixture of two sources. *)
THEOREM SessionsDoNotMix == Spec => []ServedFromThisSession
<1>1. Inv => ServedFromThisSession
  BY Zenon DEF Inv, SessionInv, ServedInv, Serving, ServedFromThisSession
<1> QED
  BY <1>1, Invariance, PTL

(* Two shutters are never closer than the pixel rate of the streams and    *)
(* the provider's own rate allow (updateFrameDurationLocked).              *)
THEOREM ShuttersArePaced == Spec => Paced
<1> DEFINE Apart == (pc = "pace" /\ pc' = "fill" /\ since # None) =>
         /\ since >= OutputDuration(streams)
         /\ settled /\ route # None /\ Fps[route] \in 1..MaxFps => since >= Duration(Fps[route])
<1>1. Inv /\ [Next]_vars => [Apart]_vars
  <2> SUFFICES ASSUME Inv, Next, pc = "pace", pc' = "fill", since # None
               PROVE  /\ since >= OutputDuration(streams)
                      /\ settled /\ route # None /\ Fps[route] \in 1..MaxFps
                           => since >= Duration(Fps[route])
    BY Zenon
  <2>1. Shutter
    <3>1. pc' # pc
      OBVIOUS
    <3> QED
      BY <3>1, Zenon
      DEF Next, Steps, Tick, Open, Close, Initialize, SetSourcePath, Configure, Request, FillBuffer,
          FillYuv, FillJpeg, Result, Return, capture
  <2>2. since \in Int /\ sourceDuration \in Int /\ outputDuration \in Int
    BY CameraAssumption DEF Inv, SessionInv, SessionType
  <2>3. FrameDuration >= sourceDuration /\ FrameDuration >= outputDuration /\ FrameDuration \in Int
    BY <2>2, PairMax, Zenon DEF FrameDuration
  <2>4. since >= FrameDuration
    BY <2>1, Zenon DEF Shutter
  <2>5. since >= sourceDuration /\ since >= outputDuration
    BY <2>2, <2>3, <2>4
  <2>6. outputDuration = OutputDuration(streams) /\ sourceDuration = SourceDuration(view)
    BY Zenon DEF Inv, SessionInv, ServedInv, Serving
  <2>7. settled => view = route
    BY Zenon DEF Inv, SessionInv
  <2> QED
    BY <2>5, <2>6, <2>7, Zenon DEF SourceDuration
<1> QED
  BY <1>1, Invariance, PTL DEF Spec, Paced

=============================================================================
