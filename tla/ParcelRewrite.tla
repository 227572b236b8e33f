---------------------------- MODULE ParcelRewrite ----------------------------
(***************************************************************************)
(* Replacing camera IDs inside Binder parcels: one ID of a camera service  *)
(* transaction (Android14CameraIdRewriter.cpp) and the IDs of a batch of   *)
(* capture requests sent to a device that was opened under another ID      *)
(* (Android14CameraDeviceUserRouter.cpp).                                  *)
(*                                                                         *)
(* A parcel is a sequence of cells, a field occupies as many as its width; *)
(* cell k of a field is <<field, k>>.  IDs have different widths, so a     *)
(* replacement moves all that follows and the read position with it.       *)
(***************************************************************************)
EXTENDS Integers, Sequences, SequencesExt

CONSTANTS
  Id, Width,         \* camera IDs and the cells of their strings
  ValidId,           \* IDs of 1 to 255 ASCII characters
  BodyWidth,         \* widths of what follows an ID in a request
  MaxRequests,       \* requests of a batch
  None

HeaderWidth == 2     \* interface header and request count
FrontWidth == 1      \* presence and settings count of a request

(* A capture request: its logical camera, the width of the rest, and       *)
(* whether the rest has the layout the router knows.                       *)
Request == [id : Id, body : BodyWidth, known : BOOLEAN]
Batch == UNION {[1..n -> Request] : n \in 1..MaxRequests}

Cells(f, n) == [k \in 1..n |-> <<f, k>>]
IdCells(c) == Cells(c, Width[c])
Flatten(b) ==
  FlattenSeq([i \in DOMAIN b |->
    Cells("front", FrontWidth) \o IdCells(b[i].id) \o Cells("body", b[i].body)])
Flat(b) == Cells("header", HeaderWidth) \o Flatten(b) \o Cells("streaming", 1)
IdStart(b, i) == HeaderWidth + Len(Flatten(SubSeq(b, 1, i - 1))) + FrontWidth

-----------------------------------------------------------------------------
observeCaptureRequest(r, public) == r.id = public /\ r.known

(* Where the IDs are; None unless all requests are understood and name the *)
(* public camera.                                                          *)
observeRequestOffsets(b, public) ==
  IF \E i \in DOMAIN b : ~observeCaptureRequest(b[i], public) THEN None
  ELSE [i \in DOMAIN b |->
         [start |-> IdStart(b, i), end |-> IdStart(b, i) + Width[b[i].id]]]

(* Mutant: the position is not moved with the data.                        *)
NextSegmentFixed(input, position, device, acc, o) ==
  [out |-> acc.out \o SubSeq(input, acc.source + 1, o.start) \o IdCells(device),
   source |-> o.end, position |-> position]

(* One turn of the loop of rewriteRequestIds().                            *)
NextSegment(input, position, device, acc, o) ==
  LET out == acc.out \o SubSeq(input, acc.source + 1, o.start) \o IdCells(device)
  IN [out |-> out, source |-> o.end,
      position |-> CASE acc.position # None -> acc.position
                     [] acc.position = None /\ position <= o.start ->
                          Len(acc.out) + (position - acc.source)
                     [] acc.position = None /\ o.start < position /\ position < o.end -> Len(out)
                     [] OTHER -> None]

rewriteRequestIds(input, position, offsets, device) ==
  LET Turn(acc, o) == NextSegment(input, position, device, acc, o)
      last == FoldLeft(Turn, [out |-> <<>>, source |-> 0, position |-> None], offsets)
      out == last.out \o SubSeq(input, last.source + 1, Len(input))
  IN [data |-> out,
      position |-> IF last.position # None THEN last.position
                   ELSE Len(out) - (Len(input) - position)]

(* Mutant: a position behind the ID is kept.                               *)
remapBehind(position, start, end, replacementEnd) ==
  IF position < end /\ position > start THEN replacementEnd ELSE position

remapDataPosition(position, start, end, replacementEnd) ==
  IF position <= start THEN position
  ELSE IF position < end THEN replacementEnd ELSE replacementEnd + (position - end)

rewriteAndroid14CameraId(input, position, o, replacement) ==
  LET front == SubSeq(input, 1, o.start) \o IdCells(replacement)
  IN [data |-> front \o SubSeq(input, o.end + 1, Len(input)),
      position |-> remapDataPosition(position, o.start, o.end, Len(front))]

-----------------------------------------------------------------------------
VARIABLES
  opened,        \* device the service opened and the name it was asked for, or None
  wrapper,       \* the RoutedCameraDeviceUser the application got, or None
  batch, position, sent     \* the last submission and the parcel that was forwarded

vars == <<opened, wrapper, batch, position, sent>>

TypeOK ==
  /\ {opened, wrapper} \subseteq [public : Id, device : Id] \cup {None}
  /\ (batch = None \/ batch \in Batch) /\ position \in Nat
  /\ sent # None => /\ sent.position \in 0..Len(sent.data)
                    /\ Len(sent.data) >= HeaderWidth

Init == opened = None /\ wrapper = None /\ batch = None /\ position = 0 /\ sent = None

(* wrapAndroid14CameraDeviceUserReply() of a reply with a device.          *)
Wrap(public, device) == [public |-> public, device |-> device]

(* A rewritten connectDevice opened the device.  The application gets it   *)
(* bare when the reply could not be read or written.                       *)
Connect(public, device) ==
  /\ opened = None /\ public # device /\ device \in ValidId
  /\ opened' = [public |-> public, device |-> device]
  /\ wrapper' \in {Wrap(public, device), None}
  /\ UNCHANGED <<batch, position, sent>>

(* RoutedCameraDeviceUser::onTransact() of submitRequest(List): a batch    *)
(* that is not understood as a whole is forwarded as it is.                *)
Submit(b, p) ==
  /\ p <= Len(Flat(b)) /\ batch' = b /\ position' = p
  /\ LET offsets == IF wrapper = None THEN None ELSE observeRequestOffsets(b, wrapper.public)
     IN sent' = IF offsets = None \/ wrapper.device \notin ValidId
                  THEN [data |-> Flat(b), position |-> p]
                  ELSE rewriteRequestIds(Flat(b), p, offsets, wrapper.device)
  /\ UNCHANGED <<opened, wrapper>>

Close ==
  /\ opened # None /\ opened' = None /\ wrapper' = None
  /\ batch' = None /\ position' = 0 /\ sent' = None

Use ==
  \/ opened # None /\ batch = None /\ \E b \in Batch : \E p \in 0..Len(Flat(b)) : Submit(b, p)
  \/ Close

Next == Use \/ \E c, d \in Id : Connect(c, d)

Spec == Init /\ [][Next]_vars

-----------------------------------------------------------------------------
Renamed(b, c) == [i \in DOMAIN b |-> [b[i] EXCEPT !.id = c]]
Understood(b, c) == \A i \in DOMAIN b : b[i].id = c /\ b[i].known

(* Capture requests that name the camera the application asked for arrive  *)
(* naming the camera that was opened, every other cell untouched; any      *)
(* other batch arrives as it was sent, never rewritten in part.            *)
RequestsNameTheirDevice ==
  sent # None /\ wrapper # None =>
    sent.data = IF Understood(batch, opened.public)
                  THEN Flat(Renamed(batch, opened.device)) ELSE Flat(batch)

(* The reader of a rewritten parcel continues at the field where the       *)
(* reader of the original would, or behind the ID if that was inside it.   *)
PositionKeepsItsField ==
  sent # None /\ sent.data # Flat(batch) =>
    LET new == Renamed(batch, opened.device)
        shift == Width[opened.device] - Width[opened.public]
        EndsBefore(i) == IdStart(batch, i) + Width[opened.public] <= position
        Inside(i) == IdStart(batch, i) < position /\ ~EndsBefore(i)
    IN /\ (\A i \in DOMAIN batch : ~Inside(i)) =>
            sent.position = position + shift * Len(SelectSeq([i \in DOMAIN batch |-> i], EndsBefore))
       /\ \A i \in DOMAIN batch : Inside(i) =>
            sent.position = IdStart(new, i) + Width[opened.device]

(* Both rewriters do the same to a parcel with one ID.                     *)
RewritersAgree ==
  sent # None /\ Len(batch) = 1 /\ sent.data # Flat(batch) =>
    sent = rewriteAndroid14CameraId(Flat(batch), position,
             observeRequestOffsets(batch, opened.public)[1], opened.device)
=============================================================================
