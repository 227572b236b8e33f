-------------------------- MODULE FramePublication ---------------------------
(***************************************************************************)
(* The frame file of a provider: vcam-publisher (native/frame_publisher.c) *)
(* and vcam-streamer (native/stream_provider.c) write frame.rgb.new and    *)
(* rename it to frame.rgb; the camera's RgbFrame (hal/src/RgbFrame.cpp)    *)
(* reads frame.rgb before each buffer.                                     *)
(*                                                                         *)
(* A file is an inode with numbered blocks; block 1 is the header and      *)
(* belongs to the frame whose block it is.  Both writers use one temporary *)
(* name, an open file survives the loss of its name, and a block no one    *)
(* wrote before a later one reads as zeros.                                *)
(***************************************************************************)
EXTENDS Integers, FiniteSets

CONSTANTS
  Publisher, Streamer,   \* processes of the two programs
  Frame,                 \* frames that may be written
  Size,                  \* Size[f]: blocks of a frame, header included
  Sequence,              \* Sequence[f]: its change sequence number
  MaxSize,               \* largest number of blocks
  Inode, None, Idle, Torn

ASSUME FrameAssumption ==
  /\ MaxSize \in Nat \ {0} /\ Size \in [Frame -> 1..MaxSize]
  /\ None \notin Frame /\ Torn \notin Frame /\ Idle \notin Frame \cup {None, Torn}
  /\ Torn # None /\ None \notin Inode

Writer == Publisher \cup Streamer

VARIABLES
  target, temporary,     \* inodes of frame.rgb and frame.rgb.new, or None
  content,               \* content[i][k]: frame whose block k is at k in i
  wpc, wfile, wframe, written,    \* per writer
  rpc, rfile, rframe, rpos, buffer,   \* the camera's reload
  loaded                 \* pixels_ and header of RgbFrame, Empty after reset

names == <<target, temporary>>
writers == <<wpc, wfile, wframe, written>>
reader == <<rpc, rfile, rframe, rpos, buffer>>
vars == <<names, content, writers, reader, loaded>>

Block == 1..MaxSize
Blocks == [Block -> Frame \cup {None}]
Empty == [k \in Block |-> None]
Image(f) == [k \in Block |-> IF k <= Size[f] THEN f ELSE None]
EndOf(c, k) == \A j \in Block : j > k => c[j] = None    \* no data after block k

TypeOK ==
  /\ target \in Inode \cup {None} /\ temporary \in Inode \cup {None}
  /\ content \in [Inode -> Blocks]
  /\ wpc \in [Writer -> {"idle", "write"}] /\ wfile \in [Writer -> Inode \cup {None}]
  /\ wframe \in [Writer -> Frame \cup {None}] /\ written \in [Writer -> 0..MaxSize]
  /\ rpc \in {"idle", "header", "payload"} /\ rfile \in Inode \cup {None}
  /\ rframe \in Frame \cup {None} /\ rpos \in 0..MaxSize /\ buffer \in Blocks
  /\ loaded \in Blocks

Init ==
  /\ target = None /\ temporary = None /\ content = [i \in Inode |-> Empty]
  /\ wpc = [w \in Writer |-> "idle"] /\ wfile = [w \in Writer |-> None]
  /\ wframe = [w \in Writer |-> None] /\ written = [w \in Writer |-> 0]
  /\ rpc = "idle" /\ rfile = None /\ rframe = None /\ rpos = 0 /\ buffer = Empty
  /\ loaded = Empty

-----------------------------------------------------------------------------
InUse == {target, temporary, rfile} \cup {wfile[w] : w \in Writer}

WriteTo(w, f, i) ==
  /\ wpc' = [wpc EXCEPT ![w] = "write"] /\ wfile' = [wfile EXCEPT ![w] = i]
  /\ wframe' = [wframe EXCEPT ![w] = f] /\ written' = [written EXCEPT ![w] = 0]

(* open(O_CREAT | O_TRUNC) of the temporary name.                          *)
OpenTemporary(w, f) ==
  \E i \in Inode :
    /\ i = temporary \/ (temporary = None /\ i \notin InUse)
    /\ temporary' = i /\ UNCHANGED target /\ content' = [content EXCEPT ![i] = Empty]
    /\ WriteTo(w, f, i)

(* vcam-publisher has read a valid header from its input.                  *)
PublisherBegin(w, f) ==
  /\ w \in Publisher /\ wpc[w] = "idle"
  /\ OpenTemporary(w, f) /\ UNCHANGED <<reader, loaded>>

(* publish_frame() of vcam-streamer.                                       *)
StreamerBegin(w, f) ==
  /\ w \in Streamer /\ wpc[w] = "idle"
  /\ OpenTemporary(w, f) /\ UNCHANGED <<reader, loaded>>

WriteBlock(w) ==
  /\ wpc[w] = "write" /\ written[w] < Size[wframe[w]]
  /\ written' = [written EXCEPT ![w] = @ + 1]
  /\ content' = [content EXCEPT ![wfile[w]][written[w] + 1] = wframe[w]]
  /\ UNCHANGED <<names, wpc, wfile, wframe, reader, loaded>>

EndWrite(w) ==
  /\ wpc' = [wpc EXCEPT ![w] = "idle"] /\ wfile' = [wfile EXCEPT ![w] = None]
  /\ wframe' = [wframe EXCEPT ![w] = None] /\ written' = [written EXCEPT ![w] = 0]

(* Mutant: the file is renamed when its header has been written.           *)
CommitEarly(w) ==
  /\ wpc[w] = "write" /\ written[w] >= 1
  /\ target' = (IF temporary = None THEN target ELSE temporary) /\ temporary' = None
  /\ EndWrite(w) /\ UNCHANGED <<content, reader, loaded>>

(* close() and rename(); rename fails when the temporary name is gone.     *)
Commit(w) ==
  /\ wpc[w] = "write" /\ written[w] = Size[wframe[w]]
  /\ target' = (IF temporary = None THEN target ELSE temporary) /\ temporary' = None
  /\ EndWrite(w) /\ UNCHANGED <<content, reader, loaded>>

(* A failed write, close or short input: the temporary name is unlinked.   *)
GiveUp(w) ==
  /\ wpc[w] = "write"
  /\ temporary' = None /\ UNCHANGED target
  /\ EndWrite(w) /\ UNCHANGED <<content, reader, loaded>>

(* The writer is killed and leaves its temporary file behind.              *)
Kill(w) ==
  /\ wpc[w] = "write"
  /\ EndWrite(w) /\ UNCHANGED <<names, content, reader, loaded>>

(* vcamctl removes the frame before a start and with its provider.         *)
Remove ==
  /\ target # None /\ target' = None
  /\ UNCHANGED <<temporary, content, writers, reader, loaded>>

-----------------------------------------------------------------------------
EndReload ==
  /\ rpc' = "idle" /\ rfile' = None /\ rframe' = None /\ rpos' = 0 /\ buffer' = Empty

(* reloadIfChanged(): a frame that does not exist resets the camera's.     *)
OpenFrame ==
  /\ rpc = "idle"
  /\ IF target = None
       THEN loaded' = Empty /\ UNCHANGED reader
       ELSE /\ rpc' = "header" /\ rfile' = target
            /\ UNCHANGED <<loaded, rframe, rpos, buffer>>
  /\ UNCHANGED <<names, content, writers>>

(* Mutant: frames are told apart by their size.                            *)
UnchangedSize(f) == loaded # Empty /\ Size[loaded[1]] = Size[f]

(* The loaded frame and the file's have one size and sequence number.      *)
Unchanged(f) ==
  /\ loaded # Empty
  /\ Size[loaded[1]] = Size[f] /\ Sequence[loaded[1]] = Sequence[f]

ReadHeader ==
  /\ rpc = "header"
  /\ LET f == content[rfile][1] IN
     IF f = None \/ (f # None /\ Unchanged(f))
       THEN EndReload
       ELSE /\ rpc' = "payload" /\ rframe' = f /\ rpos' = 1
            /\ buffer' = [Empty EXCEPT ![1] = f] /\ UNCHANGED rfile
  /\ UNCHANGED <<names, content, writers, loaded>>

(* A short payload or a trailing byte leaves the loaded frame in place.    *)
ReadPayload ==
  /\ rpc = "payload"
  /\ \/ /\ rpos < Size[rframe] /\ ~EndOf(content[rfile], rpos)
        /\ rpos' = rpos + 1 /\ buffer' = [buffer EXCEPT ![rpos + 1] = content[rfile][rpos + 1]]
        /\ UNCHANGED <<rpc, rfile, rframe, loaded>>
     \/ /\ rpos < Size[rframe] /\ EndOf(content[rfile], rpos)
        /\ EndReload /\ UNCHANGED loaded
     \/ /\ rpos = Size[rframe]
        /\ EndReload /\ loaded' = IF EndOf(content[rfile], rpos) THEN buffer ELSE loaded
  /\ UNCHANGED <<names, content, writers>>

-----------------------------------------------------------------------------
Write(w) ==
  \/ \E f \in Frame : PublisherBegin(w, f) \/ StreamerBegin(w, f)
  \/ WriteBlock(w) \/ Commit(w) \/ GiveUp(w) \/ Kill(w)
Reload == OpenFrame \/ ReadHeader \/ ReadPayload

Next == (\E w \in Writer : Write(w)) \/ Remove \/ Reload

Spec == Init /\ [][Next]_vars
(* The camera reloads before every buffer as long as requests arrive.      *)
FairSpec == Spec /\ WF_vars(Reload)

-----------------------------------------------------------------------------
Whole(c) == c[1] # None /\ c = Image(c[1])

(* The camera tells frames apart by size and sequence number only: frames  *)
(* that agree in both are one version, named by one of them.               *)
Like(size, sequence) == CHOOSE g \in Frame : Size[g] = size /\ Sequence[g] = sequence
Version(f) == Like(Size[f], Sequence[f])
FrameOf(c) == IF c = Empty THEN None ELSE IF Whole(c) THEN Version(c[1]) ELSE Torn

(* The camera never shows a frame put together from two frames, nor one    *)
(* with missing blocks: what RgbFrame::load keeps is what some writer      *)
(* wrote from header to last block.                                        *)
NoTornFrame == loaded = Empty \/ Whole(loaded)

current == IF target = None THEN None ELSE FrameOf(content[target])
seen == IF rpc = "idle" THEN Idle ELSE FrameOf(content[rfile])
shown == FrameOf(loaded)

(* One writer at a time is what the atomic replacement rests on.  Where    *)
(* sequence numbers tell frames of one size apart, a version is a frame.   *)
OneWriter == \A v, w \in Writer : v = w
SequencesDiffer == \A f, g \in Frame : Size[f] = Size[g] /\ Sequence[f] = Sequence[g] => f = g

A == INSTANCE AtomicFrame

(* Publication through a temporary file implements an atomic register of   *)
(* frame versions, writers being killed and frames removed at any time.    *)
ReplacesAtomically == A!Spec

(* When the version of the frame in place stays, the camera ends up        *)
(* showing a frame of that version.  It need not be the same frame: one    *)
(* that reuses the size and sequence number of the loaded frame is never   *)
(* read (reloadIfChanged).                                                 *)
ShowsCurrent == \A f \in Frame : <>[](current = f) => <>[](shown = f)
=============================================================================
