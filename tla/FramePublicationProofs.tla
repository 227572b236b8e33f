----------------------- MODULE FramePublicationProofs ------------------------
(***************************************************************************)
(* Proofs about FramePublication, for any frames, sizes, sequence numbers  *)
(* and inodes: with one writer, publication through a temporary file       *)
(* implements the atomic register of AtomicFrame.                          *)
(***************************************************************************)
EXTENDS FramePublication, TLAPS

Prefix(f, n) == [k \in Block |-> IF k <= n THEN f ELSE None]

(* A writer owns the temporary file, which holds what it has written; the  *)
(* published file and the one being read are whole and not that file.      *)
WriterInv ==
  \A w \in Writer :
    /\ wpc[w] = "write" => /\ wframe[w] \in Frame /\ written[w] <= Size[wframe[w]]
                           /\ wfile[w] = temporary /\ temporary # None
                           /\ content[temporary] = Prefix(wframe[w], written[w])
    /\ wpc[w] = "idle" => wfile[w] = None

FilesInv ==
  /\ target # None => Whole(content[target]) /\ target # temporary
  /\ rpc # "idle" => rfile # None /\ Whole(content[rfile]) /\ rfile # temporary
  /\ rpc = "idle" => rfile = None

ReaderInv ==
  /\ rpc = "payload" => /\ rframe \in Frame /\ rframe = content[rfile][1]
                        /\ rpos \in 1..Size[rframe] /\ buffer = Prefix(rframe, rpos)
  /\ NoTornFrame

IInv == TypeOK /\ WriterInv /\ FilesInv /\ ReaderInv

-----------------------------------------------------------------------------
(* The first blocks of a frame are file contents.                          *)
LEMMA PrefixType == ASSUME NEW f \in Frame, NEW n \in 0..MaxSize PROVE Prefix(f, n) \in Blocks
BY DEF Prefix, Blocks

(* So is a file just truncated.                                            *)
LEMMA EmptyType == Empty \in Blocks
BY DEF Empty, Blocks

(* A frame is the longest of its prefixes.                                 *)
LEMMA ImageIsPrefix == ASSUME NEW f \in Frame PROVE Image(f) = Prefix(f, Size[f])
BY DEF Image, Prefix

(* A frame is of the size and sequence number of its version.              *)
LEMMA VersionType ==
  ASSUME NEW f \in Frame
  PROVE  Version(f) \in Frame /\ Size[Version(f)] = Size[f] /\ Sequence[Version(f)] = Sequence[f]
BY Zenon DEF Version, Like

(* Where sequence numbers tell frames apart, a version is a frame.         *)
LEMMA VersionIsFrame == ASSUME SequencesDiffer, NEW f \in Frame PROVE Version(f) = f
BY VersionType, Zenon DEF SequencesDiffer

(* A whole file is not empty and shows the version of its header's frame.  *)
LEMMA WholeFrame ==
  ASSUME NEW c \in Blocks, Whole(c)
  PROVE  /\ c # Empty /\ c[1] \in Frame /\ c = Image(c[1])
         /\ FrameOf(c) = Version(c[1]) /\ FrameOf(c) \in Frame
<1>1. 1 \in Block
  BY FrameAssumption DEF Block
<1>2. Empty[1] = None
  BY <1>1 DEF Empty
<1>3. c[1] \in Frame
  BY <1>1 DEF Whole, Blocks
<1> QED
  BY <1>1, <1>2, <1>3, VersionType DEF Whole, FrameOf

(* A frame written to its end is whole.                                    *)
LEMMA ImageIsWhole ==
  ASSUME NEW f \in Frame PROVE Image(f) \in Blocks /\ Whole(Image(f)) /\ Image(f)[1] = f
<1>1. 1 \in Block /\ 1 <= Size[f]
  BY FrameAssumption DEF Block
<1>2. Image(f)[1] = f
  BY <1>1 DEF Image
<1> QED
  BY <1>2, FrameAssumption DEF Whole, Image, Blocks

(* Writing one more block extends the prefix.                              *)
LEMMA NextBlock ==
  ASSUME NEW f \in Frame, NEW n \in 0..MaxSize, n + 1 \in Block
  PROVE  [Prefix(f, n) EXCEPT ![n + 1] = f] = Prefix(f, n + 1)
<1>1. \A k \in Block : k \in Int
  BY FrameAssumption DEF Block
<1> DEFINE p == [Prefix(f, n) EXCEPT ![n + 1] = f]  q == Prefix(f, n + 1)
<1>2. /\ p = [k \in Block |-> p[k]] /\ q = [k \in Block |-> q[k]]
  BY Zenon DEF Prefix
<1>3. ASSUME NEW k \in Block PROVE p[k] = q[k]
  BY <1>1 DEF Prefix
<1> HIDE DEF p, q
<1>4. p = q
  BY <1>2, <1>3
<1> QED
  BY <1>4 DEF p, q

(* Nothing written is an empty file.                                       *)
LEMMA PrefixZero == ASSUME NEW f \in Frame PROVE Prefix(f, 0) = Empty
BY DEF Prefix, Empty, Block

(* No file, no writer and no reader at first.                              *)
LEMMA InitInv == Init => IInv
<1> SUFFICES ASSUME Init PROVE IInv
  OBVIOUS
<1>1. TypeOK
  BY EmptyType, FrameAssumption DEF Init, TypeOK
<1> QED
  BY <1>1 DEF Init, IInv, WriterInv, FilesInv, ReaderInv, NoTornFrame

-----------------------------------------------------------------------------
(* Truncating or creating the temporary file.                              *)
LEMMA OpenStep ==
  ASSUME OneWriter, IInv, NEW w \in Writer, NEW f \in Frame, wpc[w] = "idle",
         OpenTemporary(w, f), UNCHANGED <<reader, loaded>>
  PROVE  IInv'
<1> USE FrameAssumption DEF IInv
<1>0. PICK i \in Inode :
        /\ i = temporary \/ (temporary = None /\ i \notin InUse)
        /\ temporary' = i /\ target' = target /\ content' = [content EXCEPT ![i] = Empty]
        /\ WriteTo(w, f, i)
  BY Zenon DEF OpenTemporary
<1>1. /\ wpc' = [wpc EXCEPT ![w] = "write"] /\ wfile' = [wfile EXCEPT ![w] = i]
      /\ wframe' = [wframe EXCEPT ![w] = f] /\ written' = [written EXCEPT ![w] = 0]
      /\ rpc' = rpc /\ rfile' = rfile /\ rframe' = rframe /\ rpos' = rpos
      /\ buffer' = buffer /\ loaded' = loaded
  BY <1>0 DEF WriteTo, reader
<1>2. i # target /\ i # rfile
  BY <1>0 DEF InUse, FilesInv, TypeOK
<1>3. TypeOK'
  BY <1>0, <1>1, EmptyType DEF TypeOK
<1>4. \A j \in Inode : j # i => content'[j] = content[j]
  BY <1>0 DEF TypeOK
<1>5. content'[i] = Prefix(f, 0)
  BY <1>0, PrefixZero DEF TypeOK
<1>6. WriterInv'
  <2> SUFFICES ASSUME NEW v \in Writer PROVE
        /\ wpc'[v] = "write" => /\ wframe'[v] \in Frame /\ written'[v] <= Size[wframe'[v]]
                               /\ wfile'[v] = temporary' /\ temporary' # None
                               /\ content'[temporary'] = Prefix(wframe'[v], written'[v])
        /\ wpc'[v] = "idle" => wfile'[v] = None
    BY DEF WriterInv
  <2>1. v = w
    BY DEF OneWriter
  <2> QED
    BY <2>1, <1>0, <1>1, <1>5 DEF TypeOK
<1>7. FilesInv'
  BY <1>0, <1>1, <1>2, <1>4 DEF FilesInv, TypeOK, Whole
<1>8. ReaderInv'
  BY <1>0, <1>1, <1>2, <1>4 DEF ReaderInv, FilesInv, TypeOK, NoTornFrame
<1> QED
  BY <1>3, <1>6, <1>7, <1>8

(* publish_frame() writes one more block of its temporary file.            *)
LEMMA WriteStep == ASSUME OneWriter, IInv, NEW w \in Writer, WriteBlock(w) PROVE IInv'
<1> USE FrameAssumption DEF IInv
<1> DEFINE f == wframe[w]  n == written[w]
<1>1. /\ f \in Frame /\ n \in 0..MaxSize /\ n + 1 \in Block /\ wpc[w] = "write"
      /\ wfile[w] = temporary /\ temporary \in Inode /\ content[temporary] = Prefix(f, n)
  BY DEF WriteBlock, WriterInv, TypeOK, Block
<1>2. /\ written' = [written EXCEPT ![w] = n + 1]
      /\ content' = [content EXCEPT ![temporary] = Prefix(f, n + 1)]
      /\ UNCHANGED <<names, wpc, wfile, wframe, reader, loaded>>
  <2>1. [content[temporary] EXCEPT ![n + 1] = f] = Prefix(f, n + 1)
    BY <1>1, NextBlock
  <2>2. content' = [content EXCEPT ![temporary] = [content[temporary] EXCEPT ![n + 1] = f]]
    BY <1>1 DEF WriteBlock
  <2> QED
    BY <2>1, <2>2, Zenon DEF WriteBlock
<1>3. n + 1 \in 0..MaxSize /\ n + 1 <= Size[f]
  BY <1>1 DEF WriteBlock, Block
<1>4. TypeOK'
  BY <1>1, <1>2, <1>3, PrefixType DEF TypeOK, names, reader
<1>5. \A j \in Inode : j # temporary => content'[j] = content[j]
  BY <1>2 DEF TypeOK
<1>6. content'[temporary] = Prefix(f, n + 1)
  BY <1>1, <1>2 DEF TypeOK
<1>7. WriterInv'
  <2> SUFFICES ASSUME NEW v \in Writer PROVE
        /\ wpc'[v] = "write" => /\ wframe'[v] \in Frame /\ written'[v] <= Size[wframe'[v]]
                               /\ wfile'[v] = temporary' /\ temporary' # None
                               /\ content'[temporary'] = Prefix(wframe'[v], written'[v])
        /\ wpc'[v] = "idle" => wfile'[v] = None
    BY DEF WriterInv
  <2>1. v = w
    BY DEF OneWriter
  <2> QED
    BY <2>1, <1>1, <1>2, <1>3, <1>6 DEF TypeOK, names, WriterInv
<1>8. FilesInv'
  BY <1>2, <1>5 DEF FilesInv, TypeOK, Whole, names, reader
<1>9. ReaderInv'
  BY <1>2, <1>5 DEF ReaderInv, FilesInv, TypeOK, NoTornFrame, names, reader
<1> QED
  BY <1>4, <1>7, <1>8, <1>9

(* Renaming a complete temporary file makes it the published one.          *)
LEMMA CommitStep == ASSUME OneWriter, IInv, NEW w \in Writer, Commit(w) PROVE IInv'
<1> USE FrameAssumption DEF IInv
<1>1. /\ wframe[w] \in Frame /\ wpc[w] = "write" /\ temporary \in Inode
      /\ content[temporary] = Image(wframe[w])
  BY ImageIsPrefix DEF Commit, WriterInv, TypeOK
<1>2. /\ target' = temporary /\ temporary' = None /\ content' = content
      /\ wpc' = [wpc EXCEPT ![w] = "idle"] /\ wfile' = [wfile EXCEPT ![w] = None]
      /\ wframe' = [wframe EXCEPT ![w] = None] /\ written' = [written EXCEPT ![w] = 0]
      /\ UNCHANGED <<reader, loaded>>
  BY <1>1 DEF Commit, EndWrite
<1>3. TypeOK'
  BY <1>1, <1>2 DEF TypeOK, reader
<1>4. WriterInv'
  BY <1>2 DEF WriterInv, TypeOK, OneWriter
<1>5. FilesInv'
  BY <1>1, <1>2, ImageIsWhole DEF FilesInv, TypeOK, reader, Whole
<1>6. ReaderInv'
  BY <1>2 DEF ReaderInv, NoTornFrame, reader
<1> QED
  BY <1>3, <1>4, <1>5, <1>6

(* A writer that fails or is killed leaves the target alone.               *)
LEMMA StopStep == ASSUME OneWriter, IInv, NEW w \in Writer, GiveUp(w) \/ Kill(w) PROVE IInv'
<1> USE FrameAssumption DEF IInv
<1>1. /\ target' = target /\ temporary' \in {temporary, None} /\ content' = content
      /\ wpc' = [wpc EXCEPT ![w] = "idle"] /\ wfile' = [wfile EXCEPT ![w] = None]
      /\ wframe' = [wframe EXCEPT ![w] = None] /\ written' = [written EXCEPT ![w] = 0]
      /\ UNCHANGED <<reader, loaded>>
  BY DEF GiveUp, Kill, EndWrite, names
<1>2. TypeOK'
  BY <1>1 DEF TypeOK, reader
<1>3. WriterInv'
  BY <1>1 DEF WriterInv, TypeOK, OneWriter
<1>4. FilesInv'
  BY <1>1 DEF FilesInv, TypeOK, reader, Whole
<1>5. ReaderInv'
  BY <1>1 DEF ReaderInv, NoTornFrame, reader
<1> QED
  BY <1>2, <1>3, <1>4, <1>5

(* vcamctl removes the frame file.                                         *)
LEMMA RemoveStep == ASSUME IInv, Remove PROVE IInv'
BY FrameAssumption DEF IInv, Remove, TypeOK, WriterInv, FilesInv, ReaderInv, NoTornFrame, Whole,
                       writers, reader

-----------------------------------------------------------------------------
(* The HAL opens the frame file.                                           *)
LEMMA OpenFrameStep == ASSUME IInv, OpenFrame PROVE IInv'
<1> USE FrameAssumption DEF IInv
<1>1. /\ UNCHANGED <<target, temporary, content, wpc, wfile, wframe, written>>
      /\ \/ rpc' = "idle" /\ rfile' = rfile /\ loaded' = Empty /\ rpc = "idle"
            /\ UNCHANGED <<rframe, rpos, buffer>>
         \/ rpc' = "header" /\ target # None /\ rfile' = target
            /\ UNCHANGED <<loaded, rframe, rpos, buffer>>
  BY DEF OpenFrame, names, writers, reader
<1>2. TypeOK'
  BY <1>1, EmptyType DEF TypeOK
<1>3. WriterInv'
  BY <1>1 DEF WriterInv
<1>4. FilesInv' /\ ReaderInv'
  BY <1>1 DEF FilesInv, ReaderInv, NoTornFrame, Whole
<1> QED
  BY <1>2, <1>3, <1>4

(* It reads the header of what it opened.                                  *)
LEMMA ReadHeaderStep == ASSUME IInv, ReadHeader PROVE IInv'
<1> USE FrameAssumption DEF IInv
<1> DEFINE f == content[rfile][1]
<1>0. /\ rfile \in Inode /\ content[rfile] \in Blocks /\ Whole(content[rfile])
      /\ UNCHANGED <<target, temporary, content, wpc, wfile, wframe, written, loaded>>
  BY DEF ReadHeader, FilesInv, TypeOK, names, writers
<1>1. f \in Frame
  BY <1>0, WholeFrame
<1>2. WriterInv'
  BY <1>0 DEF WriterInv
<1>3. CASE EndReload
  BY <1>0, <1>2, <1>3, EmptyType DEF EndReload, TypeOK, FilesInv, ReaderInv, NoTornFrame, Whole
<1>4. CASE rpc' = "payload" /\ rframe' = f /\ rpos' = 1 /\ rfile' = rfile
           /\ buffer' = [Empty EXCEPT ![1] = f]
  <2>1. Prefix(f, 0) = Empty
    BY <1>1, PrefixZero
  <2>2. 0 \in 0..MaxSize /\ 0 + 1 \in Block /\ 0 + 1 = 1 /\ 1 \in 1..Size[f]
    BY <1>1 DEF Block
  <2>3. buffer' = Prefix(f, 1)
    BY <1>1, <1>4, <2>1, <2>2, NextBlock, Zenon
  <2> Prefix(f, 1) \in Blocks /\ 1 \in 0..MaxSize
    BY <1>1, <2>2, PrefixType DEF Block
  <2>4. TypeOK'
    BY <1>0, <1>1, <1>4, <2>3, Zenon DEF TypeOK
  <2>5. FilesInv' /\ ReaderInv'
    BY <1>0, <1>1, <1>4, <2>2, <2>3, Zenon DEF FilesInv, ReaderInv, NoTornFrame, Whole, ReadHeader
  <2> QED
    BY <1>2, <2>4, <2>5
<1> QED
  BY <1>3, <1>4, Zenon DEF ReadHeader

(* It reads the payload of the same file.                                  *)
LEMMA ReadPayloadStep == ASSUME IInv, ReadPayload PROVE IInv'
<1> USE FrameAssumption DEF IInv
<1>0. /\ rfile \in Inode /\ content[rfile] \in Blocks /\ Whole(content[rfile])
      /\ rframe \in Frame /\ rframe = content[rfile][1] /\ rpos \in 1..Size[rframe]
      /\ rpos \in 0..MaxSize /\ buffer = Prefix(rframe, rpos)
      /\ content[rfile] = Image(rframe)
      /\ UNCHANGED <<target, temporary, content, wpc, wfile, wframe, written>>
  BY DEF ReadPayload, FilesInv, ReaderInv, TypeOK, names, writers, Whole
<1>1. WriterInv'
  BY <1>0, Zenon DEF WriterInv
<1>2. CASE /\ rpos < Size[rframe] /\ rpos' = rpos + 1
           /\ buffer' = [buffer EXCEPT ![rpos + 1] = content[rfile][rpos + 1]]
           /\ UNCHANGED <<rpc, rfile, rframe, loaded>>
  <2>1. rpos + 1 \in Block /\ rpos + 1 \in 1..Size[rframe] /\ rpos + 1 \in 0..MaxSize
    BY <1>0, <1>2 DEF Block
  <2>2. content[rfile][rpos + 1] = rframe
    BY <1>0, <2>1, SMTT(30) DEF Image
  <2>3. buffer' = Prefix(rframe, rpos + 1)
    BY <1>0, <1>2, <2>1, <2>2, NextBlock, Zenon
  <2> Prefix(rframe, rpos + 1) \in Blocks
    BY <1>0, <2>1, PrefixType
  <2>4. TypeOK'
    BY <1>0, <1>2, <2>1, <2>3, Zenon DEF TypeOK
  <2>5. FilesInv' /\ ReaderInv'
    BY <1>0, <1>2, <2>1, <2>3, Zenon DEF FilesInv, ReaderInv, NoTornFrame, Whole, ReadPayload
  <2> QED
    BY <1>1, <2>4, <2>5
<1>3. CASE EndReload /\ UNCHANGED loaded
  BY <1>0, <1>1, <1>3, EmptyType, SMTT(30)
  DEF EndReload, TypeOK, FilesInv, ReaderInv, NoTornFrame, Whole
<1>4. CASE rpos = Size[rframe] /\ EndReload /\ loaded' \in {buffer, loaded}
  <2>1. Whole(buffer) /\ buffer \in Blocks
    BY <1>0, <1>4, ImageIsPrefix, ImageIsWhole, Zenon
  <2>2. TypeOK'
    BY <1>0, <1>4, <2>1, EmptyType, SMTT(30) DEF TypeOK, EndReload
  <2>3. FilesInv' /\ ReaderInv'
    BY <1>0, <1>4, <2>1, Zenon DEF FilesInv, ReaderInv, NoTornFrame, Whole, EndReload
  <2> QED
    BY <1>1, <2>2, <2>3
<1> QED
  BY <1>2, <1>3, <1>4, Zenon DEF ReadPayload

(* Every step of writers, of vcamctl and of the camera keeps the invariant.*)
LEMMA StepInv == ASSUME OneWriter, IInv, [Next]_vars PROVE IInv'
<1>1. CASE UNCHANGED vars
  BY <1>1, Zenon DEF vars, names, writers, reader, IInv, TypeOK, WriterInv, FilesInv, ReaderInv,
              NoTornFrame, Whole
<1>2. ASSUME NEW w \in Writer, Write(w) PROVE IInv'
  BY <1>2, OpenStep, WriteStep, CommitStep, StopStep DEF Write, PublisherBegin, StreamerBegin
<1> QED
  BY <1>1, <1>2, RemoveStep, OpenFrameStep, ReadHeaderStep, ReadPayloadStep DEF Next, Reload

(* RgbFrame never shows a torn frame, whatever the frames and their sizes  *)
(* and wherever its only writer is killed.                                 *)
THEOREM CameraFramesWhole == OneWriter /\ Spec => []NoTornFrame
<1> SUFFICES ASSUME OneWriter PROVE Spec => []NoTornFrame
  OBVIOUS
<1>1. IInv /\ [Next]_vars => IInv'
  BY StepInv
<1>2. IInv => NoTornFrame
  BY DEF IInv, ReaderInv
<1> QED
  BY InitInv, <1>1, <1>2, PTL DEF Spec

-----------------------------------------------------------------------------
(* The mapping to AtomicFrame, read off the invariant.                     *)
LEMMA Mapping ==
  ASSUME IInv
  PROVE  /\ target # None => current = Version(content[target][1]) /\ current \in Frame
         /\ target = None => current = None
         /\ rpc # "idle" => seen = Version(content[rfile][1]) /\ content[rfile][1] \in Frame
         /\ rpc = "idle" => seen = Idle
         /\ loaded # Empty => shown = Version(loaded[1]) /\ loaded[1] \in Frame
         /\ loaded = Empty => shown = None
<1>1. target # None => content[target] \in Blocks /\ Whole(content[target])
  BY DEF IInv, TypeOK, FilesInv
<1>2. rpc # "idle" => content[rfile] \in Blocks /\ Whole(content[rfile])
  BY DEF IInv, TypeOK, FilesInv
<1>3. loaded # Empty => loaded \in Blocks /\ Whole(loaded)
  BY DEF IInv, TypeOK, ReaderInv, NoTornFrame
<1> QED
  BY <1>1, <1>2, <1>3, WholeFrame DEF current, seen, shown, FrameOf

(* Before the rename a writer's step is invisible: it touches neither the  *)
(* published file nor the one that is being read.                          *)
LEMMA Invisible ==
  ASSUME IInv, IInv', target' = target, UNCHANGED <<reader, loaded>>,
         \A j \in Inode : (j = target \/ j = rfile) => content'[j] = content[j]
  PROVE  UNCHANGED <<current, seen, shown>>
<1>1. /\ target # None => content'[target] = content[target]
      /\ rpc # "idle" => content'[rfile] = content[rfile]
  BY DEF IInv, TypeOK, FilesInv
<1> QED
  BY <1>1 DEF current, seen, shown, FrameOf, Whole, reader

(* Only the rename of a writer is a step of the register.                  *)
LEMMA WriteRefines ==
  ASSUME IInv, IInv', NEW w \in Writer, Write(w) PROVE [A!Next]_<<current, seen, shown>>
<1>1. ASSUME NEW f \in Frame, OpenTemporary(w, f), UNCHANGED <<reader, loaded>>
      PROVE  UNCHANGED <<current, seen, shown>>
  <2>1. PICK i \in Inode : /\ i = temporary \/ (temporary = None /\ i \notin InUse)
                           /\ target' = target /\ content' = [content EXCEPT ![i] = Empty]
    BY <1>1, Zenon DEF OpenTemporary
  <2>2. i # target /\ (i = rfile => rpc = "idle") /\ (rpc = "idle" => rfile = None)
    BY <2>1, FrameAssumption, Zenon DEF InUse, IInv, FilesInv, TypeOK
  <2>3. \A j \in Inode : (j = target \/ j = rfile) => content'[j] = content[j]
    BY <2>1, <2>2, FrameAssumption DEF IInv, TypeOK
  <2> QED
    BY <1>1, <2>1, <2>3, Invisible
<1>2. CASE WriteBlock(w)
  <2>1. /\ target' = target /\ wfile[w] = temporary /\ temporary \in Inode
        /\ UNCHANGED <<reader, loaded>>
    BY <1>2, Zenon DEF WriteBlock, names, IInv, WriterInv, TypeOK
  <2>2. \A j \in Inode : j # temporary => content'[j] = content[j]
    BY <1>2, <2>1 DEF WriteBlock, IInv, TypeOK
  <2>3. \A j \in Inode : (j = target \/ j = rfile) => content'[j] = content[j]
    BY <2>1, <2>2, FrameAssumption DEF IInv, FilesInv, TypeOK
  <2> QED
    BY <2>1, <2>3, Invisible
<1>3. CASE Commit(w)
  <2>1. target' \in Inode /\ target' # None /\ content' = content /\ UNCHANGED <<reader, loaded>>
    BY <1>3, FrameAssumption DEF Commit, IInv, WriterInv, TypeOK
  <2>2. current' \in Frame
    <3>1. content[target'] \in Blocks /\ Whole(content[target'])
      BY <2>1, Zenon DEF IInv, TypeOK, FilesInv, Whole
    <3>2. FrameOf(content[target']) \in Frame
      BY <3>1, WholeFrame
    <3> QED
      BY <2>1, <3>2 DEF current, FrameOf, Whole
  <2>3. UNCHANGED <<seen, shown>>
    BY <2>1 DEF seen, shown, FrameOf, Whole, reader
  <2> QED
    BY <2>2, <2>3 DEF A!Next, A!Publish
<1>4. CASE GiveUp(w) \/ Kill(w)
  BY <1>4, Invisible DEF GiveUp, Kill, names
<1> QED
  BY <1>1, <1>2, <1>3, <1>4 DEF Write, PublisherBegin, StreamerBegin

(* Removing the file empties the register.                                 *)
LEMMA RemoveRefines == ASSUME IInv, Remove PROVE A!Next
<1>1. current' = None
  BY DEF Remove, current
<1>2. UNCHANGED <<seen, shown>>
  BY DEF Remove, seen, shown, FrameOf, Whole, reader
<1> QED
  BY <1>1, <1>2 DEF A!Next, A!Withdraw

(* A frame whose size and sequence number are those of the loaded one is   *)
(* of its version, so skipping its payload shows that version.             *)
LEMMA ReloadRefines ==
  ASSUME IInv, IInv', Reload PROVE [A!Next]_<<current, seen, shown>>
<1> USE FrameAssumption
<1>0. target' = target /\ content' = content /\ current' = current
  BY Zenon DEF Reload, OpenFrame, ReadHeader, ReadPayload, names, current, FrameOf, Whole
<1>1. CASE OpenFrame
  <2>1. CASE target = None
    <3>1. rpc = "idle" /\ rpc' = "idle" /\ loaded' = Empty
      BY <1>1, <2>1 DEF OpenFrame, reader
    <3>2. seen = Idle /\ seen' = Idle /\ shown' = None /\ current = None
      BY <2>1, <3>1 DEF seen, shown, FrameOf, current
    <3> QED
      BY <1>0, <3>2 DEF A!Next, A!Missing
  <2>2. CASE target # None
    <3>1. rpc = "idle" /\ rpc' = "header" /\ rfile' = target /\ loaded' = loaded
      BY <1>1, <2>2 DEF OpenFrame
    <3>2. seen = Idle /\ seen' = current /\ current # None /\ shown' = shown
      BY <1>0, <2>2, <3>1, Mapping, Zenon DEF seen, shown, FrameOf, Whole, current
    <3> QED
      BY <1>0, <3>2 DEF A!Next, A!Look
  <2> QED
    BY <2>1, <2>2
<1>2. CASE ReadHeader
  <2> DEFINE f == content[rfile][1]
  <2>0. rpc = "header" /\ seen = Version(f) /\ f \in Frame /\ loaded' = loaded /\ shown' = shown
    BY <1>2, Mapping, Zenon DEF ReadHeader, shown, FrameOf, Whole
  <2>1. CASE Unchanged(f) /\ EndReload
    <3>1. shown = Version(loaded[1])
      BY <2>1, Mapping, Zenon DEF Unchanged
    <3>2. shown = Version(f)
      BY <2>1, <3>1, Zenon DEF Unchanged, Version
    <3>3. seen' = Idle
      BY <2>1 DEF EndReload, seen
    <3> QED
      BY <1>0, <2>0, <3>2, <3>3, VersionType DEF A!Next, A!Show
  <2>2. CASE rpc' = "payload" /\ rfile' = rfile
    BY <1>0, <2>0, <2>2, Zenon DEF seen, FrameOf, Whole
  <2> QED
    BY <1>2, <2>0, <2>1, <2>2, Zenon DEF ReadHeader
<1>3. CASE ReadPayload
  <2>0. /\ rpc = "payload" /\ content[rfile] = Image(rframe) /\ rframe \in Frame
        /\ rframe = content[rfile][1] /\ rpos \in 1..Size[rframe] /\ Size[rframe] \in 1..MaxSize
        /\ buffer = Prefix(rframe, rpos) /\ seen = Version(rframe)
    BY <1>3, Mapping, Zenon DEF ReadPayload, IInv, ReaderInv, FilesInv, Whole
  <2>1. CASE UNCHANGED <<rpc, rfile, rframe, loaded>>
    BY <1>0, <2>1, Zenon DEF seen, shown, FrameOf, Whole
  <2>2. ASSUME rpos < Size[rframe], EndOf(content[rfile], rpos) PROVE FALSE
    <3>1. rpos + 1 \in Block /\ rpos + 1 > rpos /\ rpos + 1 <= Size[rframe]
      BY <2>0, <2>2 DEF Block
    <3>2. content[rfile][rpos + 1] = rframe
      BY <2>0, <3>1 DEF Image
    <3> QED
      BY <2>0, <2>2, <3>1, <3>2 DEF EndOf
  <2>3. CASE rpos = Size[rframe] /\ EndReload
             /\ loaded' = IF EndOf(content[rfile], rpos) THEN buffer ELSE loaded
    <3>1. EndOf(content[rfile], rpos)
      BY <2>0, <2>3, SMTT(30) DEF EndOf, Image, Block
    <3>2. loaded' = Image(rframe)
      BY <2>0, <2>3, <3>1, ImageIsPrefix, Zenon
    <3>3. shown' = Version(rframe)
      BY <2>0, <3>2, ImageIsWhole, WholeFrame, Zenon DEF shown, FrameOf, Whole
    <3>4. seen' = Idle
      BY <2>3, Zenon DEF EndReload, seen
    <3> QED
      BY <1>0, <2>0, <3>3, <3>4, VersionType, Zenon DEF A!Next, A!Show
  <2> QED
    BY <1>3, <2>1, <2>2, <2>3, Zenon DEF ReadPayload
<1> QED
  BY <1>1, <1>2, <1>3 DEF Reload

(* Publication through the temporary file implements the atomic register:  *)
(* one writer that may be killed, a camera that reloads at any time,       *)
(* frames told apart as reloadIfChanged() does.                            *)
THEOREM PublicationIsAtomic == OneWriter /\ Spec => ReplacesAtomically
<1> SUFFICES ASSUME OneWriter PROVE Spec => ReplacesAtomically
  OBVIOUS
<1>1. Init => A!Init
  BY DEF Init, A!Init, current, seen, shown, FrameOf
<1>2. IInv /\ [Next]_vars => IInv'
  BY StepInv
<1>3. IInv /\ IInv' /\ [Next]_vars => [A!Next]_<<current, seen, shown>>
  <2> SUFFICES ASSUME IInv, IInv', [Next]_vars PROVE [A!Next]_<<current, seen, shown>>
    OBVIOUS
  <2>1. CASE UNCHANGED vars
    BY <2>1, Zenon DEF vars, names, writers, reader, current, seen, shown, FrameOf, Whole
  <2> QED
    BY <2>1, WriteRefines, RemoveRefines, ReloadRefines DEF Next
<1> QED
  BY InitInv, <1>1, <1>2, <1>3, PTL DEF Spec, ReplacesAtomically, A!Spec, A!avars
=============================================================================
