--------------------------- MODULE SingleFileMuxer ---------------------------
(***************************************************************************)
(* Demultiplexing (tsMuxer/singleFileMuxer.cpp): every stream goes to a    *)
(* file of its own, through a buffer and, with asynchronous output, the    *)
(* queue of the writer thread.  A file of PCM audio begins with a header   *)
(* that tells its size, which is known only when the file ends, and is cut *)
(* into parts before the size has no room in it.                           *)
(*                                                                         *)
(* Data are units: the k-th of a stream is Data(k), a header two units     *)
(* that hold the size of what follows each.  Disks do not fail here; how   *)
(* failures are treated is in BufferedFileWriter and MuxerManager.         *)
(***************************************************************************)
EXTENDS Integers, Sequences, FiniteSetsExt, SequencesExt, TLC

CONSTANTS
    Jobs,       \* the demultiplexings of a run, see JobSpace
    Block,      \* DEFAULT_FILE_BLOCK_SIZE
    Round,      \* 64 KiB
    Spare,      \* MAX_AV_PACKET_SIZE + ADD_DATA_SIZE: the buffer holds it and a block
    SizeLimit,  \* 0xffff0000
    SizeMax,    \* UINT_MAX: the sizes in a header have 32 bits
    Sizes,      \* the sizes of packets
    MaxUnits    \* the units of a demultiplexing

\* Asynchronous output; a descriptor opened with ofAppend writes at the end
\* whatever its position is (Unix) or only begins there (Windows); the streams
\* by the names of their files, and those of them that are PCM audio.
JobSpace == [async : BOOLEAN, appends : BOOLEAN, streams : SUBSET STRING, pcm : SUBSET STRING]

Header == <<[kind |-> "size", n |-> -1], [kind |-> "size", n |-> -1]>>
Data(k) == [kind |-> "data", n |-> k]

DemuxAssumption ==
    /\ Round \in Nat \ {0} /\ Block \in Nat \ {0} /\ Block % Round = 0
    /\ Spare \in Len(Header) + 1..Block - 1
    /\ SizeLimit \in Nat /\ SizeLimit > Block /\ SizeMax \in Nat
    /\ Sizes \subseteq 1..Block + Spare /\ MaxUnits \in Nat

VARIABLES
    options,    \* the demultiplexing of this run
    mux,        \* the disk, the StreamInfo of every stream, the queue of the writer
    fed         \* per stream, the number of units muxed

vars == <<options, mux, fed>>
Streams == options.streams

-----------------------------------------------------------------------------
(* Files: part n of stream i is <<i, n>>, and <<i, 0>> the name that a     *)
(* file has until it is renamed.  The functions below transform a record   *)
(* of the disk, one stream's StreamInfo and the queue.                     *)

Closed == [open |-> FALSE, pos |-> 0, append |-> FALSE]
Max2(m, n) == IF m > n THEN m ELSE n
Overwrite(units, pos, data) ==
    [k \in 1..Max2(Len(units), pos + Len(data)) |->
        IF k \in pos + 1..pos + Len(data) THEN data[k - pos] ELSE units[k]]

\* File::open of the stream's name: ofWrite truncates, ofAppend and
\* ofNoTruncate do not.
Open(s, mode) ==
    LET name == <<s.o.stream, 0>>
        units == IF name \in DOMAIN s.d /\ mode # "write" THEN s.d[name] ELSE <<>> IN
    [s EXCEPT !.d = (name :> units) @@ s.d,
              !.o.file = [open |-> TRUE, pos |-> IF mode = "append" THEN Len(units) ELSE 0,
                          append |-> mode = "append" /\ options.appends]]
CloseFile(s) == [s EXCEPT !.o.file = Closed]
Seek(s, pos) == [s EXCEPT !.o.file.pos = pos]

\* File::write, which does nothing when the file is not open.
Write(s, units) ==
    LET name == <<s.o.stream, 0>>
        pos == IF s.o.file.append THEN Len(s.d[name]) ELSE s.o.file.pos IN
    IF ~s.o.file.open THEN s
    ELSE [s EXCEPT !.d[name] = Overwrite(@, pos, units), !.o.file.pos = pos + Len(units)]

\* deleteFile and rename: to the name of part n.
Rename(s, n) ==
    LET old == <<s.o.stream, 0>> IN
    [s EXCEPT !.d = (<<s.o.stream, n>> :> s.d[old])
                        @@ [name \in DOMAIN s.d \ {old} |-> s.d[name]]]

\* asyncWriteBuffer or syncWriteBuffer: the first n units of the buffer go to
\* the writer's queue or to the file.
Hand(s, n) ==
    LET units == SubSeq(s.o.buf, 1, n)
        t == [s EXCEPT !.o.buf = SubSeq(@, n + 1, Len(@))] IN
    IF options.async THEN [t EXCEPT !.q = Append(@, [stream |-> s.o.stream, units |-> units])]
    ELSE Write(t, units)

\* waitForWriting in the middle of a mux: the writer empties its queue (what
\* belongs to other streams stays here, for WriterStep: their files are not
\* touched until then).
WaitForWriting(s) ==
    LET Mine(w) == w.stream = s.o.stream
        Theirs(w) == ~Mine(w) IN
    FoldLeft(LAMBDA t, w : Write(t, w.units), [s EXCEPT !.q = SelectSeq(@, Theirs)],
             SelectSeq(s.q, Mine))

-----------------------------------------------------------------------------
(* PCM audio.                                                              *)

\* LPCMStreamReader::beforeFileCloseEvent: the two sizes, once they are known.
BeforeFileCloseEvent(s) ==
    LET size == Len(s.d[<<s.o.stream, 0>>]) IN
    IF s.o.stream \notin options.pcm \/ size > SizeMax THEN s
    ELSE Write(Seek(Write(Seek(s, 0), <<[kind |-> "size", n |-> size - 1]>>), 1),
               <<[kind |-> "size", n |-> size - 2]>>)

\* The sizes of a part that is full go into it through a new descriptor.
SizesOf(s) == CloseFile(BeforeFileCloseEvent(Open(CloseFile(s), "noTruncate")))

\* Mutant: the writer is not waited for.
Settled_Hasty(s) == s
Settled(s) == IF options.async THEN WaitForWriting(s) ELSE s

\* A part is full: the rest of the buffer, the sizes, the name, the next part.
NextPart(s) ==
    LET whole == Write(Open(CloseFile(Settled(s)), "append"), s.o.buf)
        opened == Open(Rename(SizesOf(whole), s.o.part), "write") IN
    [opened EXCEPT !.o.part = @ + 1, !.o.buf = <<>>, !.o.first = TRUE, !.o.total = 0]
-----------------------------------------------------------------------------
(* muxPacket.                                                              *)

WriteOutBuffer(s) ==
    LET t == IF Len(s.o.buf) >= Block
             THEN [Hand(s, Block) EXCEPT !.o.total = @ + Block] ELSE s IN
    IF s.o.stream \in options.pcm /\ t.o.total >= SizeLimit - Block THEN NextPart(t) ELSE t

\* writeAdditionData: the header of a file of PCM audio.  The packets of PCM
\* audio are frames of their own, so that this is done for every one of them.
WriteAdditionData(s) ==
    IF s.o.stream \in options.pcm /\ s.o.first
    THEN [s EXCEPT !.o.buf = @ \o Header, !.o.first = FALSE] ELSE s

\* A packet that the buffer has no room for sends what is there ahead.
MakeRoom(s, size) ==
    LET held == Len(s.o.buf) IN
    IF held + size > Block + Spare /\ held > 0
    THEN [Hand(s, held) EXCEPT !.o.total = @ + held] ELSE s

MuxPacket(s, units) ==
    LET t == MakeRoom(WriteOutBuffer(WriteAdditionData(s)), Len(units)) IN
    WriteOutBuffer([t EXCEPT !.o.buf = @ \o units])

\* doFlush and close, for one stream.  close returns before the rest when the
\* buffer is empty.
FlushOne(s) == Hand(s, Len(s.o.buf) - (Len(s.o.buf) % Round))
CloseOne(s) ==
    LET closed == CloseFile(s)
        sized == BeforeFileCloseEvent(Write(Open(closed, "append"), s.o.buf))
        ended == [CloseFile(sized) EXCEPT !.o.buf = <<>>] IN
    IF s.o.buf = <<>> THEN closed
    ELSE IF s.o.part > 1 THEN Rename(ended, s.o.part) ELSE ended

-----------------------------------------------------------------------------
View(m, i) == [d |-> m.disk, o |-> m.out[i], q |-> m.queue]
Update(m, s) == [m EXCEPT !.disk = s.d, !.out[s.o.stream] = s.o, !.queue = s.q]
EachStream(Op(_), m) == FoldSet(LAMBDA i, t : Update(t, Op(View(t, i))), m, Streams)

\* openDstFile: every stream has its file.
StreamInfo(i) ==
    [stream |-> i, file |-> [Closed EXCEPT !.open = TRUE], part |-> 1, buf |-> <<>>,
     total |-> 0, first |-> TRUE]

Init ==
    /\ options \in Jobs
    /\ mux = [disk |-> [name \in {<<i, 0>> : i \in Streams} |-> <<>>],
              out |-> [i \in Streams |-> StreamInfo(i)],
              queue |-> <<>>, phase |-> "muxing"]
    /\ fed = [i \in Streams |-> 0]

Fed == FoldSet(LAMBDA i, n : n + fed[i], 0, Streams)

\* PCM audio is read in packets of at most MAX_AV_PACKET_SIZE.
Packet ==
    /\ mux.phase = "muxing"
    /\ \E i \in Streams, size \in Sizes :
         /\ Fed + size <= MaxUnits
         /\ i \in options.pcm => size <= Spare - Len(Header)
         /\ mux' = Update(mux, MuxPacket(View(mux, i), [k \in 1..size |-> Data(fed[i] + k)]))
         /\ fed' = [fed EXCEPT ![i] = @ + size]
    /\ UNCHANGED options

Flush ==
    /\ mux.phase = "muxing"
    /\ mux' = [EachStream(FlushOne, mux) EXCEPT !.phase = "flushed"]
    /\ UNCHANGED <<options, fed>>

\* doMux waits for the writer before it calls close.
Close ==
    /\ mux.phase = "flushed" /\ mux.queue = <<>>
    /\ mux' = [EachStream(CloseOne, mux) EXCEPT !.phase = "closed"]
    /\ UNCHANGED <<options, fed>>

\* The writer thread: the oldest of the queue.
WriterStep ==
    /\ mux.queue # <<>>
    /\ LET w == Head(mux.queue)
           s == Write(View(mux, w.stream), w.units) IN
       mux' = [Update(mux, s) EXCEPT !.queue = Tail(@)]
    /\ UNCHANGED <<options, fed>>

Next == Packet \/ Flush \/ Close \/ WriterStep \/ (mux.phase = "closed" /\ UNCHANGED vars)
Spec == Init /\ [][Next]_vars

-----------------------------------------------------------------------------
(* Properties.                                                             *)

TypeOK ==
    /\ \A i \in Streams :
         /\ Len(mux.out[i].buf) <= Block + Spare
         /\ mux.out[i].part \in Nat \ {0} /\ mux.out[i].total \in Nat
         /\ mux.out[i].file.open = (mux.phase # "closed")
    /\ mux.phase \in {"muxing", "flushed", "closed"}

\* The files of a stream in their order, the unfinished one last.
Parts(i) ==
    LET finished == [n \in 1..mux.out[i].part - 1 |-> <<i, n>>]
        final == IF <<i, mux.out[i].part>> \in DOMAIN mux.disk
                 THEN <<i, mux.out[i].part>> ELSE <<i, 0>> IN
    Append(finished, final)
Content(i) == FoldLeft(LAMBDA x, name : x \o mux.disk[name], <<>>, Parts(i))
IsData(u) == u.kind = "data"
Whole(i) == [k \in 1..fed[i] |-> Data(k)]

\* The files of a stream together are the stream: nothing is lost, doubled or
\* out of order, at any time with what the queue and the buffer hold (the queue
\* and the buffer of singleFileMuxer, the writer thread and the parts of a WAV).
FilesAreStreams ==
    \A i \in Streams :
      LET Mine(w) == w.stream = i
          queued == FoldLeft(LAMBDA x, w : x \o w.units, <<>>, SelectSeq(mux.queue, Mine)) IN
      Whole(i) = SelectSeq(Content(i) \o queued \o mux.out[i].buf, IsData)

\* The header of every part of PCM audio that is full tells its size and stands
\* at its beginning, so that each part plays by itself; and so does that of the
\* last part, when close has something to append to it and the system lets a
\* descriptor that appends write the header (what close does otherwise is said in
\* the README: it leaves the header as it is, or appends the sizes).
HeadersTellSize ==
    \A i \in options.pcm :
      LET Sized(name) ==
            LET units == mux.disk[name] IN
            /\ SubSeq(units, 1, 2) = <<[kind |-> "size", n |-> Len(units) - 1],
                                       [kind |-> "size", n |-> Len(units) - 2]>>
            /\ \A k \in 3..Len(units) : IsData(units[k]) IN
      /\ \A n \in 1..mux.out[i].part - 1 : Sized(<<i, n>>)
      /\ <<i, mux.out[i].part>> \in DOMAIN mux.disk /\ ~options.appends
            => Sized(<<i, mux.out[i].part>>)

\* Both promises for the files of a demultiplexing.
FilesDemuxed == FilesAreStreams /\ HeadersTellSize
=============================================================================
