----------------------------- MODULE MetaDemuxer -----------------------------
(***************************************************************************)
(* The merge of the input streams (METADemuxer::readPacket, StreamInfo and *)
(* ContainerToReaderWrapper in tsMuxer/metaDemuxer.cpp).  Every stream has *)
(* a reader that cuts packets out of what it was handed.  A stream is read *)
(* from a file of its own or is one track of a container; the tracks of a  *)
(* container share a demuxer, whose every call adds to the data of each.   *)
(*                                                                         *)
(* The data of a stream is a number of units that always keep their order, *)
(* so each stage is the count of the units that have passed it:            *)
(*    demuxed >= given (the reader has them) >= sent (in packets).         *)
(* One step is one round of a loop of readPacket; its caller, doMux, calls *)
(* it again until the end.  The AC-3 side input of a merged TrueHD track   *)
(* and the reports of progress are left out.                               *)
(***************************************************************************)
EXTENDS Integers, Sequences, FiniteSets

CONSTANTS
    Inputs,         \* the inputs to merge, see InputSpace
    MinReadBlock,   \* MIN_READED_BLOCK
    MaxBlock,       \* a container's block: getFileBlockSize less the offset
    FileBlock,      \* a block of the BufferedReader
    MaxDemuxBuffer  \* MAX_DEMUX_BUFFER_SIZE

File == 0           \* the source of a stream that is a file of its own
None == 0           \* minDtsIndex before a stream is found

\* A stream: its source; its reader ("nals": MPEGStreamReader, "packets":
\* SimplePacketizerReader, "pgs": PGSStreamReader, which makes its track a
\* drpFragmented one); the time of its first frame, the time between frames
\* and the units in one; its time shift; and upto[k], the units of it in the
\* first k calls of the demuxer.  A file has one entry.  The clock of sound
\* and video starts at 0, and the times of video are put back by some frames.
StreamSpace(s) ==
    /\ s.src \in Nat /\ s.kind \in {"nals", "packets", "pgs"}
    /\ s.first \in Int /\ s.shift \in Int
    /\ s.step \in Nat \ {0} /\ s.frame \in Nat \ {0}
    /\ s.upto \in Seq(Nat) /\ s.upto # <<>>
    /\ \A k, l \in DOMAIN s.upto : k <= l => s.upto[k] <= s.upto[l]
    /\ s.src = File => Len(s.upto) = 1 /\ s.kind # "pgs"
    /\ s.kind # "pgs" => s.first <= 0

\* An input: its streams; the number of calls each container's demuxer needs
\* for its data; after which of them getLastReadRez is DATA_EOF; and for which
\* containers (MOV) readBlock does not limit the data it buffers.  Files may
\* be lists: then the last block comes with DATA_EOF.
InputSpace(x) ==
    /\ DOMAIN x.streams = 1..Len(x.streams) /\ Len(x.streams) \in Nat \ {0}
    /\ \A i \in DOMAIN x.streams : StreamSpace(x.streams[i])
    /\ \A c \in DOMAIN x.calls : /\ x.calls[c] \in Nat \ {0}
                                 /\ x.eofFrom[c] \in 1..x.calls[c] + 1
    /\ \A i \in DOMAIN x.streams :
         LET s == x.streams[i] IN
         s.src # File => s.src \in DOMAIN x.calls /\ Len(s.upto) = x.calls[s.src]
    /\ x.lists \in BOOLEAN /\ x.unlimited \subseteq DOMAIN x.calls

ASSUME InputAssumption ==
    /\ \A x \in Inputs : InputSpace(x)
    /\ MinReadBlock \in Nat \ {0} /\ MaxBlock \in Nat \ {0}
    /\ MinReadBlock <= MaxBlock
    /\ FileBlock \in Nat \ {0} /\ MaxDemuxBuffer \in Nat

VARIABLES
    input,                      \* the input of this run
    calls,                      \* simpleDemuxBlock calls made, by container
    taken, lastReadCnt, mark,   \* ContainerToReaderWrapper: the units removed
                                \*   from demuxedData, lastReadCnt, lastReadRez
    given, sent, frameNo,       \* the readers: units, and the frame at m_curDts
    lastAVRez, isEOF, flushed, lastDTS, readRez, \* the StreamInfos
    pc, at, minIndex, allDelayed, flushMode,     \* readPacket
    packet,                     \* doMux's AVPacket: stream, dts, size
    lastProcessed               \* of the muxer: the stream and the dts of the
                                \*   last packet that was not empty

containerVars == <<calls, taken, lastReadCnt, mark>>
readerVars == <<given, sent, frameNo>>
infoVars == <<lastAVRez, isEOF, flushed, lastDTS, readRez>>
vars == <<input, containerVars, readerVars, infoVars, pc, at, minIndex,
          allDelayed, flushMode, packet, lastProcessed>>

Streams == DOMAIN input.streams
S(i) == input.streams[i]
Containers == DOMAIN input.calls
Least(m, n) == IF m < n THEN m ELSE n
Minimum(K) == CHOOSE k \in K : \A l \in K : k <= l
-----------------------------------------------------------------------------
(* Blocks.                                                                 *)

Fragmented(i) == S(i).kind = "pgs"
AllFragmented(c) == \A i \in Streams : S(i).src = c => Fragmented(i)

\* The units of stream i that k calls of its demuxer deliver.
Upto(i, k) == IF k = 0 THEN 0 ELSE S(i).upto[Least(k, Len(S(i).upto))]
Total(i) == Upto(i, Len(S(i).upto))

\* The demuxer's call that finds no more is the one after those with data.
LastCall(c) == input.calls[c] + 1
\* Mutant: the end is known when the last data is asked for.
GetLastReadRez_Early(c, k) == IF k + 1 >= input.eofFrom[c] THEN "eof" ELSE "ok"
GetLastReadRez(c, k) == IF k >= input.eofFrom[c] THEN "eof" ELSE "ok"

\* The data of stream i without its last block: readBlock removes that first.
Taken(i) == taken[i] + lastReadCnt[i]
BlockAfter(i, k) == Least(Upto(i, k) - Taken(i), MaxBlock)

Enough(i) == LET n == BlockAfter(i, calls[S(i).src]) IN
             n >= MinReadBlock \/ (Fragmented(i) /\ n > 0)
Waits(i) == mark[i] = "delayed" /\ ~AllFragmented(S(i).src)

\* The calls made when the loop over simpleDemuxBlock is left.
CallsAfter(i) ==
    LET c == S(i).src IN
    Minimum({k \in Least(calls[c] + 1, LastCall(c))..LastCall(c) :
               k = LastCall(c) \/ Fragmented(i) \/ BlockAfter(i, k) >= MinReadBlock})

\* ... and what readBlock makes of them.
Demuxed(i) ==
    LET k == CallsAfter(i)  n == BlockAfter(i, k)
        last == GetLastReadRez(S(i).src, k)
        rez == IF n > 0 \/ last = "eof" THEN last
               ELSE IF Fragmented(i) THEN "delayed" ELSE "notReady" IN
    [calls |-> k, cnt |-> n, rez |-> rez, mark |-> rez]

\* ContainerToReaderWrapper::readBlock: what is buffered suffices, or the track
\* is one that waits for the others, or the demuxer is called until it has data.
ContainerBlock(i) ==
    LET now == calls[S(i).src] IN
    IF Enough(i)
    THEN [calls |-> now, cnt |-> BlockAfter(i, now), rez |-> "ok", mark |-> "ok"]
    ELSE IF Waits(i)
    THEN [calls |-> now, cnt |-> 0, rez |-> "delayed", mark |-> mark[i]]
    ELSE Demuxed(i)

\* BufferedReader::readBlock, in full blocks: see module BlockStream.
FileBlockOf(i) ==
    LET n == Least(Total(i) - Taken(i), FileBlock) IN
    [cnt |-> n, rez |-> IF n = 0 \/ (input.lists /\ n < FileBlock)
                        THEN "eof" ELSE "ok"]

\* readBlock throws: after k calls it buffers more of a track than it may.
Overflows(i) ==
    LET c == S(i).src
        Held(j) == Upto(j, CallsAfter(i)) - (IF j = i THEN Taken(i) ELSE taken[j]) IN
    /\ ~Enough(i) /\ ~Waits(i) /\ c \notin input.unlimited
    /\ \E j \in Streams : S(j).src = c /\ Held(j) > MaxDemuxBuffer
-----------------------------------------------------------------------------
(* The readers: readPacket and flushPacket.                                *)

Time(i, frame) == S(i).first + frame * S(i).step
FrameOf(i) == sent[i] \div S(i).frame
Rest(i) == given[i] - sent[i]

\* An AVPacket: the units it carries, its times, and the frame at the clock.
Pkt(n, dts, duration, frame) ==
    [size |-> n, dts |-> dts, duration |-> duration, frame |-> frame]
More(pkt) == [rez |-> "more", pkt |-> pkt]
Got(pkt) == [rez |-> "ok", pkt |-> pkt]

\* SimplePacketizerReader: one complete frame, with its duration.
ReadFrame(i) ==
    LET now == Time(i, FrameOf(i)) IN
    IF Rest(i) < S(i).frame THEN More(Pkt(0, now, 0, FrameOf(i)))
    ELSE Got(Pkt(S(i).frame, now, S(i).step, FrameOf(i)))

\* MPEGStreamReader: one NAL unit if the next one has begun; an empty packet
\* when it belongs to a new frame.
ReadNal(i) ==
    IF Rest(i) < 2 THEN More(Pkt(0, Time(i, frameNo[i]), 0, frameNo[i]))
    ELSE IF frameNo[i] # FrameOf(i)
    THEN Got(Pkt(0, Time(i, FrameOf(i)), 0, FrameOf(i)))
    ELSE Got(Pkt(1, Time(i, frameNo[i]), 0, frameNo[i]))

\* PGSStreamReader: a header as an empty packet, then each segment.  Without
\* data it leaves the time of the last packet, whatever stream that was of, as
\* its flushPacket does, which sets nothing.
ReadPgs(i) ==
    IF Rest(i) = 0 THEN More(Pkt(0, packet.dts, 0, frameNo[i]))
    ELSE IF frameNo[i] # FrameOf(i)
    THEN Got(Pkt(0, Time(i, FrameOf(i)), 0, FrameOf(i)))
    ELSE Got(Pkt(1, Time(i, frameNo[i]), 0, frameNo[i]))

ReaderPacket(i) == CASE S(i).kind = "packets" -> ReadFrame(i)
                     [] S(i).kind = "nals"    -> ReadNal(i)
                     [] S(i).kind = "pgs"     -> ReadPgs(i)

\* Mutant: the last frame is filled up.
FlushPacket_Fills(i) == Pkt(S(i).frame, Time(i, FrameOf(i)), 0, frameNo[i])

\* flushPacket: what is left, except that PGS has none.
FlushPacket(i) ==
    CASE S(i).kind = "packets" ->
            Pkt(Rest(i), Time(i, FrameOf(i)), 0, frameNo[i])
      [] S(i).kind = "nals"    -> Pkt(Rest(i), Time(i, frameNo[i]), 0, frameNo[i])
      [] S(i).kind = "pgs"     -> Pkt(0, packet.dts, 0, frameNo[i])
-----------------------------------------------------------------------------
(* readPacket.                                                             *)

Init ==
    /\ input \in Inputs
    /\ calls = [c \in Containers |-> 0]
    /\ taken = [i \in Streams |-> 0]
    /\ lastReadCnt = [i \in Streams |-> 0]
    /\ mark = [i \in Streams |-> "ok"]
    /\ given = [i \in Streams |-> 0]
    /\ sent = [i \in Streams |-> 0]
    /\ frameNo = [i \in Streams |-> IF Fragmented(i) THEN -1 ELSE 0]
    /\ lastAVRez = [i \in Streams |-> "more"]
    /\ isEOF = [i \in Streams |-> FALSE]
    /\ flushed = [i \in Streams |-> FALSE]
    /\ lastDTS = [i \in Streams |-> IF S(i).shift > 0 THEN S(i).shift ELSE 0]
    /\ readRez = [i \in Streams |-> "ok"]
    /\ pc = "scan" /\ at = 1 /\ minIndex = None
    /\ allDelayed = TRUE /\ flushMode = FALSE
    /\ packet = [stream |-> None, dts |-> 0, size |-> 0]
    /\ lastProcessed = [stream |-> None, dts |-> 0]

Scanning(i) == pc = "scan" /\ at = i
Earlier(i) == minIndex = None \/ lastDTS[i] < lastDTS[minIndex]

\* The end of a round of the loop over the streams.
NextStream == IF at = Len(input.streams)
              THEN pc' = "decide" /\ at' = 1
              ELSE at' = at + 1 /\ UNCHANGED pc

\* Mutant: a stream is flushed again.
Consider_Again(i, rez) ==
    /\ readRez' = [readRez EXCEPT ![i] = rez]
    /\ CASE rez = "delayed"  -> /\ NextStream
                                /\ UNCHANGED <<minIndex, allDelayed>>
         [] rez = "notReady" -> /\ at' = 1 /\ minIndex' = None
                                /\ allDelayed' = TRUE /\ UNCHANGED pc
         [] OTHER            -> /\ NextStream /\ allDelayed' = FALSE
                                /\ minIndex' = IF Earlier(i) THEN i ELSE minIndex
\* How a round ends if StreamInfo::read has returned rez.
Consider(i, rez) ==
    /\ readRez' = [readRez EXCEPT ![i] = rez]
    /\ CASE rez = "delayed"  -> /\ NextStream
                                /\ UNCHANGED <<minIndex, allDelayed>>
         [] rez = "notReady" -> /\ at' = 1 /\ minIndex' = None
                                /\ allDelayed' = TRUE /\ UNCHANGED pc
         [] OTHER            -> /\ NextStream /\ allDelayed' = FALSE
                                /\ minIndex' = IF /\ Earlier(i)
                                                  /\ rez = "eof2" => ~flushed[i]
                                               THEN i ELSE minIndex

\* StreamInfo::read with a packet left in the reader, or at the end.
ReadNothing(i) ==
    /\ Scanning(i) /\ ~flushMode
    /\ lastAVRez[i] = "ok" \/ isEOF[i]
    /\ Consider(i, IF lastAVRez[i] = "ok" THEN "ok" ELSE "eof2")
    /\ UNCHANGED <<input, containerVars, readerVars, lastAVRez, isEOF, flushed,
                   lastDTS, flushMode, packet, lastProcessed>>

\* Mutant: the block that comes with the end is not handed on.
Hand_DropsLast(i, b) ==
    /\ Consider(i, b.rez)
    /\ IF b.rez \in {"notReady", "delayed"}
       THEN /\ lastAVRez' = [lastAVRez EXCEPT ![i] = b.rez]
            /\ UNCHANGED <<isEOF, given>>
       ELSE /\ lastAVRez' = [lastAVRez EXCEPT ![i] = "ok"]
            /\ isEOF' = [isEOF EXCEPT ![i] = b.rez = "eof"]
            /\ given' = [given EXCEPT ![i] = IF b.rez = "eof" THEN @ ELSE @ + b.cnt]

\* StreamInfo::read that hands a block b to the reader with setBuffer.
Hand(i, b) ==
    /\ Consider(i, b.rez)
    /\ IF b.rez \in {"notReady", "delayed"}
       THEN /\ lastAVRez' = [lastAVRez EXCEPT ![i] = b.rez]
            /\ UNCHANGED <<isEOF, given>>
       ELSE /\ lastAVRez' = [lastAVRez EXCEPT ![i] = "ok"]
            /\ isEOF' = [isEOF EXCEPT ![i] = b.rez = "eof"]
            /\ given' = [given EXCEPT ![i] = @ + b.cnt]

Hungry(i) == Scanning(i) /\ ~flushMode /\ lastAVRez[i] # "ok" /\ ~isEOF[i]

ReadContainer(i) ==
    /\ Hungry(i) /\ S(i).src # File /\ ~Overflows(i)
    /\ LET b == ContainerBlock(i) IN
       /\ calls' = [calls EXCEPT ![S(i).src] = b.calls]
       /\ taken' = [taken EXCEPT ![i] = Taken(i)]
       /\ lastReadCnt' = [lastReadCnt EXCEPT ![i] = b.cnt]
       /\ mark' = [mark EXCEPT ![i] = b.mark]
       /\ Hand(i, b)
    /\ UNCHANGED <<input, sent, frameNo, flushed, lastDTS, flushMode, packet, lastProcessed>>

ReadFile(i) ==
    /\ Hungry(i) /\ S(i).src = File
    /\ LET b == FileBlockOf(i) IN
       /\ taken' = [taken EXCEPT ![i] = @ + b.cnt]
       /\ Hand(i, b)
    /\ UNCHANGED <<input, calls, lastReadCnt, mark, sent, frameNo, flushed,
                   lastDTS, flushMode, packet, lastProcessed>>

\* "Reading buffer overflow": readPacket throws and the mux ends.
ReadThrows(i) ==
    /\ Hungry(i) /\ S(i).src # File /\ Overflows(i)
    /\ pc' = "thrown"
    /\ UNCHANGED <<input, containerVars, readerVars, infoVars, at, minIndex,
                   allDelayed, flushMode, packet, lastProcessed>>

\* A round of the loop once everything is to be flushed.
ScanForFlush(i) ==
    /\ Scanning(i) /\ flushMode
    /\ NextStream /\ allDelayed' = FALSE
    /\ minIndex' = IF Earlier(i) /\ ~flushed[i] THEN i ELSE minIndex
    /\ UNCHANGED <<input, containerVars, readerVars, infoVars, flushMode, packet,
                   lastProcessed>>

Rescan == pc' = "scan" /\ minIndex' = None /\ allDelayed' = TRUE /\ UNCHANGED at

\* Every stream was delayed: resetDelayedMark, and the loop starts over.
ResetDelayedMark ==
    /\ pc = "decide" /\ allDelayed
    /\ mark' = [i \in Streams |-> IF mark[i] = "delayed" THEN "ok" ELSE mark[i]]
    /\ Rescan
    /\ UNCHANGED <<input, calls, taken, lastReadCnt, readerVars, infoVars,
                   flushMode, packet, lastProcessed>>

\* TSMuxer::muxPacket passes over empty packets.
MuxPacket(i, dts, size) ==
    lastProcessed' = IF size = 0 THEN lastProcessed ELSE [stream |-> i, dts |-> dts]

\* The packet that readPacket returns to doMux, which gives it to the muxer,
\* and the state of its reader.
Return(i, pkt, dts) ==
    /\ packet' = [stream |-> i, dts |-> dts, size |-> pkt.size]
    /\ MuxPacket(i, dts, pkt.size)
    /\ sent' = [sent EXCEPT ![i] = @ + pkt.size]
    /\ frameNo' = [frameNo EXCEPT ![i] = pkt.frame]
    /\ Rescan
    /\ UNCHANGED <<input, containerVars, given, isEOF, readRez, flushMode>>

\* Mutant: the next packet of the stream is expected at its time unshifted.
Advance_Unshifted(i, pkt) == lastDTS' = [lastDTS EXCEPT ![i] = pkt.dts + pkt.duration]
Advance(i, pkt) == lastDTS' = [lastDTS EXCEPT ![i] = pkt.dts + S(i).shift + pkt.duration]

SendPacket ==
    /\ pc = "decide" /\ minIndex # None /\ ~flushMode
    /\ readRez[minIndex] # "eof2"
    /\ LET r == ReaderPacket(minIndex) IN
       /\ Return(minIndex, r.pkt, r.pkt.dts + S(minIndex).shift)
       /\ Advance(minIndex, r.pkt)
       /\ lastAVRez' = [lastAVRez EXCEPT ![minIndex] = r.rez]
    /\ UNCHANGED flushed

\* A stream at its end is flushed by itself.
FlushStream ==
    /\ pc = "decide" /\ minIndex # None /\ ~flushMode
    /\ readRez[minIndex] = "eof2"
    /\ LET pkt == FlushPacket(minIndex) IN
       /\ Return(minIndex, pkt, pkt.dts + S(minIndex).shift)
       /\ Advance(minIndex, pkt)
    /\ flushed' = [flushed EXCEPT ![minIndex] = TRUE]
    /\ UNCHANGED lastAVRez

\* Flushing everything, without the time shift.
FlushRest ==
    /\ pc = "decide" /\ minIndex # None /\ flushMode
    /\ LET pkt == FlushPacket(minIndex) IN Return(minIndex, pkt, pkt.dts)
    /\ flushed' = [flushed EXCEPT ![minIndex] = TRUE]
    /\ UNCHANGED <<lastAVRez, lastDTS>>

EnterFlushMode ==
    /\ pc = "decide" /\ minIndex = None /\ ~allDelayed /\ ~flushMode
    /\ flushMode' = TRUE /\ Rescan
    /\ UNCHANGED <<input, containerVars, readerVars, infoVars, packet, lastProcessed>>

ReturnEof ==
    /\ pc = "decide" /\ minIndex = None /\ flushMode
    /\ pc' = "ended"
    /\ UNCHANGED <<input, containerVars, readerVars, infoVars, at, minIndex,
                   allDelayed, flushMode, packet, lastProcessed>>

Over == pc \in {"ended", "thrown"}
Stopped == Over /\ UNCHANGED vars

Read == \E i \in Streams : \/ ReadNothing(i) \/ ReadContainer(i) \/ ReadFile(i)
                           \/ ReadThrows(i) \/ ScanForFlush(i)
Work == \/ Read \/ ResetDelayedMark \/ SendPacket \/ FlushStream \/ FlushRest
        \/ EnterFlushMode \/ ReturnEof
Next == Work \/ Stopped

\* doMux calls readPacket until it returns DATA_EOF or throws.
Spec == Init /\ [][Next]_vars /\ WF_vars(Work)
-----------------------------------------------------------------------------
(* Properties.                                                             *)

TypeOK ==
    /\ \A c \in Containers : calls[c] \in 0..LastCall(c)
    /\ \A i \in Streams :
         /\ taken[i] \in Nat /\ lastReadCnt[i] \in 0..MaxBlock
         /\ mark[i] \in {"ok", "eof", "delayed", "notReady"}
         /\ given[i] \in 0..Total(i) /\ sent[i] \in 0..given[i]
         /\ frameNo[i] \in Int /\ lastDTS[i] \in Int
         /\ lastAVRez[i] \in {"ok", "more", "delayed", "notReady"}
         /\ isEOF[i] \in BOOLEAN /\ flushed[i] \in BOOLEAN
         /\ readRez[i] \in {"ok", "eof", "eof2", "delayed", "notReady"}
    /\ pc \in {"scan", "decide", "ended", "thrown"}
    /\ at \in Streams /\ minIndex \in Streams \cup {None}
    /\ allDelayed \in BOOLEAN /\ flushMode \in BOOLEAN
    /\ packet.stream \in Streams \cup {None} /\ packet.dts \in Int
    /\ packet.size \in Nat
    /\ lastProcessed.stream \in Streams \cup {None} /\ lastProcessed.dts \in Int

\* Between the buffer of the container and the reader no unit is lost or handed
\* over twice, although readBlock removes a block only when it is called again
\* and its caller drops the block it is given with DATA_DELAYED.
HandedOverOnce == \A i \in Streams : given[i] = Taken(i)

\* The end is announced with the last data, not before (Matroska announces it
\* when the last cluster is parsed, and hands that over later), and a block
\* can take what is buffered then.
EndsWithData(i) ==
    LET c == S(i).src IN
    \/ c = File
    \/ input.eofFrom[c] = LastCall(c)
    \/ /\ input.eofFrom[c] = input.calls[c]
       /\ \A k \in 1..input.calls[c] :
            Upto(i, k) - Upto(i, k - 1) + MinReadBlock - 1 <= MaxBlock

\* A container of subtitles only beside other inputs.
SubtitlesAlone(i) == /\ Fragmented(i) /\ AllFragmented(S(i).src)
                     /\ \E j \in Streams : S(j).src # S(i).src

\* When the merge has ended every unit of every stream is in a packet; what is
\* excepted is lost by the code.
AllSent == pc = "ended" =>
             \A i \in Streams : EndsWithData(i) /\ ~SubtitlesAlone(i)
                                  => sent[i] = Total(i)

\* The muxer gets the packets of sound and video in the order of their
\* decoding time: none is earlier than the one before it, except the first of
\* a stream, of which the merge does not know that it starts before 0.
Clocked(i) == i # None /\ ~Fragmented(i)
Known(i) == sent[i] > 0 \/ (S(i).first = 0 /\ S(i).shift >= 0)
NotEarlier ==
    LET i == lastProcessed.stream  j == lastProcessed'.stream IN
    (Clocked(i) /\ Clocked(j) /\ Known(j)) => lastProcessed'.dts >= lastProcessed.dts
InDtsOrder == [][NotEarlier]_lastProcessed

\* The merge ends, whatever streams are delayed.
MergeEnds == <>Over
=============================================================================
