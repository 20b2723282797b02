--------------------------- MODULE TransportStream ---------------------------
(***************************************************************************)
(* The output of one TSMuxer (tsMuxer/tsMuxer.cpp): access units become    *)
(* PES packets and these TS packets, between the tables and the clock; the *)
(* buffer is cut into blocks for the writer; in an M2TS file every packet  *)
(* has an arrival time, known only when the next clock packet is written,  *)
(* and a file is made of whole sectors; a file is split at a key frame.    *)
(*                                                                         *)
(* Sizes are in units of which a packet has FrameSize and which are chosen *)
(* so that, as in the code, a packet may straddle two blocks.  Times are   *)
(* in ticks of the clock of PCR and DTS, arrival times in HiRes-ths of it. *)
(* The state of the object is a record and its methods are functions of    *)
(* it.  The blocks of 3D files and the writer are in module MuxerManager.  *)
(***************************************************************************)
EXTENDS Integers, Sequences, SequencesExt

CONSTANTS
    Options,        \* the option records of a run, see OptionSpace
    FrameSize,      \* the units of a packet: m_frameSize
    WriteBlock,     \* DEFAULT_FILE_BLOCK_SIZE
    PhysicalSector, \* PHYSICAL_SECTOR_SIZE
    Sector,         \* m_sectorSize of an M2TS file
    HiRes,          \* 300: the clock of arrival times is 27 MHz
    Gap,            \* gapForPATPMT
    PcrDelta,       \* M_PCR_DELTA
    TableDelta,     \* m_patPmtDelta of a TS file; that of M2TS is PcrDelta
    SitInterval,    \* SIT_INTERVAL
    Streams,        \* the streams; MainStream is m_mainStreamIndex
    MainStream,
    Steps,          \* the distances in time of packets that follow each other
    MaxSize,        \* the largest packet, in TS packets
    MaxPackets      \* the packets of a run

\* m2ts; the first time stamp and --vbv-len; --bitrate as units per tick, 0
\* without; --split-size in units and --split-duration in ticks, 0 without.
OptionSpace ==
    [m2ts : BOOLEAN, start : Nat, vbv : Nat, bitrate : Nat,
     splitSize : Nat, splitDuration : Nat]

ASSUME ConstantAssumption ==
    /\ Options \subseteq OptionSpace
    /\ FrameSize \in Nat \ {0} /\ PhysicalSector \in Nat \ {0}
    /\ WriteBlock \in Nat /\ WriteBlock >= PhysicalSector
    /\ Sector \in Nat \ {0}
    /\ Sector % FrameSize = 0 /\ Sector % PhysicalSector = 0
    /\ HiRes \in Nat \ {0} /\ Gap \in Nat
    /\ PcrDelta \in Nat \ {0} /\ TableDelta \in Nat /\ SitInterval \in Nat
    /\ MainStream \in Streams
    /\ Steps \subseteq Nat /\ MaxSize \in Nat \ {0} /\ MaxPackets \in Nat

VARIABLES
    options,    \* the options of this run
    mux,        \* the TSMuxer
    last,       \* the last packet muxed
    count,      \* the packets muxed
    fed,        \* the TS packets' worth of data muxed, as it should come out
    done        \* the mux is closed

vars == <<options, mux, last, count, fed, done>>

Never == -1
NoPes == [stream |-> MainStream, dts |-> Never, key |-> FALSE, size |-> 0]
Cbr == options.bitrate > 0

\* A file: its packets, the arrival times written into it and where, the units
\* of it that the writer has.
EmptyFile == [packets |-> <<>>, stamps |-> <<>>, written |-> 0]

Larger(m, n) == IF m > n THEN m ELSE n
Sum(lengths) == FoldLeft(LAMBDA x, y : x + y, 0, lengths)
Repeat(Op(_), s, n) == FoldLeft(LAMBDA t, k : Op(t), s, [k \in 1..n |-> k])
-----------------------------------------------------------------------------
(* The buffer.  Its fields in the record: buf is m_outBufLen, stampedTo    *)
(* m_prevM2TSPCROffset, delayed the lengths of m_m2tsDelayBlocks, arrival  *)
(* m_prevM2TSPCR, processed m_processedBlockSize.                          *)

Hand(s, units) == [s EXCEPT !.file.written = @ + units]

\* Mutant: the time of the last clock is not kept.
ProcessM2TSPCR_Forgets(s, pcr, gap) ==
    LET pending == Sum(s.delayed) - s.stampedTo + s.buf
        frames == pending \div FrameSize
        now == pcr * HiRes - gap
        Stamp(k) == [at |-> s.file.written + s.stampedTo + (k - 1) * FrameSize,
                     time |-> s.arrival + ((now - s.arrival) * k) \div frames] IN
    [Hand(s, Sum(s.delayed)) EXCEPT
        !.file.stamps = @ \o [k \in 1..frames |-> Stamp(k)],
        !.delayed = <<>>, !.stampedTo = s.buf]

\* processM2TSPCR: the packets written since the last call arrive between then
\* and now; the delayed blocks are complete and go to the writer.
ProcessM2TSPCR(s, pcr, gap) ==
    LET pending == Sum(s.delayed) - s.stampedTo + s.buf
        frames == pending \div FrameSize                \* calcM2tsFrameCnt
        now == pcr * HiRes - gap
        Stamp(k) == [at |-> s.file.written + s.stampedTo + (k - 1) * FrameSize,
                     time |-> s.arrival + ((now - s.arrival) * k) \div frames] IN
    [Hand(s, Sum(s.delayed)) EXCEPT
        !.file.stamps = @ \o [k \in 1..frames |-> Stamp(k)],
        !.delayed = <<>>, !.stampedTo = s.buf, !.arrival = now]

\* m_writeBlockSize, see setMuxFormat.
BlockSize == WriteBlock - (IF options.m2ts THEN 0 ELSE WriteBlock % FrameSize)

\* Mutant: a buffer that is just full is not written.
WriteOutBuffer_Later(s) ==
    LET toFile == BlockSize - (BlockSize % PhysicalSector)
        complete == s.stampedTo >= toFile /\ s.delayed = <<>> IN
    IF s.buf <= BlockSize THEN s
    ELSE IF ~options.m2ts
    THEN [Hand(s, toFile) EXCEPT !.buf = @ - toFile]
    ELSE IF complete
    THEN [Hand(s, toFile) EXCEPT !.buf = @ - toFile, !.stampedTo = @ - toFile]
    ELSE [s EXCEPT !.buf = @ - toFile, !.delayed = Append(@, toFile)]

\* writeOutBuffer: a full block goes to the writer, or waits for its times.
WriteOutBuffer(s) ==
    LET toFile == BlockSize - (BlockSize % PhysicalSector)
        complete == s.stampedTo >= toFile /\ s.delayed = <<>> IN
    IF s.buf < BlockSize THEN s
    ELSE IF ~options.m2ts
    THEN [Hand(s, toFile) EXCEPT !.buf = @ - toFile]
    ELSE IF complete
    THEN [Hand(s, toFile) EXCEPT !.buf = @ - toFile, !.stampedTo = @ - toFile]
    ELSE [s EXCEPT !.buf = @ - toFile, !.delayed = Append(@, toFile)]

\* A packet: its kind, its time (the clock it carries, or the DTS of its PES),
\* its stream and whether its PES is a key frame.
TsPacket(kind, time, stream, key) ==
    [kind |-> kind, time |-> time, stream |-> stream, key |-> key]
Other(kind) == TsPacket(kind, 0, MainStream, FALSE)

Put(s, p) ==
    [s EXCEPT !.file.packets = Append(@, p), !.buf = @ + FrameSize,
              !.processed = @ + FrameSize, !.pcrBits = @ + FrameSize]
WritePacket(s, p) == WriteOutBuffer(Put(s, p))
WriteNullPackets(s, n) == Repeat(LAMBDA t : WritePacket(t, Other("null")), s, n)
-----------------------------------------------------------------------------
(* The tables and the clock.                                               *)

WritePATPMT(s, pcr, force) ==
    LET delta == IF options.m2ts THEN PcrDelta ELSE TableDelta
        tables == WritePacket(WritePacket([s EXCEPT !.lastPMT = pcr],
                                          Other("pat")), Other("pmt"))
        sit == force \/ pcr - s.lastSIT > SitInterval IN
    IF ~force /\ pcr - s.lastPMT < delta THEN s
    ELSE IF sit THEN WritePacket([tables EXCEPT !.lastSIT = pcr], Other("sit"))
    ELSE tables

WriteEmptyPacketWithPCR(s, pcr) ==
    LET t == Put(s, TsPacket("pcr", pcr, MainStream, FALSE)) IN
    WriteOutBuffer(IF options.m2ts THEN ProcessM2TSPCR(t, pcr, 0) ELSE t)

\* writePCR: with a fixed bitrate null packets fill the time since the last.
WritePCR(s, pcr) ==
    LET fill == Cbr /\ s.lastPCR # Never
        expected == (pcr - s.lastPCR) * options.bitrate - s.pcrBits
        frames == IF fill /\ expected > 0
                  THEN (expected + FrameSize - 1) \div FrameSize ELSE 0
        rest == IF frames > 0 THEN frames * FrameSize - expected ELSE 0 IN
    [WriteEmptyPacketWithPCR([WriteNullPackets(s, frames) EXCEPT !.pcrBits = rest], pcr)
        EXCEPT !.lastPCR = pcr]

\* The clock that a fixed bitrate asks for, as computed in three places.
CbrPCR(s) == (2 * (s.lastPCR + s.pcrBits) + options.bitrate) \div (2 * options.bitrate)
AtBitrate(s, pcr) ==
    IF Cbr /\ s.lastPCR # Never THEN Larger(pcr, CbrPCR(s)) ELSE pcr
-----------------------------------------------------------------------------
(* PES packets.                                                            *)

WriteTSFrame(s, p) ==
    LET pcr == CbrPCR(s)
        due == Cbr /\ s.lastPCR # Never /\ pcr - s.lastPCR >= PcrDelta
        clocked == IF due
                   THEN WritePCR(WritePATPMT([s EXCEPT !.pcrBits = 0], pcr, FALSE), pcr)
                   ELSE s IN
    WritePacket(clocked, p)

\* writePESPacket and writeTSFrames.
WritePESPacket(s) ==
    LET p == TsPacket("pes", s.pes.dts, s.pes.stream, s.pes.key) IN
    [Repeat(LAMBDA t : WriteTSFrame(t, p), s, s.pes.size) EXCEPT !.pes = NoPes]

\* addData: the first packet of a PES gives it its time.
AddData(s, p) ==
    [s EXCEPT !.pes =
        IF s.pes.size = 0
        THEN [stream |-> p.stream, dts |-> p.dts, key |-> p.key, size |-> p.size]
        ELSE [s.pes EXCEPT !.size = @ + p.size]]
-----------------------------------------------------------------------------
(* Files.                                                                  *)

\* doFlush: an M2TS file is filled up to whole sectors; of a TS file the rest
\* that is not a whole sector stays in the buffer.
DoFlush(s, pcr, gap) ==
    LET t == WritePESPacket(s)
        missing == (Sector - (t.processed % Sector)) % Sector
        u == IF options.m2ts
             THEN ProcessM2TSPCR(WriteNullPackets(t, missing \div FrameSize), pcr, gap)
             ELSE t
        rest == u.buf % PhysicalSector IN
    [Hand(u, u.buf - rest) EXCEPT !.buf = rest]

\* flushTSBuffer, and what close does with the rest of a TS file.
FlushTSBuffer(s) == [Hand(s, s.buf) EXCEPT !.buf = 0]

\* gotoNextFile.
GotoNextFile(s, pts) ==
    [s EXCEPT !.files = Append(@, s.file), !.file = EmptyFile, !.fileStart = pts]

\* finishFileBlock for a file that is split.
FinishFileBlock(s, pts, pcr) ==
    LET flushed == [DoFlush(s, pcr, Gap) EXCEPT !.processed = 0, !.stampedTo = 0]
        finished == IF s.processed = 0 THEN s
                    ELSE IF options.m2ts THEN flushed ELSE FlushTSBuffer(flushed) IN
    WritePCR(WritePATPMT(GotoNextFile(finished, pts), pcr, TRUE), pcr)

\* Mutant: any frame will do.
IsSplitPoint_AnyFrame(s, p) ==
    /\ p.stream = MainStream
    /\ IF options.splitSize > 0
       THEN Len(s.file.packets) * FrameSize > options.splitSize
       ELSE options.splitDuration > 0 /\ p.dts - s.fileStart > options.splitDuration
IsSplitPoint(s, p) ==
    /\ p.stream = MainStream /\ p.key
    /\ IF options.splitSize > 0
       THEN Len(s.file.packets) * FrameSize > options.splitSize
       ELSE options.splitDuration > 0 /\ p.dts - s.fileStart > options.splitDuration
-----------------------------------------------------------------------------
(* muxPacket.                                                              *)

\* The clock at a decoding time.
\* Mutant: without the offset.
PcrAt_FromZero(s, dts) == dts - s.minDts
PcrAt(s, dts) == dts - s.minDts + s.pcrOffset

\* What the first packet sets, and the tables and the clock it brings.
Begin(s, p) ==
    IF s.minDts # Never THEN s
    ELSE LET offset == Larger(0, p.dts - options.vbv) IN
         WritePCR(WritePATPMT([s EXCEPT !.fileStart = p.dts, !.pcrOffset = offset,
                                        !.arrival = (offset - 1) * HiRes,
                                        !.minDts = p.dts],
                              offset, TRUE), offset)

\* Mutant: the stream is not looked at.
NewPES_AnyStream(s, p) == p.force \/ p.dts # s.dts[p.stream]
NewPES(s, p) == p.force \/ p.stream # s.lastStream \/ p.dts # s.dts[p.stream]

MuxPacket(s, p) ==
    LET begun == Begin(s, p)
        new == NewPES(begun, p)
        t == [(IF new THEN WritePESPacket(begun) ELSE begun)
                EXCEPT !.lastStream = p.stream]
        pcr == AtBitrate(t, PcrAt(t, p.dts))
        clocked == IF new /\ IsSplitPoint(t, p) THEN FinishFileBlock(t, p.dts, pcr)
                   ELSE IF pcr - t.lastPCR >= PcrDelta
                   THEN WritePCR(WritePATPMT(t, pcr, FALSE), pcr)
                   ELSE t IN
    AddData([clocked EXCEPT !.dts[p.stream] = p.dts, !.endDts = p.dts + p.duration], p)

\* doFlush at the end, and close.
Finish(s) ==
    LET pcr == IF options.m2ts THEN AtBitrate(s, PcrAt(s, s.endDts)) ELSE 0
        t == DoFlush(s, pcr, 0) IN
    IF options.m2ts THEN t ELSE FlushTSBuffer(t)
-----------------------------------------------------------------------------
Muxer ==
    [buf |-> 0, stampedTo |-> 0, delayed |-> <<>>, arrival |-> 0, processed |-> 0,
     lastPCR |-> Never, lastPMT |-> Never, lastSIT |-> Never, pcrBits |-> 0,
     pes |-> NoPes, lastStream |-> Never, dts |-> [i \in Streams |-> Never],
     minDts |-> Never, pcrOffset |-> 0, fileStart |-> 0, endDts |-> 0,
     file |-> EmptyFile, files |-> <<>>]

Init ==
    /\ options \in Options
    /\ mux = Muxer
    /\ last = [stream |-> MainStream, dts |-> options.start]
    /\ count = 0 /\ fed = <<>> /\ done = FALSE

\* METADemuxer's next packet, in the order of the decoding times.  The packets
\* of a frame of the main stream follow each other; every packet of another
\* stream is a frame of its own.
NextPacket(step, stream, size, key, force) ==
    [stream |-> stream, dts |-> last.dts + step, size |-> size,
     key |-> key, force |-> force, duration |-> IF force THEN 1 ELSE 0]

Packet ==
    /\ ~done /\ count < MaxPackets
    /\ \E step \in Steps, stream \in Streams, size \in 1..MaxSize, key \in BOOLEAN :
         LET p == NextPacket(step, stream, size, key, stream # MainStream)
             more == ~NewPES(mux, p) IN
         /\ stream # MainStream => ~key
         /\ more => key = mux.pes.key
         /\ mux' = MuxPacket(mux, p)
         /\ last' = [stream |-> stream, dts |-> p.dts]
         /\ count' = count + 1
         /\ fed' = fed \o [k \in 1..size |-> TsPacket("pes", p.dts, stream, key)]
    /\ UNCHANGED <<options, done>>

Close ==
    /\ ~done /\ count > 0
    /\ mux' = Finish(mux) /\ done' = TRUE
    /\ UNCHANGED <<options, last, count, fed>>

Next == Packet \/ Close \/ (done /\ UNCHANGED vars)
Spec == Init /\ [][Next]_vars
-----------------------------------------------------------------------------
(* Properties.                                                             *)

Files == Append(mux.files, mux.file)

TypeOK ==
    /\ mux.buf \in 0..WriteBlock - 1 /\ mux.stampedTo \in Nat
    /\ \A i \in DOMAIN mux.delayed : mux.delayed[i] \in 1..WriteBlock
    /\ mux.processed \in Nat /\ mux.pcrBits \in Nat
    /\ mux.lastPCR \in Nat \cup {Never} /\ mux.pes.size \in Nat
    /\ count \in 0..MaxPackets /\ done \in BOOLEAN

\* The data comes out as it went in: whole, in order, across files.
AllData ==
    LET Written == FoldLeft(LAMBDA x, f : x \o f.packets, <<>>, Files)
        Pending == [k \in 1..mux.pes.size |->
                      TsPacket("pes", mux.pes.dts, mux.pes.stream, mux.pes.key)] IN
    /\ fed = SelectSeq(Written, LAMBDA p : p.kind = "pes") \o Pending
    /\ done => Pending = <<>>

\* A file the writer has all of: whole sectors, and in an M2TS file whole sectors
\* of 32 packets; until then only whole physical sectors.
Complete(f) ==
    /\ f.written = Len(f.packets) * FrameSize
    /\ options.m2ts => f.written % Sector = 0
WholeSectors ==
    /\ \A i \in DOMAIN mux.files : Complete(mux.files[i])
    /\ IF done THEN Complete(mux.file) ELSE mux.file.written % PhysicalSector = 0

\* Every packet of an M2TS file has its arrival time before the writer has any
\* of it, and it is written where the packet begins.
Stamped ==
    options.m2ts =>
      \A f \in Range(Files) :
        /\ \A i \in DOMAIN f.stamps : f.stamps[i].at = (i - 1) * FrameSize
        /\ \A i \in DOMAIN f.packets :
             (i - 1) * FrameSize < f.written => i <= Len(f.stamps)

\* A packet with a clock arrives at the time that the clock says.
ArrivesAtPcr ==
    \A f \in Range(Files) : \A i \in DOMAIN f.stamps :
      f.packets[i].kind = "pcr" => f.stamps[i].time = f.packets[i].time * HiRes

\* Packets arrive in the order in which they are written; only when a file ends
\* at the time of its last clock are those after that clock up to Gap before it.
\* (With a bitrate the clock of the end is known before the last PES is written,
\* which may bring a later one.)
ArrivalOrder ==
    ~Cbr => \A f \in Range(Files) : \A i \in 1..Len(f.stamps) - 1 :
      \/ f.stamps[i].time <= f.stamps[i + 1].time
      \/ /\ f.stamps[i].time - Gap <= f.stamps[i + 1].time
         /\ \A j \in i + 1..Len(f.packets) : f.packets[j].kind # "pcr"

\* The arrival times of an M2TS file are in place, true, and in order.
ArrivalTimes == Stamped /\ ArrivesAtPcr /\ ArrivalOrder

\* Data is sent before it is decoded and not too early: the clock before it is
\* not past its decoding time, and behind it by less than the length of the
\* buffer (--vbv-len) and PcrDelta.
DataInTime ==
    ~Cbr => \A f \in Range(Files) : \A i \in DOMAIN f.packets :
      LET p == f.packets[i] IN
      p.kind = "pes" =>
        \E j \in 1..i - 1 :
          /\ f.packets[j].kind = "pcr"
          /\ \A k \in j + 1..i - 1 : f.packets[k].kind # "pcr"
          /\ f.packets[j].time \in p.time - options.vbv - PcrDelta + 1..p.time

\* A player can start at every file: it begins with the tables and the clock,
\* and the main stream in it with a key frame.
FilesStart ==
    \A n \in DOMAIN mux.files :
      LET packets == Files[n + 1].packets
          Main(i) == packets[i].kind = "pes" /\ packets[i].stream = MainStream IN
      /\ [i \in 1..4 |-> packets[i].kind] = <<"pat", "pmt", "sit", "pcr">>
      /\ \A i \in DOMAIN packets :
           (Main(i) /\ \A j \in 1..i - 1 : ~Main(j)) => packets[i].key

\* Every file that comes out can be played: its sectors are whole, and it begins
\* as a player needs it.
FilesPlayable == WholeSectors /\ FilesStart

\* What --bitrate promises: between two clocks there is no more than the bitrate
\* has room for; a set of tables and rounding aside.
FixedBitrate ==
    Cbr => \A i, j \in DOMAIN mux.file.packets :
      LET p == mux.file.packets[i]  q == mux.file.packets[j] IN
      (i < j /\ p.kind = "pcr" /\ q.kind = "pcr"
             /\ \A k \in i + 1..j - 1 : mux.file.packets[k].kind # "pcr") =>
        (j - i) * FrameSize <= (q.time - p.time) * options.bitrate + 4 * FrameSize
=============================================================================
