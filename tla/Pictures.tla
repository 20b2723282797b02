------------------------------- MODULE Pictures -------------------------------
(***************************************************************************)
(* Video in units: MPEGStreamReader cuts a stream at its start codes, and  *)
(* H264StreamReader finds the pictures, gives them their times from the    *)
(* order in which they are shown, and writes what the stream lacks.        *)
(*                                                                         *)
(* A stream is a sequence of bytes.  Start codes are bytes, and what is    *)
(* escaped in a unit; the header of unit i of the film is one byte,        *)
(* Header(i), and options.units[i] is what a parser reads behind it:       *)
(*   [t, first, type, idr, bottom, lsb, order]                             *)
(* where t is "sps" "pps" "timing" "sei" "aud" "slice" "filler" or "eos",  *)
(* first says whether a slice is the first of its picture, and order is    *)
(* the place of the picture after the last IDR picture, as it is shown.    *)
(* The unit begins at options.starts[i].                                   *)
(***************************************************************************)
EXTENDS Blocks, NalUnits, FiniteSets, SequencesExt

CONSTANTS
    Films,          \* [files, block, units, starts, maxLsb, poc, frames, hrd, sei, cont, split]
    Inc,            \* m_pcrIncPerFrame
    TypeLen,        \* what must be there to read the type of a slice
    HeaderLen,      \* and its whole header
    MaxPacket,      \* MAX_AV_PACKET_SIZE
    MaxDepth,       \* the largest delay, 3
    ManyFrames      \* 250, for streams that do not repeat their parameters

PictureAssumption ==
    /\ Inc \in Nat \ {0} /\ TypeLen \in 1..HeaderLen /\ HeaderLen \in Nat
    /\ MaxPacket \in Nat /\ MaxPacket > 8 /\ MaxDepth \in Nat /\ ManyFrames \in Nat
    /\ \A f \in Films : f.poc \in {0, 2} /\ f.sei \in {"no", "auto", "force"} /\ f.maxLsb \in Nat

VARIABLES options, mux, fed
vars == <<options, mux, fed>>

Header(i) == 10 + i
UnitAt(data, p) == options.units[data[p] - 10]
Is(data, p, kinds) == p <= Len(data) /\ data[p] > 10 /\ UnitAt(data, p).t \in kinds
Done(r) == [r EXCEPT !.res = "ok"]
Short(r) == [r EXCEPT !.res = "short"]

-----------------------------------------------------------------------------
(* Units, and what they tell.                                              *)

Unit(data, p) == DecodeNAL(SubSeq(data, p, FindNALWithStartCode(data, p) - 1))
\* SPSUnit::insertHrdParameters: sets without a bit rate get one.
Hrd == <<7, 7>>
WithHrd(unit) == IF options.hrd THEN unit ELSE unit \o Hrd
\* processSPS: with own parameters, one that was read stays.
ProcessSPS(r, p) ==
    LET unit == Unit(r.data, p) IN
    CASE r.needSei /\ Len(r.data) - p + 1 < HeaderLen -> Short(r)
      [] r.needSei /\ Len(r.data) - p + 1 >= HeaderLen /\ r.own -> Done(r)
      [] ~(r.needSei /\ (r.own \/ Len(r.data) - p + 1 < HeaderLen)) /\ Len(unit) <= HeaderLen -> Short(r)
      [] OTHER -> Done([r EXCEPT !.sps = IF r.needSei THEN WithHrd(unit) ELSE unit,
                                 !.own = @ \/ options.hrd \/ r.needSei])
ProcessPPS(r, p) ==
    LET unit == Unit(r.data, p) IN
    IF Len(unit) <= HeaderLen THEN Short(r) ELSE Done([r EXCEPT !.pps = unit])
\* processSEI: a message must be there as a whole, with the next code.
ProcessSEI(r, p) ==
    IF r.sps # <<>> /\ FindNALWithStartCode(r.data, p) + 3 > Len(r.data) THEN Short(r) ELSE Done(r)
\* One unit before the slices.
ProcessUnit(r, p) ==
    CASE Is(r.data, p, {"sps"}) -> LET s == ProcessSPS(r, p) IN [s EXCEPT !.spsCounter = IF s.res = "ok" THEN @ + 1 ELSE @]
      [] Is(r.data, p, {"pps"}) -> LET s == ProcessPPS(r, p) IN [s EXCEPT !.spsPpsFound = @ \/ s.res = "ok"]
      [] Is(r.data, p, {"sei", "timing"}) -> ProcessSEI(r, p)
      [] Is(r.data, p, {"aud"}) -> Done([r EXCEPT !.delimiter = TRUE])
      [] OTHER -> Done(r)

\* deserializeSliceHeader.
SliceHeader(r, p) ==
    CASE Len(r.data) - p < HeaderLen -> "short"
      [] Len(r.data) - p >= HeaderLen /\ (r.sps = <<>> \/ r.pps = <<>>) -> "notReady"
      [] OTHER -> "ok"
\* findPPSForward: the first picture of a stream may stand before its parameters.
RECURSIVE FindPPSForward(_, _)
FindPPSForward(r, p) ==
    LET q == FindNextNAL(r.data, p) IN
    CASE q > Len(r.data) -> r
      [] Is(r.data, q, {"sps"}) -> FindPPSForward(ProcessSPS(r, q), q)
      [] Is(r.data, q, {"pps"}) -> FindPPSForward(ProcessPPS(r, q), q)
      [] OTHER -> FindPPSForward(r, q)

\* calcPicOrder.
CalcPicOrder(r, unit) ==
    LET msb == IF unit.idr THEN 0 ELSE r.msb
        lsb == IF unit.idr THEN 0 ELSE r.lsb
        half == options.maxLsb \div 2 IN
    [r EXCEPT !.lsb = unit.lsb,
              !.msb = CASE unit.lsb < lsb /\ lsb - unit.lsb >= half -> msb + options.maxLsb
                        [] unit.lsb > lsb /\ unit.lsb - lsb > half -> msb - options.maxLsb
                        [] OTHER -> msb]
PicOrder(r) == IF r.lsbDiv = 1 THEN (r.msb + r.lsb) \div 2 ELSE r.msb + r.lsb

\* getIdrPrevFrames: the pictures behind an IDR picture that are shown before it.
RECURSIVE PrevFrames(_, _, _)
PrevFrames(r, p, n) ==
    LET q == FindNextNAL(r.data, p)
        slice == Is(r.data, q, {"slice"})
        unit == UnitAt(r.data, q) IN
    CASE q > Len(r.data) -> IF r.eof THEN n ELSE -1
      [] q <= Len(r.data) /\ slice /\ SliceHeader(r, q) = "short" -> IF r.eof THEN 0 ELSE -1
      [] q <= Len(r.data) /\ slice /\ SliceHeader(r, q) # "short" /\ unit.first /\ unit.idr -> 0
      [] q <= Len(r.data) /\ slice /\ SliceHeader(r, q) # "short" /\ unit.first /\ ~unit.idr ->
            IF unit.lsb <= options.maxLsb \div 2 THEN n
            ELSE PrevFrames(r, q, IF unit.bottom THEN n ELSE n + 1)
      [] OTHER -> PrevFrames(r, q, n)

\* detectPrimaryPicType: the types of the slices of a picture, up to the next picture.
PictType(unit) == CASE unit.type = "I" -> 0 [] unit.type = "P" -> 1 [] unit.type = "B" -> 2
RECURSIVE DetectFrom(_, _)
DetectFrom(r, p) ==
    LET q == FindNextNAL(r.data, p)
        slice == Is(r.data, q, {"slice"})
        unit == UnitAt(r.data, q) IN
    CASE q > Len(r.data) \/ (slice /\ Len(r.data) - q < TypeLen) -> IF r.eof THEN Done(r) ELSE Short(r)
      [] q <= Len(r.data) /\ slice /\ Len(r.data) - q >= TypeLen ->
            IF unit.first THEN Done([r EXCEPT !.nextFound = TRUE, !.nextIdr = unit.idr])
            ELSE DetectFrom([r EXCEPT !.pictType = IF PictType(unit) > @ THEN PictType(unit) ELSE @], q)
      [] OTHER -> DetectFrom(r, q)
DetectPrimaryPicType(r, p) ==
    DetectFrom([r EXCEPT !.nextFound = FALSE, !.nextIdr = FALSE, !.pictType = PictType(UnitAt(r.data, p))], p)

-----------------------------------------------------------------------------
(* A picture: its number, its place in the order of display, its times.    *)

\* checkPyramid: the delay between decoding and display grows with what is found; the
\* last picture does not make it grow.
Late(r, full) == IF r.frameNum - full > MaxDepth THEN MaxDepth ELSE r.frameNum - full
CheckPyramid(r, full, next) ==
    [r EXCEPT !.depth = IF next /\ Late(r, full) > @ THEN Late(r, full) ELSE @]
NotLater(r, full) == IF Late(r, full) > r.depth THEN r.frameNum - r.depth ELSE full

\* Without an IDR picture the order is known from the first B picture on.
FullPicOrder(r, order) ==
    CASE r.idrs > 0 -> order
      [] r.idrs = 0 /\ r.bFound -> IF order + r.orderOffset < 0 THEN 0 ELSE order + r.orderOffset
      [] OTHER -> r.frameNum
Open(r, unit, order) ==
    IF r.idrs = 0 /\ ~r.bFound /\ unit.type = "B"
    THEN [r EXCEPT !.bFound = TRUE, !.orderOffset = r.frameNum - order - 1] ELSE r
Times(r, unit, full) ==
    LET dts == r.dts + r.lastInc
        pts == dts + (full - r.frameNum) * Inc IN
    Done([r EXCEPT !.dts = dts, !.lastInc = Inc,
                   !.pts = IF pts > dts /\ (~r.nextFound \/ r.nextIdr) THEN dts ELSE pts,
                   !.lastIdr = unit.idr, !.iFrame = unit.type = "I", !.lastSlice = TRUE])
Shown(r, unit, full) == Times(CheckPyramid(r, full, r.nextFound), unit, IF r.nextFound THEN full ELSE NotLater(r, full))
Counted(r, unit) ==
    LET order == (IF options.poc = 2 THEN r.frameNum ELSE PicOrder(r)) + r.ptsOffset
        n == [r EXCEPT !.first = FALSE, !.total = @ + 1, !.idrs = IF unit.idr THEN @ + 1 ELSE @,
                       !.orderOffset = IF unit.idr THEN 0 ELSE @]
        o == Open(n, unit, order) IN
    Shown(o, unit, FullPicOrder(o, order))
Numbered(r, p, unit) ==
    IF unit.idr
    THEN [r EXCEPT !.frameNum = 0, !.ptsOffset = IF options.poc = 2 THEN 0 ELSE PrevFrames(r, p + 4, 0)]
    ELSE [r EXCEPT !.frameNum = @ + 1]
CountedIf(r, unit) == IF unit.idr /\ r.ptsOffset = -1 THEN Short(r) ELSE Counted(r, unit)
\* A stream of frames whose orders are odd does not count in fields.
LsbDiv(r, unit) ==
    IF options.frames /\ unit.lsb % 2 = 1 /\ r.total < ManyFrames THEN [r EXCEPT !.lsbDiv = 0] ELSE r
Ordered(r, unit) == IF options.poc = 2 THEN [r EXCEPT !.depth = 0] ELSE CalcPicOrder(r, unit)
Picture(r, p, unit) == IF r.res = "short" THEN r ELSE CountedIf(Numbered(Ordered(LsbDiv(r, unit), unit), p, unit), unit)
\* processSliceNal: further slices, and the second field, belong to the same picture.
Sliced(r, p) ==
    LET unit == UnitAt(r.data, p) IN
    CASE SliceHeader(r, p) # "ok" -> [r EXCEPT !.res = SliceHeader(r, p)]
      [] SliceHeader(r, p) = "ok" /\ unit.first /\ unit.bottom = r.bottomFirst ->
            Picture(DetectPrimaryPicType(r, p), p, unit)
      [] OTHER -> Done(r)
ProcessSlice(r, p) ==
    Sliced(IF SliceHeader(r, p) = "notReady" /\ r.first THEN FindPPSForward(r, p + 1) ELSE r, p)

\* intDecodeNAL: from the first unit of a picture up to its first slice.
At(s, q) == IF s.res = "ok" THEN [s EXCEPT !.decoded = q] ELSE s
RECURSIVE ToSlice(_, _)
ToSlice(r, p) ==
    LET q == FindNextNAL(r.data, p) IN
    CASE r.res # "ok" -> r
      [] r.res = "ok" /\ q > Len(r.data) -> Short(r)
      [] r.res = "ok" /\ Is(r.data, q, {"slice"}) -> At(ProcessSlice(r, q), q)
      [] OTHER -> ToSlice(ProcessUnit(r, q), q)
IntDecodeNAL(reader, p) ==
    LET r == [reader EXCEPT !.spsPpsFound = FALSE] IN
    CASE Is(r.data, p, {"slice"}) -> ProcessSlice(r, p)
      [] Is(r.data, p, {"sps", "pps", "sei", "timing", "aud"}) -> ToSlice(ProcessUnit(r, p), p)
      [] OTHER -> Done(r)

-----------------------------------------------------------------------------
(* additionalStreamCheck, on the first block: whether the timing must be   *)
(* written, how orders count, which field is first, and the delay.         *)

Places(data) ==
    LET codes == Codes(data, 1) IN SelectSeq([p \in DOMAIN data |-> p], LAMBDA p : p - 3 \in codes)
\* With timing units that are there already, and parameters that differ, nothing is
\* inserted unless it is forced.
NeedSei(data) ==
    LET places == Places(data)
        sps == {p \in ToSet(places) : Is(data, p, {"sps"})}
        pps == {Unit(data, p) : p \in {q \in ToSet(places) : Is(data, q, {"pps"})}}
        found == \E p \in ToSet(places) :
                    /\ Is(data, p, {"timing"}) /\ FindNextNAL(data, p) <= Len(data)
                    /\ \E q \in sps : q < p IN
    CASE options.sei = "force" -> TRUE
      [] options.sei = "auto" -> (sps = {} \/ ~options.hrd \/ ~found) /\ Cardinality(pps) <= 1
      [] options.sei = "no" -> FALSE
Parameters(r) ==
    FoldLeft(LAMBDA s, p : CASE Is(s.data, p, {"sps"}) -> ProcessSPS(s, p)
                             [] Is(s.data, p, {"pps"}) -> ProcessPPS(s, p)
                             [] Is(s.data, p, {"slice"}) /\ SliceHeader(s, p) = "ok" ->
                                    IF ~options.frames THEN [s EXCEPT !.lsbDiv = 1]
                                    ELSE IF UnitAt(s.data, p).lsb % 2 = 1 THEN [s EXCEPT !.lsbDiv = 0] ELSE s
                             [] OTHER -> s,
             [r EXCEPT !.lsbDiv = 1], Places(r.data))
Delay(r) ==
    FoldLeft(LAMBDA s, p :
        LET unit == UnitAt(s.data, p)
            n == [CalcPicOrder(s, unit) EXCEPT
                    !.frameNum = IF unit.idr THEN 0 ELSE @ + 1,
                    !.bottomFirst = IF unit.type = "I" THEN unit.bottom ELSE @] IN
        IF Is(s.data, p, {"slice"}) /\ SliceHeader(s, p) = "ok" /\ unit.first THEN CheckPyramid(n, PicOrder(n), TRUE) ELSE s,
        [r EXCEPT !.frameNum = -1], Places(r.data))
AdditionalStreamCheck(r) ==
    LET known == Parameters([r EXCEPT !.needSei = NeedSei(r.data)])
        delayed == IF options.poc = 2 THEN known ELSE Delay(known) IN
    [delayed EXCEPT !.checked = TRUE, !.frameNum = r.frameNum, !.msb = 0, !.lsb = 0, !.res = r.res]

-----------------------------------------------------------------------------
(* The reader: packets out of a buffer.                                    *)

Drop(r, n) ==
    [r EXCEPT !.data = SubSeq(@, n + 1, Len(@)), !.decoded = IF @ > n THEN @ - n ELSE 0]
\* storeBufferRest; what was decoded in it stays so.
StoreBufferRest(r) ==
    [r EXCEPT !.tmp = r.data, !.data = <<>>, !.decoded = IF @ > 1 THEN @ ELSE 0, !.res = "more"]

\* skipNal: filling, the end of a sequence, and what the reader writes by itself.
SkipNal(r, p) ==
    \/ Is(r.data, p, {"filler"})
    \/ Is(r.data, p, {"eos"}) /\ (~r.eof \/ Len(r.data) - p > 3)
    \/ r.needSei /\ Is(r.data, p, {"sps", "pps", "timing"})
Checked(r, p) ==
    CASE r.res # "ok" -> r
      [] r.res = "ok" /\ SkipNal(r, p) -> [r EXCEPT !.res = "skipped", !.own = @ /\ ~Is(r.data, p, {"eos"})]
      [] OTHER -> r
\* decodeNal: a unit that was looked at with one before it is not looked at again.
Upto(d, p) == [d EXCEPT !.decoded = IF d.res = "ok" /\ @ < p THEN p ELSE @]
DecodeNal(r, p) == Checked(IF p <= r.decoded THEN Done(r) ELSE Upto(IntDecodeNAL(r, p), p), p)
RECURSIVE DecodeUnits(_)
AfterSkipped(d, next) ==
    CASE d.res # "skipped" -> d
      [] d.res = "skipped" /\ next > Len(d.data) -> Short([Drop(d, Len(d.data)) EXCEPT !.sync = FALSE])
      [] OTHER -> DecodeUnits(Drop(d, next - 1))
DecodeUnits(r) ==
    AfterSkipped(DecodeNal(r, CodeLen(r.data) + 1), FindNALWithStartCode(r.data, CodeLen(r.data) + 1))

\* A packet ends where the next unit begins, or is full; it does not end in a code.
InCode(data, e) ==
    CASE e <= Len(data) /\ data[e] = 1 /\ data[e - 1] = 0 /\ data[e - 2] = 0 -> IF data[e - 3] = 0 THEN e - 3 ELSE e - 2
      [] e <= Len(data) /\ data[e] = 0 /\ data[e - 1] = 0 -> IF data[e - 2] = 0 THEN e - 2 ELSE e - 1
      [] OTHER -> e
PacketEnd(data) ==
    LET full == IF Len(data) < MaxPacket THEN Len(data) ELSE MaxPacket
        next == FindNALWithStartCode(SubSeq(data, 1, full), CodeLen(data) + 1) IN
    IF next > full THEN InCode(data, next) ELSE next
Packet(r, n) ==
    [Drop(r, n) EXCEPT !.res = "packet",
        !.packet = [bytes |-> SubSeq(r.data, 1, n), pts |-> r.pts, dts |-> r.dts - Inc * r.depth,
                    depth |-> r.depth, iFrame |-> r.iFrame, spsPps |-> r.spsPpsFound]]
Decoded(r, d) ==
    CASE d.res = "short" -> [StoreBufferRest(d) EXCEPT !.decoded = 0]
      [] d.res # "short" /\ d.dts # r.dts -> Packet(d, 0)
      [] OTHER -> Packet(d, PacketEnd(d.data) - 1)
Synced(r) ==
    CASE FindNALWithStartCode(r.data, 4) > Len(r.data) -> StoreBufferRest(r)
      [] FindNALWithStartCode(r.data, 4) <= Len(r.data) /\ CodeLen(r.data) > 0 ->
            Decoded(r, DecodeUnits([r EXCEPT !.short = CodeLen(r.data) < 4]))
      [] OTHER -> Packet(r, PacketEnd(r.data) - 1)
\* readPacket; what is before the first code is lost.
Read(r) ==
    LET begin == FindNALWithStartCode(r.data, 1) IN
    IF r.sync \/ begin <= Len(r.data)
    THEN Synced(IF r.sync THEN r ELSE [Drop(r, begin - 1) EXCEPT !.sync = TRUE])
    ELSE [Drop(r, Len(r.data)) EXCEPT !.res = "more"]

\* flushPacket: all that is left, if it can be decoded; it is decoded once more.
LastPacket(d) ==
    [Packet(d, IF d.res = "ok" THEN Len(d.data) ELSE 0) EXCEPT
        !.res = "more", !.packet.iFrame = FALSE, !.packet.spsPps = FALSE]
Flush(r) ==
    LET rest == [r EXCEPT !.eof = TRUE, !.data = r.tmp, !.decoded = 0]
        n == CodeLen(r.tmp) IN
    LastPacket(IF n > 0 THEN DecodeNal([rest EXCEPT !.short = n < 4], n + 1) ELSE Done(rest))

-----------------------------------------------------------------------------
(* writeAdditionData: what goes before the first packet of a picture.      *)

Prefix(r) == IF r.short THEN <<0, 0, 1>> ELSE <<0, 0, 0, 1>>
Aud(type) == 8 - type           \* a delimiter, with the types of slices of its picture
\* m_firstFileFrame: the muxer has begun a file with this picture.
Additions(r, packet, splits) ==
    LET moved == Len(packet.bytes) > 4 /\ Is(packet.bytes, 5, {"aud"})
        delimiter == r.delimiter \/ moved
        again == /\ options.cont
                 /\ \/ r.spsCounter < 2 /\ r.total > 1 /\ r.lastIdr
                    \/ r.spsCounter < 2 /\ r.total > ManyFrames /\ r.iFrame
                    \/ splits /\ ~packet.spsPps
        sets == r.iFrame /\ r.lastSlice /\ (again \/ (r.needSei /\ packet.spsPps))
        sei == r.needSei /\ r.lastSlice IN
    [aud |-> IF ~delimiter /\ r.lastSlice THEN Prefix(r) \o <<Aud(r.pictType)>> ELSE <<>>,
     moved |-> moved,
     sets |-> IF sets THEN Prefix(r) \o EncodeNAL(r.sps) \o Prefix(r) \o EncodeNAL(r.pps) ELSE <<>>,
     sei |-> sei,
     buffering |-> sei /\ r.iFrame /\ r.lastIdr,
     removal |-> r.removal,
     output |-> ((r.pts - r.dts + Inc * r.depth) * 2) \div Inc]
AfterAdditions(r, packet) ==
    [r EXCEPT !.delimiter = @ \/ (Len(packet.bytes) > 4 /\ Is(packet.bytes, 5, {"aud"})),
              !.removal = CASE ~(r.needSei /\ r.lastSlice) -> @
                            [] r.needSei /\ r.lastSlice /\ r.lastIdr -> 2
                            [] OTHER -> @ + 2]

-----------------------------------------------------------------------------

Init ==
    /\ options \in Films
    /\ mux = [data |-> <<>>, tmp |-> <<>>, eof |-> FALSE, sync |-> FALSE, short |-> TRUE, decoded |-> 0, checked |-> FALSE,
              sps |-> <<>>, pps |-> <<>>, own |-> FALSE, spsCounter |-> 0, spsPpsFound |-> FALSE, delimiter |-> FALSE,
              needSei |-> FALSE, first |-> TRUE, lsbDiv |-> 0, bottomFirst |-> FALSE, msb |-> 0, lsb |-> 0,
              frameNum |-> 0, ptsOffset |-> 0, total |-> 0, idrs |-> 0, bFound |-> FALSE, orderOffset |-> 0, depth |-> 1,
              nextFound |-> FALSE, nextIdr |-> FALSE, pictType |-> 0, dts |-> 0, pts |-> 0, lastInc |-> 0,
              lastIdr |-> FALSE, iFrame |-> FALSE, lastSlice |-> FALSE, removal |-> 0, res |-> "more",
              packet |-> [bytes |-> <<>>, pts |-> 0, dts |-> 0, depth |-> 1, iFrame |-> FALSE, spsPps |-> FALSE]]
    /\ fed = [at |-> Beginning, eof |-> FALSE, out |-> <<>>, ended |-> FALSE]

\* StreamInfo::read and setBuffer; the muxer looks at the first block before it reads.
SetBuffer ==
    LET block == BlockAt(options.files, fed.at, options.block)
        set == [mux EXCEPT !.data = mux.tmp \o block.cells, !.tmp = <<>>, !.eof = @ \/ block.eof, !.res = "packet"] IN
    /\ ~fed.ended /\ ~fed.eof /\ mux.res = "more"
    /\ mux' = IF mux.checked THEN set ELSE AdditionalStreamCheck(set)
    /\ fed' = [fed EXCEPT !.at = block.next, !.eof = block.eof]
    /\ UNCHANGED options

\* TSMuxer::muxPacket and buildPesHeader: a packet with another time begins a PES packet,
\* and with an I picture a file may begin.
NewPES(out, packet) == out = <<>> \/ Last(out).pts # packet.pts \/ Last(out).dts # packet.dts
Muxed(out, r, packet) ==
    CASE packet.bytes = <<>> -> out
      [] packet.bytes # <<>> /\ NewPES(out, packet) ->
            Append(out, packet @@ [begins |-> TRUE,
                                   add |-> Additions(r, packet, options.split /\ packet.iFrame /\ out # <<>>)])
      [] OTHER -> Append(out, packet @@ [begins |-> FALSE])
Mux(r, last) ==
    /\ mux' = IF r.packet.bytes # <<>> /\ NewPES(fed.out, r.packet) THEN AfterAdditions(r, r.packet) ELSE r
    /\ fed' = [fed EXCEPT !.out = Muxed(@, r, r.packet), !.ended = last]
    /\ UNCHANGED options

NoPacket == [mux EXCEPT !.packet.bytes = <<>>]
ReadPacket ==
    /\ mux.res # "more"
    /\ Mux(Read(NoPacket), FALSE)

FlushPacket ==
    /\ ~fed.ended /\ fed.eof /\ mux.res = "more"
    /\ Mux(Flush(NoPacket), TRUE)

Next == SetBuffer \/ ReadPacket \/ FlushPacket \/ (fed.ended /\ UNCHANGED vars)
Spec == Init /\ [][Next]_vars

-----------------------------------------------------------------------------
(* Properties.                                                             *)

TypeOK ==
    /\ options \in Films
    /\ mux.res \in {"more", "packet"} /\ mux.depth \in 0..MaxDepth /\ mux.lsbDiv \in {0, 1} /\ mux.pictType \in 0..2
    /\ \A flag \in {"eof", "sync", "short", "checked", "own", "spsPpsFound", "delimiter", "needSei", "first", "bottomFirst",
                    "bFound", "nextFound", "nextIdr", "lastIdr", "iFrame", "lastSlice"} : mux[flag] \in BOOLEAN

\* The units of the film, and of these the ones that go on.
All == FlattenSeq(options.files)
Units == DOMAIN options.units
BytesOf(i) == SubSeq(All, options.starts[i], IF i + 1 \in Units THEN options.starts[i + 1] - 1 ELSE Len(All))
KindOf(i) == options.units[i].t
Kept ==
    SelectSeq([i \in Units |-> i],
              LAMBDA i : KindOf(i) \notin (IF mux.needSei THEN {"filler", "eos", "sps", "pps", "timing"} ELSE {"filler", "eos"}))
\* The pictures by their first slices; what stands before a slice belongs to its picture.
Pictures ==
    SelectSeq([i \in Units |-> i],
              LAMBDA i : KindOf(i) = "slice" /\ options.units[i].first /\ options.units[i].bottom = mux.bottomFirst)
PictureOf(i) ==
    LET before == Cardinality({k \in DOMAIN Pictures : Pictures[k] < i}) IN
    IF KindOf(i) = "slice" /\ i \notin ToSet(Pictures) THEN before ELSE before + 1
PictureUnit(k) == options.units[Pictures[k]]
\* The place of a picture among those from the last IDR picture to the next, as shown.
Group(k) ==
    LET from == CHOOSE m \in {0} \cup 1..k : (m = 0 \/ PictureUnit(m).idr) /\ \A n \in (m + 1)..k : ~PictureUnit(n).idr
        to == {m \in (k + 1)..Len(Pictures) : PictureUnit(m).idr} IN
    {m \in DOMAIN Pictures : m >= from /\ \A n \in to : m < n}
PlaceOf(k) == Min(Group(k)) - 1 + Cardinality({m \in Group(k) : PictureUnit(m).order < PictureUnit(k).order})

OutBytes(out) == FlattenSeq([i \in DOMAIN out |-> out[i].bytes])
Sent == FlattenSeq([i \in DOMAIN Kept |-> BytesOf(Kept[i])])
\* The unit that a packet begins in.
UnitOf(n) ==
    LET at == Len(OutBytes(SubSeq(fed.out, 1, n - 1)))
        upTo == [i \in 0..Len(Kept) |-> Len(FlattenSeq([k \in 1..i |-> BytesOf(Kept[k])]))] IN
    Kept[CHOOSE i \in DOMAIN Kept : upTo[i - 1] <= at /\ at < upTo[i]]
\* The last slice, where it is the only one of its picture and other units stand before
\* it, is decoded twice and counts as a picture of its own.
Twice(i) == i = Len(options.units) /\ i \in ToSet(Pictures) /\ i > 1 /\ KindOf(i - 1) # "slice"

\* In a stream without an IDR picture orders count from the first B picture on.
Known(k) == \E m \in 1..k : PictureUnit(m).idr \/ PictureUnit(m).type = "B"
\* The first block tells whether orders count fields: the first odd one stands in it.
Told ==
    LET odd == {i \in Units : KindOf(i) = "slice" /\ options.units[i].lsb % 2 = 1} IN
    options.frames /\ odd # {} => options.starts[Min(odd)] + 3 + HeaderLen <= options.block

\* However the blocks cut the stream, its units go on once, whole and in their order
\* (MPEGStreamReader::readPacket, storeBufferRest, flushPacket).
UnitsKept == IsPrefix(OutBytes(fed.out), Sent) /\ (fed.ended => OutBytes(fed.out) = Sent)
\* Every packet of a picture has its times: the pictures are decoded one after the
\* other, each is shown at its place in the order of display, and none is shown before it
\* is decoded
\* (H264StreamReader::processSliceNal, calcPicOrder, getIdrPrevFrames).
Timed ==
    Told /\ fed.out # <<>> =>
        LET n == Len(fed.out)
            unit == UnitOf(n)
            k == PictureOf(unit)
            packet == fed.out[n] IN
        ~Twice(unit) /\ Known(k) =>
            /\ packet.dts + packet.depth * Inc = (k - 1) * Inc
            /\ packet.pts = PlaceOf(k) * Inc
            /\ packet.dts <= packet.pts

\* What a picture lacks is written before its first packet, and only there: a delimiter
\* that names the types of all its slices (of its first field); where timing is inserted, its decoding time in
\* fields after the last buffering period; and where its parameters were taken out, or a
\* file begins, the parameters, which are those of the film
\* (H264StreamReader::writeAdditionData, writeSEIMessage, detectPrimaryPicType).
UnitsOf(k, kinds) == {i \in Units : KindOf(i) \in kinds /\ PictureOf(i) = k}
TypesOf(k) ==
    {PictType(options.units[i]) : i \in {s \in UnitsOf(k, {"slice"}) : options.units[s].bottom = mux.bottomFirst}}
Sets(added) ==
    \E code \in {<<0, 0, 1>>, <<0, 0, 0, 1>>} :
        LET Coded(kind) == {code \o Tail(SubSeq(BytesOf(i), CodeLen(BytesOf(i)), Len(BytesOf(i)))) : i \in {u \in Units : KindOf(u) = kind}} IN
        /\ \E unit \in Coded("sps") : IsPrefix(unit, added)
        /\ \E unit \in Coded("pps") : IsSuffix(unit, added)
Completed ==
    Told /\ fed.out # <<>> =>
        LET n == Len(fed.out)
            unit == UnitOf(n)
            k == PictureOf(unit)
            picture == PictureUnit(k)
            packet == fed.out[n]
            last == {0} \cup {m \in 1..(k - 1) : PictureUnit(m).idr} IN
        ~Twice(unit) =>
            /\ packet.begins <=> n = 1 \/ PictureOf(UnitOf(n - 1)) # k
            /\ packet.begins =>
                /\ packet.add.aud = <<>> <=> UnitsOf(k, {"aud"}) # {}
                /\ packet.add.aud # <<>> => Last(packet.add.aud) = Aud(Max(TypesOf(k)))
                /\ packet.add.moved <=> UnitsOf(k, {"aud"}) # {}
                /\ packet.add.sei <=> mux.needSei
                /\ packet.add.sei => packet.add.removal = 2 * (k - Max(last \cup {1}))
                /\ packet.add.buffering <=> mux.needSei /\ picture.idr
                /\ packet.add.sets # <<>> => picture.type = "I" /\ Sets(packet.add.sets)
                /\ (mux.needSei \/ options.cont) /\ picture.type = "I" /\ (options.split \/ UnitsOf(k, {"pps"}) # {}) =>
                        packet.add.sets # <<>> \/ (~mux.needSei /\ UnitsOf(k, {"pps"}) # {})
=============================================================================
