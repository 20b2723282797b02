------------------------------ MODULE AudioFrames ------------------------------
(***************************************************************************)
(* The readers that cut a stream of audio into frames                      *)
(* (SimplePacketizerReader) and the codecs whose frames come in pairs:     *)
(* AC-3 with its extensions, AC-3 and TrueHD in turns, TrueHD that AC-3 of *)
(* another stream is merged into, and DTS with its HD part.                *)
(*                                                                         *)
(* A stream is a sequence of cells.  A frame is a cell [k, n, len] and     *)
(* len - 1 cells [k |-> "body"], where k is                                *)
(*   "ac3", "ext" (dependent E-AC-3), "false" (a sync word in other data)  *)
(*   "major", "minor" (TrueHD: with and without a sync word)               *)
(*   "dts", "hd"                                                           *)
(* Times are in samples; a frame of AC-3 or DTS has Samples, a frame of    *)
(* TrueHD ThdSamples.                                                      *)
(***************************************************************************)
EXTENDS Blocks, Integers, Sequences, FiniteSets, SequencesExt

CONSTANTS
    Films,          \* [kind, files, size of blocks, side, down (to the core), skipped samples]
    Samples, ThdSamples,
    HeaderLen,      \* what must be there to look at a frame
    ThdHeader,      \* and to decode one of TrueHD
    Reserve         \* the space in front of a block (MAX_AV_PACKET_SIZE)

ReaderAssumption ==
    /\ HeaderLen \in Nat /\ ThdHeader \in Nat /\ Reserve \in Nat
    /\ Samples \in Nat /\ ThdSamples \in Nat /\ ThdSamples < Samples
    /\ \A f \in Films : f.kind \in {"ac3", "core", "mlp", "merge", "dts"} /\ f.skip \in Nat

VARIABLES options, mux, fed
vars == <<options, mux, fed>>

Is(data, p, kinds) == p <= Len(data) /\ data[p].k \in kinds
Read(r, len, skip) == [r EXCEPT !.len = len, !.skip = skip, !.res = "frame"]
More(r) == [r EXCEPT !.res = "more"]
Bad(r) == [r EXCEPT !.res = "bad"]
NoPacket == [cells |-> <<>>, time |-> 0, core |-> FALSE]
\* readPacket gives 0 and no data.
Empty(r) == [r EXCEPT !.res = "empty", !.packet = NoPacket]

-----------------------------------------------------------------------------
(* Codecs: where a frame is found, and how long it is.                     *)

SyncKinds == {"ac3", "ext", "false"}
\* AC3Codec::decodeFrame: a frame of AC-3; in a stream with TrueHD, what follows it
\* tells whether the other frames come next.
\* (of what stands behind the buffer nothing is known; no frame of AC-3, here)
DecodeThd(r, data, more) ==
    LET len == data[1].len
        next == Is(data, len + 1, {"ac3"})
        thd == [r EXCEPT !.state = "thd", !.waitMore = @ /\ ~next] IN
    CASE more -> More(r)
      [] ~more /\ Len(data) < len -> More([r EXCEPT !.state = "thd"])
      [] OTHER -> IF r.down THEN Read(thd, 0, len) ELSE Read(thd, len, 0)
DecodeAc3(r, data) ==
    LET len == data[1].len
        dep == data[1].k = "ext"
        known == [r EXCEPT !.ext = @ \/ dep, !.dep = dep] IN
    CASE len > Len(data) -> More(r)
      [] len <= Len(data) /\ r.kind = "core" /\ Len(data) - len < HeaderLen -> More(known)
      [] len <= Len(data) /\ r.kind = "core" /\ Len(data) - len >= HeaderLen ->
            Read(IF Is(data, len + 1, SyncKinds) THEN known ELSE [known EXCEPT !.state = "first", !.waitMore = TRUE], len, 0)
      [] len <= Len(data) /\ r.kind = "ac3" /\ dep /\ r.down -> Read(known, 0, len)
      [] OTHER -> Read(known, len, 0)
AC3DecodeFrame(r, data) ==
    LET s == IF Is(data, 1, {"ac3"}) THEN [r EXCEPT !.state = "ac3"] ELSE r IN
    CASE s.state = "ac3" /\ ~Is(data, 1, {"ac3", "ext"}) -> Bad(s)
      [] s.state = "ac3" /\ Is(data, 1, {"ac3", "ext"}) -> DecodeAc3(s, data)
      [] OTHER -> DecodeThd(s, data, Len(data) < HeaderLen)

\* MLPCodec::decodeFrame: the frames without a sync word count from the first with one.
MLPDecodeFrame(r, data) ==
    CASE Len(data) < ThdHeader -> Bad(r)
      [] Len(data) >= ThdHeader /\ Is(data, 1, {"major"}) -> Read([r EXCEPT !.major = TRUE], data[1].len, 0)
      [] Len(data) >= ThdHeader /\ Is(data, 1, {"minor"}) /\ r.major -> Read(r, data[1].len, 0)
      [] OTHER -> Bad(r)

\* DTSStreamReader::decodeFrame: the core, and then the HD part behind it.
DecodeHd(r, data, size) ==
    LET hd == IF Is(data, size + 1, {"hd"}) THEN data[size + 1].len ELSE 0
        mode == [r EXCEPT !.hdMode = TRUE] IN
    CASE hd = 0 -> Read(r, size, 0)
      [] hd > 0 /\ size + hd >= Len(data) -> More(mode)
      [] hd > 0 /\ size + hd < Len(data) /\ r.down -> Read(mode, size, hd)
      [] OTHER -> Read([mode EXCEPT !.state = "hd", !.hdLen = hd], IF r.core THEN size ELSE hd, 0)
DTSDecodeFrame(r, data) ==
    LET core == [r EXCEPT !.state = "dts"] IN
    CASE ~r.core -> DecodeHd(r, data, 0)
      [] r.core /\ r.state = "hd" /\ Is(data, 1, {"hd"}) -> Read([r EXCEPT !.state = "hd2"], r.hdLen, 0)
      [] r.core /\ ~(r.state = "hd" /\ Is(data, 1, {"hd"})) /\ ~Is(data, 1, {"dts"}) -> Bad(core)
      [] OTHER -> IF data[1].len > Len(data) - 1 THEN More(core) ELSE DecodeHd(core, data, data[1].len)

DecodeFrame(r, data) ==
    CASE r.kind \in {"ac3", "core"} -> AC3DecodeFrame(r, data)
      [] r.kind \in {"mlp", "merge"} -> MLPDecodeFrame(r, data)
      [] r.kind = "dts" -> DTSDecodeFrame(r, data)

\* findFrame, and with the first call of DTS whether there is a core at all; 0 for none.
Sought(r) ==
    CASE r.kind \in {"ac3", "core"} -> SyncKinds
      [] r.kind \in {"mlp", "merge"} -> {"major"}
      [] r.kind = "dts" -> IF r.core THEN {"dts"} ELSE {"hd"}
FindFrame(r) == SelectInSeq(r.data, LAMBDA c : c.k \in Sought(r))
OnlyHd(data) ==
    /\ Is(data, 1, {"hd"})
    /\ Is(data, 1 + data[1].len, {"hd"}) \/ 1 + data[1].len > Len(data)
FirstCall(r) ==
    IF r.kind = "dts" /\ r.firstCall THEN [r EXCEPT !.firstCall = FALSE, !.core = ~OnlyHd(r.data)] ELSE r

\* getFrameDuration: the last frame of those that belong together has it.
GetFrameDuration(r) ==
    CASE r.kind = "ac3" -> IF r.ext /\ ~r.dep THEN 0 ELSE Samples
      [] r.kind = "core" -> IF r.waitMore THEN 0 ELSE Samples
      [] r.kind \in {"mlp", "merge"} -> ThdSamples
      [] r.kind = "dts" -> IF r.core /\ r.hdMode /\ ~r.down /\ r.state # "hd2" THEN 0 ELSE Samples

-----------------------------------------------------------------------------
(* The reader: frames out of a buffer.                                     *)

\* Mutant: what is there is not put aside.
Wait_Drops(r) == [r EXCEPT !.tmp = <<>>, !.data = <<>>, !.res = "more"]
\* What is there waits for the next block.
Wait(r) == [r EXCEPT !.tmp = r.data, !.data = <<>>, !.res = "more"]

\* needSkipFrame: the samples at the beginning that the stream says to leave out.
NeedSkipFrame(r) == r.kind = "dts" /\ r.skipping # 0
Skipped(r) == [r EXCEPT !.skipping = IF GetFrameDuration(r) > 0 THEN @ - Samples ELSE @]

RECURSIVE Simple(_)
Packet(r, d) ==
    LET data == SubSeq(r.data, d.len + d.skip + 1, Len(r.data))
        packet == [d EXCEPT !.data = data, !.processed = @ + d.len + d.skip,
                            !.pts = @ + GetFrameDuration(d), !.res = "packet",
                            !.packet = [cells |-> SubSeq(r.data, 1, d.len), time |-> r.pts, core |-> FALSE]] IN
    IF NeedSkipFrame(packet) THEN Simple(Skipped(packet)) ELSE packet
Decoded(r, d) ==
    CASE d.res = "more" -> Wait(d)
      [] d.res = "bad" -> Empty([d EXCEPT !.needSync = TRUE])
      [] d.res = "frame" -> IF d.len + d.skip > Len(r.data) THEN Wait(d) ELSE Packet(r, d)
Frame(r) == IF Len(r.data) < HeaderLen THEN Wait(r) ELSE Decoded(r, DecodeFrame(r, r.data))
Synced(r, d, p) ==
    CASE d.res = "more" -> Wait(d)
      [] d.res = "bad" -> Empty([d EXCEPT !.data = Tail(r.data), !.processed = @ + 1])
      [] d.res = "frame" -> Frame([d EXCEPT !.data = SubSeq(r.data, p, Len(r.data)), !.needSync = FALSE,
                                            !.processed = @ + p - 1])
Sync(r, p) ==
    IF p = 0 THEN [r EXCEPT !.processed = @ + Len(r.data), !.res = "more"]
    ELSE Synced(r, DecodeFrame(r, SubSeq(r.data, p, Len(r.data))), p)
Resync(r) == Sync(r, FindFrame(r))
Simple(r) ==
    CASE r.data = <<>> -> [r EXCEPT !.res = "more"]
      [] r.data # <<>> /\ r.needSync -> Resync(FirstCall(r))
      [] OTHER -> Frame(r)

-----------------------------------------------------------------------------
(* AC-3 and TrueHD in turns: a frame of AC-3 goes out once TrueHD of its   *)
(* duration has.                                                           *)

\* A frame of AC-3 with the next time of AC-3.
Core(r, cells) ==
    [r EXCEPT !.res = "packet", !.wait = FALSE, !.coreTime = @ + Samples,
              !.packet = [cells |-> cells, time |-> r.coreTime, core |-> TRUE]]
\* A frame of TrueHD, or what was taken for one and gave no data, with the time of its
\* samples.
Thd(r) ==
    LET samples == r.demuxed + ThdSamples IN
    [r EXCEPT !.packet.time = r.total, !.total = @ + ThdSamples,
              !.demuxed = IF samples >= Samples THEN samples - Samples ELSE samples,
              !.wait = @ \/ samples >= Samples]

\* AC3StreamReader::readPacketTHD.
RECURSIVE ReadPacketTHD(_)
AfterSimple(r) ==
    CASE r.res = "more" -> r
      [] r.res # "more" /\ r.state = "first" /\ r.wait -> Core(r, r.packet.cells)
      [] r.res # "more" /\ r.state = "first" /\ ~r.wait -> ReadPacketTHD([r EXCEPT !.delayed = r.packet.cells])
      [] OTHER -> Thd(r)
ReadPacketTHD(r) ==
    IF r.wait /\ r.delayed # <<>> THEN [Core(r, r.delayed) EXCEPT !.delayed = <<>>] ELSE AfterSimple(Simple(r))

\* TrueHDAC3MergeReader: what a block of the other stream gives, from the beginning of
\* its buffer, where the space in front of the block is.
RECURSIVE ExtractAc3Frames(_)
ExtractAc3Frames(r) ==
    LET p == SelectInSeq(r.accum, LAMBDA c : c.k \in SyncKinds)
        whole == SubSeq(r.accum, p, Len(r.accum)) IN
    CASE p = 0 -> r
      [] p > 0 /\ whole[1].k = "false" -> ExtractAc3Frames([r EXCEPT !.accum = Tail(whole)])
      [] p > 0 /\ whole[1].k # "false" /\ whole[1].len > Len(whole) -> [r EXCEPT !.accum = whole]
      [] OTHER -> ExtractAc3Frames([r EXCEPT !.queue = Append(@, SubSeq(whole, 1, whole[1].len)),
                                             !.accum = SubSeq(whole, whole[1].len + 1, Len(whole))])
SetAc3SideData(r, block) ==
    LET space == [i \in 1..Reserve |-> [k |-> "body"]] IN
    ExtractAc3Frames([r EXCEPT !.accum = @ \o SubSeq(space \o block, 1, Len(block))])
MLPReadPacket(r) == IF r.res = "more" THEN r ELSE Thd(r)
MergeReadPacket(r) ==
    CASE r.wait /\ r.delayed # <<>> -> [Core(r, r.delayed) EXCEPT !.delayed = <<>>]
      [] r.wait /\ r.delayed = <<>> /\ r.queue # <<>> -> [Core(r, r.queue[1]) EXCEPT !.queue = Tail(@)]
      [] r.delayed = <<>> /\ r.queue = <<>> -> [r EXCEPT !.res = "more"]
      [] OTHER -> MLPReadPacket(Simple(IF r.delayed # <<>> THEN r
                                ELSE [r EXCEPT !.delayed = r.queue[1], !.queue = Tail(@)]))

ReadOne(r) ==
    CASE r.kind = "core" /\ ~r.down -> ReadPacketTHD(r)
      [] r.kind = "merge" -> MergeReadPacket(r)
      [] r.kind = "mlp" -> MLPReadPacket(Simple(r))
      [] OTHER -> Simple(r)

\* flushPacket: what is left goes out as one packet, if it begins with a frame.
CountsThd(r) == (r.kind = "core" /\ ~r.down) \/ r.kind \in {"mlp", "merge"}
Flushed(r, d) ==
    CASE r.tmp = <<>> \/ d.res = "bad" -> <<>>
      [] OTHER -> <<[cells |-> r.tmp, time |-> IF CountsThd(r) THEN r.total ELSE r.pts, core |-> FALSE]>>
Flush(r) == Flushed(r, IF Len(r.tmp) >= HeaderLen THEN DecodeFrame(r, r.tmp) ELSE r)

-----------------------------------------------------------------------------

Init ==
    /\ options \in Films
    /\ mux = [kind |-> options.kind, down |-> options.down, data |-> <<>>, tmp |-> <<>>, needSync |-> TRUE,
              state |-> "ac3", ext |-> options.kind = "ac3", dep |-> FALSE, waitMore |-> FALSE, major |-> FALSE, core |-> TRUE,
              firstCall |-> TRUE, hdMode |-> options.hd, hdLen |-> 0, skipping |-> options.skip,
              wait |-> options.kind \in {"core", "merge"}, delayed |-> <<>>, demuxed |-> 0, total |-> 0, coreTime |-> 0,
              queue |-> <<>>, accum |-> <<>>, pts |-> 0, processed |-> 0, len |-> 0, skip |-> 0,
              res |-> "more", packet |-> NoPacket]
    /\ fed = [at |-> Beginning, side |-> Beginning, eof |-> FALSE, out |-> <<>>, ended |-> FALSE]

\* StreamInfo::read and setBuffer: what the reader has not put aside is gone.
SetBuffer ==
    LET block == BlockAt(options.files, fed.at, options.block)
        side == BlockAt(options.side, fed.side, options.block)
        fedMux == IF mux.kind = "merge" THEN SetAc3SideData(mux, side.cells) ELSE mux IN
    /\ ~fed.ended /\ ~fed.eof /\ mux.res = "more"
    /\ mux' = [fedMux EXCEPT !.data = mux.tmp \o block.cells, !.tmp = <<>>, !.res = "empty"]
    /\ fed' = [fed EXCEPT !.at = block.next, !.side = IF mux.kind = "merge" THEN side.next ELSE @, !.eof = block.eof]
    /\ UNCHANGED options

ReadPacket ==
    /\ mux.res # "more"
    /\ mux' = ReadOne(mux)
    /\ fed' = IF mux'.res = "packet" /\ mux'.packet.cells # <<>>
              THEN [fed EXCEPT !.out = Append(@, mux'.packet)] ELSE fed
    /\ UNCHANGED options

FlushPacket ==
    /\ ~fed.ended /\ fed.eof /\ mux.res = "more"
    /\ fed' = [fed EXCEPT !.ended = TRUE, !.out = @ \o Flush(mux)]
    /\ UNCHANGED <<options, mux>>

Next == SetBuffer \/ ReadPacket \/ FlushPacket \/ (fed.ended /\ UNCHANGED vars)
Spec == Init /\ [][Next]_vars

-----------------------------------------------------------------------------
(* Properties.                                                             *)

TypeOK ==
    /\ options \in Films
    /\ mux.res \in {"more", "empty", "packet", "frame", "bad"} /\ mux.state \in {"ac3", "first", "thd", "dts", "hd", "hd2"}
    /\ \A flag \in {"needSync", "ext", "dep", "waitMore", "major", "core", "firstCall", "hdMode", "wait"} : mux[flag] \in BOOLEAN

\* The frames of the stream, as they were made, and of these the ones that a reader
\* of the core leaves out.
All == FlattenSeq(options.files)
Heads == SelectSeq([p \in DOMAIN All |-> p], LAMBDA p : "len" \in DOMAIN All[p] /\ All[p].k # "false")
Wanted(p) == ~(options.down /\ All[p].k \in {"ext", "hd", "major", "minor"})
CoreKinds == IF options.kind = "core" /\ ~options.down THEN {"ac3"} ELSE {}
\* The time of a frame: the frames before it, one for those that belong together; and
\* with AC-3 in turns with TrueHD, each cell up to a sync word that is none, at the
\* beginning, counts as a frame of TrueHD.
Lead ==
    IF options.kind = "core" /\ ~options.down
    THEN ThdSamples * SelectInSeq(All, LAMBDA c : c.k = "false") ELSE 0
TimeOf(p) ==
    LET before == {i \in DOMAIN Heads : Heads[i] < p}
        count(kinds) == Cardinality({i \in before : All[Heads[i]].k \in kinds})
        one == IF options.kind # "dts" THEN {"ac3"} ELSE IF mux.core THEN {"dts"} ELSE {"hd"}
        thd == {"major", "minor"} IN
    CASE All[p].k \in thd -> Lead + ThdSamples * count(thd)
      [] All[p].k \in {"ext", "hd"} /\ one # {"hd"} -> Samples * (count(one) - 1)
      [] OTHER -> Samples * count(one)
FrameAt(p) == [cells |-> SubSeq(All, p, p + All[p].len - 1), time |-> TimeOf(p), core |-> All[p].k \in CoreKinds]
Skip(p) == TimeOf(p) < options.skip
OutOf(kinds) == SelectSeq(fed.out, LAMBDA f : f.cells[1].k \in kinds)
Expected(kinds) ==
    LET own == SelectSeq(Heads, LAMBDA p : Wanted(p) /\ All[p].k \in kinds /\ ~Skip(p)) IN
    [i \in DOMAIN own |-> FrameAt(own[i])]

\* No block ends so early in a frame of TrueHD that it is looked at and not understood.
Understood ==
    options.kind = "mlp" =>
        \A i \in DOMAIN Heads : \A there \in HeaderLen..(ThdHeader - 1) :
            Heads[i] - 1 + there \notin Cuts(All, options.block)
\* No block ends where TrueHD does and AC-3 begins: with AC-3 alone, the frame's time
\* would be lost.
TimesKnown ==
    options.kind = "core" /\ options.down =>
        \A i \in DOMAIN Heads : All[Heads[i]].k = "ac3" => Heads[i] - 1 \notin Cuts(All, options.block)

\* However the blocks cut a stream, each frame goes out as a whole, once, in order and
\* with its time, be there other data before it or a sync word that is none; a frame of
\* AC-3 goes out between the frames of TrueHD that end when it does
\* (SimplePacketizerReader::readPacket, AC3StreamReader::readPacketTHD, decodeFrame).
Delivered(kinds) ==
    LET out == OutOf(kinds)
        cells == FlattenSeq([i \in DOMAIN out |-> out[i].cells])
        expected == FlattenSeq([i \in DOMAIN Expected(kinds) |-> Expected(kinds)[i].cells]) IN
    /\ TimesKnown => IsPrefix(SubSeq(out, 1, Len(out) - 1), Expected(kinds))
    \* The last frame of DTS goes out with its HD part, whatever was asked for.
    /\ fed.ended => IF options.down THEN IsPrefix(expected, cells) ELSE cells = expected
\* The frames of AC-3 that are merged are whole ones of the other stream, in its order,
\* each one duration after the other, whatever was lost in the space before a block
\* (TrueHDAC3MergeReader::setAc3SideData, extractAc3FramesFromAccum).
Merging ==
    LET cores == SelectSeq(fed.out, LAMBDA f : f.core)
        side == FlattenSeq(options.side)
        heads == SelectSeq([p \in DOMAIN side |-> p], LAMBDA p : "len" \in DOMAIN side[p])
        number(f) == CHOOSE i \in DOMAIN heads : side[heads[i]] = f.cells[1] IN
    /\ \A i \in DOMAIN cores : cores[i].time = Samples * (i - 1) /\ Len(cores[i].cells) = cores[i].cells[1].len
    /\ \A i, j \in DOMAIN cores : i < j => number(cores[i]) < number(cores[j])
\* A frame of AC-3 goes out when TrueHD has reached its time, and at once
\* (AC3StreamReader::readPacketTHD, TrueHDAC3MergeReader::readPacket).
Interleaved ==
    \A i \in DOMAIN fed.out : fed.out[i].core =>
        LET before == SelectSeq(SubSeq(fed.out, 1, i), LAMBDA f : ~f.core)
            reached == IF before = <<>> THEN 0 ELSE Last(before).time + ThdSamples IN
        fed.out[i].time <= reached /\ reached < fed.out[i].time + Samples + ThdSamples
FramesDelivered ==
    /\ options.kind # "merge" /\ Understood => \A kinds \in {{"ac3", "ext"}, {"major", "minor"}, {"dts", "hd"}} : Delivered(kinds)
    /\ options.kind = "merge" => Merging
    /\ Interleaved
=============================================================================
