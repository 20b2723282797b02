---------------------------------- MODULE Lpcm ----------------------------------
(***************************************************************************)
(* Sound without a codec (lpcmStreamReader.cpp, wave.cpp): WAV files, also *)
(* joined ones, become the frames of a Blu-ray disk, which become a WAV    *)
(* file again when they are demultiplexed.                                 *)
(*                                                                         *)
(* A stream is a sequence of cells: the sample of a channel                *)
(*   [k |-> "sample", of, n, big]    big: with the high byte first         *)
(* the chunks of a WAV file                                                *)
(*   [k |-> "riff", size], [k |-> "fmt", channels, mask], [k |-> "fllr", size], *)
(*   [k |-> "data", size]                                                  *)
(* where mask is {} for a header that has none, and the header of a frame, *)
(*   [k |-> "pcm", size, index, first]                                     *)
(***************************************************************************)
EXTENDS Integers, Sequences, FiniteSets, SequencesExt, TLC

CONSTANTS
    Records,      \* [files, size of blocks, what they have]
    PerFrame,     \* the samples of a channel in 5 ms
    HeaderMax,    \* MAX_HEADER_SIZE
    FrameTime     \* what 5 ms are

RecordAssumption ==
    /\ PerFrame \in Nat \ {0} /\ HeaderMax \in Nat \ {0} /\ FrameTime \in Nat \ {0}
    /\ \A record \in Records : record.block \in Nat \ {0} /\ record.files # <<>>

VARIABLES options, mux, fed
vars == <<options, mux, fed>>

Less(a, b) == IF a < b THEN a ELSE b
Even(n) == n + (n % 2)
Slice(cells, from, len) == SubSeq(cells, from, from + len - 1)
Silence(len) == [i \in 1..len |-> [k |-> "zero"]]

-----------------------------------------------------------------------------
(* Headers.                                                                *)

\* decodeLPCMHeader: the channels of an index, and whether one of them is the LFE.
Channels == <<1, 2, 2, 3, 3, 4, 4, 5, 6, 7, 8>>
WithLfe == {5, 6, 9, 11}
\* The index that convertWavToPCM writes.
IndexOf(channels, lfe) ==
    CASE channels = 1 -> 1 [] channels = 2 -> 3
      [] channels = 3 -> IF lfe THEN 5 ELSE 4
      [] channels = 4 -> IF lfe THEN 6 ELSE 7
      [] OTHER -> channels + 3

\* getWaveChannelMask and the LFE of a file, by its mask or by the number of channels.
MaskOf(channels, lfe) ==
    CASE channels = 1 -> {"C"} [] channels = 2 -> {"L", "R"}
      [] channels = 3 -> {"L", "R"} \cup (IF lfe THEN {"LFE"} ELSE {"C"})
      [] channels = 4 -> {"L", "R"} \cup (IF lfe THEN {"C", "LFE"} ELSE {"BL", "BR"})
      [] channels = 5 -> {"L", "R", "C", "SL", "SR"}
      [] channels = 6 -> {"L", "R", "C", "SL", "SR", "LFE"}
      [] channels = 7 -> {"L", "R", "C", "BL", "BR", "SL", "SR"}
      [] OTHER -> {"L", "R", "C", "BL", "BR", "SL", "SR", "LFE"}
LfeOf(fmt) == IF fmt.mask = {} THEN fmt.channels \in {3, 6, 8} ELSE "LFE" \in fmt.mask

WaveHeader(channels, lfe) ==
    <<[k |-> "riff", size |-> 1], [k |-> "fmt", channels |-> channels, mask |-> MaskOf(channels, lfe)],
      [k |-> "data", size |-> 0]>>

-----------------------------------------------------------------------------
(* Channels.                                                               *)

\* storeChannelData (to 0), copyChannelData and restoreChannelData (from 0): what is
\* moved to reach the order of a disk, or that of a WAV file.
ToDisk(channels) ==
    CASE channels = 6 -> <<<<4, 0>>, <<5, 4>>, <<6, 5>>, <<0, 6>>>>
      [] channels = 7 -> <<<<4, 0>>, <<6, 4>>, <<5, 6>>, <<0, 5>>>>
      [] channels = 8 -> <<<<4, 0>>, <<7, 4>>, <<8, 7>>, <<0, 8>>>>
      [] OTHER -> <<>>
ToWave(channels) ==
    CASE channels = 6 -> <<<<6, 0>>, <<5, 6>>, <<4, 5>>, <<0, 4>>>>
      [] channels = 7 -> <<<<4, 0>>, <<5, 4>>, <<6, 5>>, <<0, 6>>>>
      [] channels = 8 -> <<<<8, 0>>, <<7, 8>>, <<4, 7>>, <<0, 4>>>>
      [] OTHER -> <<>>
Moved(group, moves) ==
    LET move(g, m) == [g EXCEPT ![m[2]] = g[m[1]]]
        start == [i \in 0..Len(group) |-> IF i = 0 THEN [k |-> "zero"] ELSE group[i]]
        end == FoldLeft(move, start, moves) IN
    [i \in DOMAIN group |-> end[i]]
Swapped(group) == [i \in DOMAIN group |-> IF group[i].k = "sample" THEN [group[i] EXCEPT !.big = ~@] ELSE group[i]]
GroupsOf(cells, n) == [g \in 1..(Len(cells) \div n) |-> Slice(cells, (g - 1) * n + 1, n)]

\* convertWavToPCM: samples that are whole, a channel of silence if the number is odd,
\* behind the header of a frame or to be joined with the part before.
PcmHeader(r) ==
    [k |-> "pcm", size |-> PerFrame * Even(r.channels), index |-> IndexOf(r.channels, r.lfe), first |-> r.first]
ConvertWavToPCM(r, cells) ==
    LET groups == GroupsOf(Swapped(cells), r.channels) IN
    IF Len(cells) < r.channels THEN <<>>
    ELSE (IF r.needHdr THEN <<PcmHeader(r)>> ELSE <<>>)
         \o FlattenSeq([g \in DOMAIN groups |-> Moved(groups[g], ToDisk(r.channels)) \o Silence(r.channels % 2)])

\* convertLPCMToWAV: in place and once, the channel of silence removed.
Back(cells, channels) ==
    LET groups == GroupsOf(Swapped(cells), Even(channels)) IN
    FlattenSeq([g \in DOMAIN groups |-> SubSeq(Moved(groups[g], ToWave(channels)), 1, channels)])
SizeBack(len, channels) == (len \div Even(channels)) * channels
ConvertLPCMToWAV(r, from, len) ==
    IF r.remap = from THEN r
    ELSE LET wave == Back(Slice(r.buf, from, len), r.channels) IN
         [r EXCEPT !.remap = from,
                   !.buf = SubSeq(@, 1, from - 1) \o wave \o SubSeq(@, from + Len(wave), Len(@))]

-----------------------------------------------------------------------------
(* The reader.                                                             *)

Reader(demux) ==
    [type |-> "none", channels |-> 0, lfe |-> FALSE, rest |-> 0, needHdr |-> TRUE, chunk |-> 0, open |-> FALSE,
     first |-> TRUE, sync |-> TRUE, demux |-> demux, pts |-> 0, buf |-> <<>>, pos |-> 1, tmp |-> <<>>,
     remap |-> 0, more |-> TRUE, out |-> <<>>, frames |-> 0, len |-> 0, before |-> 0, skip |-> 0, short |-> FALSE]
Remains(r) == Len(r.buf) - r.pos + 1
Result(r, len, before, skip) == [r EXCEPT !.len = len, !.before = before, !.skip = skip]
NotEnough(r) == [r EXCEPT !.short = TRUE]

\* detectLPCMType: a RIFF header, or frames one behind the other.
RECURSIVE FramesFrom(_, _)
FramesFrom(buf, at) ==
    at > Len(buf) \/ (buf[at].k = "pcm" /\ FramesFrom(buf, at + buf[at].size + 1))
DetectLPCMType(r) ==
    IF r.buf[r.pos].k = "riff" THEN [r EXCEPT !.type = "wave"]
    ELSE IF FramesFrom(r.buf, r.pos) THEN [r EXCEPT !.type = "m2ts"] ELSE r

\* decodeWaveHeader: the format, what fills, and the beginning of the data.
Find(buf, what, from, to) ==
    LET at == {i \in from..Less(to, Len(buf)) : buf[i].k = what} IN
    IF at = {} THEN 0 ELSE CHOOSE i \in at : \A j \in at : i <= j
PastFiller(buf, at) ==
    IF at <= Len(buf) /\ buf[at].k = "fllr" THEN at + 1 + buf[at].size ELSE at
WithData(r, at) ==
    IF at = 0 THEN Result(r, 0, 0, 0)
    ELSE [r EXCEPT !.chunk = r.buf[at].size, !.open = @ \/ r.buf[at].size = 0, !.before = at - r.pos + 1]
WithFormat(r, at) ==
    IF at = 0 \/ at >= Len(r.buf) \/ PastFiller(r.buf, at + 1) > Len(r.buf) THEN NotEnough(r)
    ELSE WithData([r EXCEPT !.channels = r.buf[at].channels, !.lfe = LfeOf(r.buf[at])],
                  Find(r.buf, "data", PastFiller(r.buf, at + 1), PastFiller(r.buf, at + 1) + HeaderMax))
DecodeWaveHeader(r) == WithFormat(r, Find(r.buf, "fmt", r.pos, Len(r.buf)))

\* decodeFrame of a file: a frame, or as much of it as its data has; what is missing is
\* taken from the file behind it.
AtHeader(r) ==
    /\ r.chunk = 0 /\ r.buf[r.pos].k = "riff"
    /\ ~r.open \/ r.buf[r.pos].size = 0
PartOfFrame(r, required, len) ==
    IF Remains(r) < len + r.before THEN NotEnough(r)
    ELSE LET rest == required - (len \div r.channels) * r.channels IN
         [r EXCEPT !.len = len, !.rest = IF rest = required THEN 0 ELSE rest, !.needHdr = @ \/ rest # required]
RestOfFrame(r) ==
    IF Remains(r) < r.rest + r.before THEN NotEnough(r)
    ELSE [r EXCEPT !.len = r.rest, !.rest = 0, !.needHdr = FALSE]
FrameOfFile(r) ==
    LET required == PerFrame * r.channels IN
    IF r.short THEN r
    ELSE IF r.rest # 0 THEN RestOfFrame(r)
    ELSE IF r.channels = 0 THEN r
    ELSE PartOfFrame(r, required, IF r.chunk # 0 THEN Less(required, r.chunk) ELSE required)
WithHeader(r) ==
    LET read == DecodeWaveHeader(r) IN
    IF read.sync /\ ~read.short THEN [read EXCEPT !.chunk = 0] ELSE read
DecodeWave(r) ==
    IF Remains(r) < 1 THEN NotEnough(r)
    ELSE FrameOfFile(IF AtHeader(r) THEN WithHeader(r) ELSE r)

\* decodeFrame of a disk's frames.
DecodeM2ts(r, header) ==
    LET read == [r EXCEPT !.channels = Channels[header.index], !.lfe = header.index \in WithLfe] IN
    IF Remains(r) < header.size + 1 THEN NotEnough(read)
    ELSE IF ~r.demux THEN Result(read, header.size + 1, 0, 0)
    ELSE Result(ConvertLPCMToWAV(read, r.pos + 1, header.size), SizeBack(header.size, read.channels), 1,
                header.size - SizeBack(header.size, read.channels))
DecodeFrame(r) ==
    LET clear == [r EXCEPT !.len = 0, !.before = 0, !.skip = 0, !.short = FALSE] IN
    CASE r.type = "m2ts" -> DecodeM2ts(clear, r.buf[r.pos])
      [] r.type = "wave" -> DecodeWave(clear)
      [] OTHER -> clear
Taken(r) == r.len + r.before + r.skip

\* What does not make a frame waits for more.
NeedMore(r) == [r EXCEPT !.tmp = SubSeq(r.buf, r.pos, Len(r.buf)), !.pos = Len(r.buf) + 1, !.more = TRUE]
Found(r) == IF r.type = "none" THEN DetectLPCMType(r) ELSE r
InSync(r) ==
    IF r.type = "none" THEN [r EXCEPT !.more = TRUE]
    ELSE LET d == DecodeFrame(r) IN
         IF d.short THEN NeedMore(d)
         ELSE IF Taken(d) <= 0 THEN [d EXCEPT !.pos = @ + 1]
         ELSE [d EXCEPT !.sync = FALSE]
\* A demultiplexed file begins with a header (writeAdditionData).
Written(r, cells) ==
    [r EXCEPT !.out = @ \o (IF r.first /\ r.demux /\ cells # <<>> THEN WaveHeader(r.channels, r.lfe) ELSE <<>>) \o cells,
              !.first = FALSE]
Packet(r) ==
    LET cells == Slice(r.buf, r.pos + r.before, r.len) IN
    [Written(r, IF r.type = "wave" /\ ~r.demux THEN ConvertWavToPCM(r, cells) ELSE cells) EXCEPT
        !.chunk = IF @ # 0 THEN @ - r.len ELSE 0,
        !.pts = @ + (IF r.rest = 0 THEN FrameTime ELSE 0),
        !.frames = @ + (IF r.rest = 0 THEN 1 ELSE 0),
        !.pos = @ + Taken(r)]
Decoded(r) ==
    IF Remains(r) < 1 \/ r.short THEN NeedMore(r)
    ELSE IF Taken(r) <= 0 THEN [r EXCEPT !.sync = TRUE]
    ELSE Packet(r)
AfterSync(r) == IF r.sync \/ r.more THEN r ELSE Decoded(DecodeFrame(r))
ReadPacket(r) ==
    IF r.pos > Len(r.buf) THEN [r EXCEPT !.more = TRUE]
    ELSE IF r.sync THEN AfterSync(InSync(Found(r)))
    ELSE Decoded(DecodeFrame(r))

\* getTSDescriptor (a muxer calls it when it has the first block) looks at a frame
\* before it is read.
GetTSDescriptor(r) == DecodeFrame(Found(r))
SetBuffer(r, cells) == [r EXCEPT !.buf = r.tmp \o cells, !.pos = 1, !.tmp = <<>>, !.remap = 0, !.more = FALSE]

\* flushPacket: what is left, and silence to the end of a frame that was begun.
Left(r) == [r EXCEPT !.buf = r.tmp, !.pos = 1, !.remap = 0]
Rest(r) ==
    IF r.type # "wave" \/ r.demux THEN SubSeq(r.tmp, r.before + 1, Len(r.tmp))
    ELSE IF r.tmp = <<>> THEN <<>> ELSE ConvertWavToPCM([r EXCEPT !.needHdr = @ /\ r.rest = 0], r.tmp)
Missing(r, size) ==
    IF r.rest > 0 /\ ~r.demux
    THEN (r.rest \div r.channels) * Even(r.channels) - size ELSE 0
Filled(r, cells) == cells \o Silence(IF Missing(r, Len(cells)) > 0 THEN Missing(r, Len(cells)) ELSE 0)
FlushPacket(r) ==
    LET d == IF r.tmp # <<>> THEN DecodeFrame(Left(r)) ELSE r IN
    IF r.tmp # <<>> /\ ~d.short /\ Taken(d) <= 0 THEN d ELSE Written(d, Filled(d, Rest(d)))

\* beforeFileCloseEvent: the sizes of a WAV file.
Closed(r) ==
    IF ~r.demux \/ r.out = <<>> THEN r.out ELSE [r.out EXCEPT ![3] = [@ EXCEPT !.size = Len(r.out) - 3]]

-----------------------------------------------------------------------------
(* A record becomes frames, a file and frames again.                       *)

BlocksOf(file, size) ==
    [b \in 1..((Len(file) + size - 1) \div size) |-> SubSeq(file, (b - 1) * size + 1, Less(b * size, Len(file)))]
AllBlocks(files) == FlattenSeq([i \in DOMAIN files |-> BlocksOf(files[i], options.block)])
Init ==
    /\ options \in Records
    /\ mux = Reader(FALSE)
    /\ fed = [phase |-> 1, blocks |-> AllBlocks(options.files), done |-> <<>>]

Block ==
    /\ mux.more /\ fed.blocks # <<>>
    /\ LET filled == SetBuffer(mux, fed.blocks[1]) IN
       mux' = IF mux.buf = <<>> THEN GetTSDescriptor(filled) ELSE filled
    /\ fed' = [fed EXCEPT !.blocks = Tail(@)] /\ UNCHANGED options
Read == ~mux.more /\ mux' = ReadPacket(mux) /\ UNCHANGED <<options, fed>>
Flush ==
    /\ mux.more /\ fed.blocks = <<>> /\ fed.phase <= 3
    /\ LET out == Closed(FlushPacket(mux)) IN
       /\ fed' = [phase |-> fed.phase + 1, blocks |-> BlocksOf(out, options.block),
                  done |-> Append(fed.done, [out |-> out, pts |-> mux.pts, frames |-> mux.frames])]
       /\ mux' = Reader(fed.phase = 1)
    /\ UNCHANGED options
Done == fed.phase = 4 /\ UNCHANGED vars
Next == Block \/ Read \/ Flush \/ Done
Spec == Init /\ [][Next]_vars

-----------------------------------------------------------------------------

TypeOK ==
    /\ options \in Records
    /\ mux.type \in {"none", "m2ts", "wave"} /\ mux.channels \in 0..8
    /\ mux.rest \in 0..(8 * PerFrame) /\ mux.chunk \in Nat
    /\ mux.pos \in 1..(Len(mux.buf) + 1) /\ fed.phase \in 1..4

\* The sound of a record, with silence to the end of a frame.
SamplesOf(cells) == SelectSeq(cells, LAMBDA cell : cell.k \in {"sample", "zero"})
HeadersOf(cells) == SelectSeq(cells, LAMBDA cell : cell.k = "pcm")
Whole(n) == PerFrame * ((n + PerFrame - 1) \div PerFrame)
Kept(out) ==
    LET sound == options.sound
        channels == options.channels
        n == Len(sound) \div channels IN
    /\ Len(SamplesOf(out)) = Whole(n) * channels
    /\ SubSeq(SamplesOf(out), 1, Len(sound)) = sound
    /\ \A i \in (Len(sound) + 1)..Len(SamplesOf(out)) : SamplesOf(out)[i].k = "zero"

\* A record that is muxed and demultiplexed is the record again: every sample in its
\* channel and its order of bytes, the frames as long as their headers say, the time
\* that of the samples, the LFE told, and muxed again it gives the same frames.
SoundKept ==
    /\ fed.phase >= 2 =>
           LET out == fed.done[1].out IN
           /\ FramesFrom(out, 1)
           /\ \A i \in DOMAIN HeadersOf(out) :
                  HeadersOf(out)[i].first = (i = 1) /\ (HeadersOf(out)[i].index \in WithLfe) = options.lfe
           /\ Len(HeadersOf(out)) = Whole(Len(options.sound) \div options.channels) \div PerFrame
           /\ fed.done[1].pts = fed.done[1].frames * FrameTime
           /\ fed.done[1].frames = Len(options.sound) \div (options.channels * PerFrame)
    /\ fed.phase >= 3 =>
           /\ Kept(fed.done[2].out)
           /\ Len(fed.done[2].out) = 3 + fed.done[2].out[3].size
           /\ ("LFE" \in fed.done[2].out[2].mask) = options.lfe
    /\ fed.phase = 4 => fed.done[3].out = fed.done[1].out
=============================================================================
