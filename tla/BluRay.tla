-------------------------------- MODULE BluRay --------------------------------
(***************************************************************************)
(* The index of a Blu-ray folder: what one or two TSMuxers note while they *)
(* write the clips (tsMuxer.cpp), the files that BlurayHelper makes of it  *)
(* (blurayHelper.cpp, modules ClipInfo and PlayList), and what a player    *)
(* finds with them.                                                        *)
(*                                                                         *)
(* A clip is measured in transport packets.  The packets of tables, clock  *)
(* and stuffing are some number of packets; how a muxer chooses them is in *)
(* module TransportStream, and how blocks get into files in MuxerManager.  *)
(***************************************************************************)
EXTENDS PlayList, FiniteSetsExt

CONSTANTS
    Folders,        \* the folders of a run, see FolderSpace
    FrameTime,      \* INTERNAL_PTS_FREQ / fps
    Second,         \* 90000: the distance of the entries for audio
    ClockTime,      \* M_PCR_DELTA
    Tables,         \* the packets of PAT, PMT, SIT and PCR
    Sector,         \* the packets of a sector: what a block is filled up to
    BlockSize,      \* the packets of a block of a 3D file
    Sizes,          \* the packets of a frame
    Steps           \* the times between frames

\* Streams of the main and of the dependent muxer, by PID: needs says that a frame
\* can be sought only with parameter sets (needSPSForSplit).  Parts end after so
\* much time or so many packets, 0 without; there are so many frames.
FolderAssumption ==
    /\ ClipAssumption
    /\ \A f \in Folders : DOMAIN f = {"streams", "main", "splitTime", "splitSize", "first",
                                      "chapterLen", "marks", "baseRight", "v3", "frames"}
    /\ Second \in Nat \ {0} /\ Sector \in Nat \ {0} /\ Steps \subseteq Int

VARIABLES
    options,    \* the folder of this run
    mux,        \* the muxers
    fed         \* what the clips are made of, and the files of the folder

vars == <<options, mux, fed>>

Muxers == DOMAIN options.streams
Stereo == Len(options.streams) = 2
Unset == -1000

-----------------------------------------------------------------------------
(* A muxer: its streams, each with an index for each file since its first  *)
(* frame, and for each file its packets, its first and its last time and   *)
(* the lengths of its blocks.  Beside it the frames of each file, and      *)
(* where its blocks begin.                                                 *)

NewMuxer(m) ==
    [streams |-> [i \in DOMAIN options.streams[m] |-> options.streams[m][i]],
     packets |-> <<0>>, firstPts |-> <<Unset>>, lastPts |-> <<Unset>>,
     extents |-> <<IF Stereo THEN <<0>> ELSE <<>>>>, processed |-> 0, fileStart |-> Unset]
NewTruth == [frames |-> <<<<>>>>, blocks |-> <<<<0>>>>]

AtLast(s, value) == [s EXCEPT ![Len(s)] = value]
Larger(a, b) == IF a > b THEN a ELSE b
Write(m, n) == [m EXCEPT !.packets = AtLast(@, Last(@) + n), !.processed = @ + n]

\* An entry of the index, in the last file; the first entry of a stream begins its index.
WithEntry(stream, pts, at) ==
    LET indices == IF stream.index = <<>> THEN <<<<>>>> ELSE stream.index IN
    [stream EXCEPT !.index = AtLast(indices, Append(Last(indices), [pts |-> pts, at |-> at]))]

\* writePESPacket: key frames that have what they need, and audio once a second,
\* if the time is later than the last entry's.
Sought(stream, f) ==
    LET last == IF stream.index = <<>> THEN <<>> ELSE Last(stream.index) IN
    \/ IsVideo(stream) /\ f.key /\ (f.sps \/ ~stream.needs)
       /\ (last = <<>> \/ f.pts > Last(last).pts)
    \/ IsAudio(stream) /\ (last = <<>> \/ f.pts - Last(last).pts >= Second)
Indexed(stream, f, at) ==
    IF Sought(stream, f) THEN WithEntry(stream, f.pts, at)
    ELSE IF stream.index = <<>> THEN [stream EXCEPT !.index = <<<<>>>>] ELSE stream

IsMain(m, i) == i = options.main[m]

\* The times of the file that muxPacket keeps.
Timed(muxer, m, f) ==
    LET end == IF IsVideo(muxer.streams[f.stream]) THEN f.pts ELSE f.pts + FrameTime
        first == Last(muxer.firstPts) = Unset IN
    [muxer EXCEPT
        !.lastPts = IF IsMain(m, f.stream) THEN AtLast(@, Larger(Last(@), end)) ELSE @,
        !.firstPts = IF first THEN AtLast(@, f.pts) ELSE @,
        !.fileStart = IF first THEN f.pts ELSE @]

\* finishFileBlock: stuffing to a sector, and the next block of the same file.
Stuffed(muxer) == Write(muxer, (Sector - (muxer.processed % Sector)) % Sector)
NextBlock(muxer) ==
    LET full == Stuffed(muxer) IN
    Write([full EXCEPT !.extents = AtLast(@, Append(Last(@), full.processed)), !.processed = 0], Tables)

\* gotoNextFile, and the tables at the file's beginning.
NextFile(muxer, pts) ==
    LET next(stream) == [stream EXCEPT !.index = IF @ = <<>> THEN @ ELSE Append(@, <<>>)]
        full == Stuffed(muxer) IN
    Write([full EXCEPT !.streams = [i \in DOMAIN @ |-> next(@[i])],
                       !.packets = Append(@, 0), !.extents = Append(@, <<0>>), !.processed = 0,
                       !.lastPts = Append(AtLast(@, pts), pts), !.firstPts = Append(@, pts),
                       !.fileStart = pts], Tables)

\* isSplitPoint, of the muxer that may begin files and blocks.
IsSplitPoint(muxer, m, f) ==
    /\ m = 1 /\ IsMain(m, f.stream) /\ f.key
    /\ IF options.splitSize > 0 THEN Last(muxer.packets) > options.splitSize
       ELSE options.splitTime > 0 /\ f.pts - muxer.fileStart > options.splitTime

\* muxPacket and the PES packet that it ends up in.  A state is the muxers and, for
\* each, the frames of its files and the places where their blocks begin.
MuxPacket(s, m, f, extra) ==
    LET started == [s EXCEPT !.mux[m] = Timed(@, m, f)]
        split == IsSplitPoint(started.mux[m], m, f)
        block == ~split /\ m = 1 /\ Stereo /\ \E n \in Muxers : s.mux[n].processed >= BlockSize
        clocked == IF Last(s.mux[m].packets) = 0 THEN Tables ELSE extra
        begun == CASE split -> [n \in Muxers |-> NextFile(started.mux[n], f.pts)]
                   [] block -> [n \in Muxers |-> NextBlock(started.mux[n])]
                   [] OTHER -> [started.mux EXCEPT ![m] = Write(@, clocked)]
        truth == [n \in Muxers |->
                    CASE split -> [frames |-> Append(s.truth[n].frames, <<>>),
                                   blocks |-> Append(s.truth[n].blocks, <<0>>)]
                      [] block -> [s.truth[n] EXCEPT !.blocks =
                                      AtLast(@, Append(Last(@), Last(Stuffed(started.mux[n]).packets)))]
                      [] OTHER -> s.truth[n]]
        at == Last(begun[m].packets)
        stream == begun[m].streams[f.stream]
        frame == [pid |-> stream.pid, pts |-> f.pts, at |-> at, key |-> f.key /\ (f.sps \/ ~stream.needs)] IN
    [mux |-> [begun EXCEPT ![m] = Write([@ EXCEPT !.streams[f.stream] = Indexed(stream, f, at)], f.size)],
     truth |-> [truth EXCEPT ![m].frames = AtLast(@, Append(Last(@), frame))]]

-----------------------------------------------------------------------------
(* The frames, in the order of the mux.  The first frame of a file has     *)
(* parameter sets, as contSPS makes it; those of both eyes have the same   *)
(* times; a frame that is shown before an earlier one is not a key frame.  *)
(* The videos and the main stream begin first: the index of a stream has   *)
(* its files numbered from the one that the stream begins in.              *)

FramesOf(stream) ==
    IF IsVideo(stream)
    THEN [key : {TRUE}, sps : IF stream.needs THEN BOOLEAN ELSE {FALSE}, step : Steps, size : Sizes]
         \cup [key : {FALSE}, sps : {FALSE}, step : {-1}, size : Sizes]
    ELSE [key : {FALSE}, sps : {FALSE}, step : Steps, size : Sizes]

Unbegun ==
    {i \in DOMAIN mux[1].streams :
        (IsVideo(mux[1].streams[i]) \/ IsMain(1, i)) /\ mux[1].streams[i].index = <<>>}

Frame(m, i, g) ==
    LET f == [stream |-> i, key |-> g.key, sps |-> g.sps, size |-> g.size, pts |-> fed.time + g.step]
        extra == IF g.step >= ClockTime THEN Tables ELSE 0
        split == IsSplitPoint(Timed(mux[m], m, f), m, f)
        first == MuxPacket([mux |-> mux, truth |-> fed.truth], m, f, extra)
        both == IF Stereo THEN MuxPacket(first, 2, [f EXCEPT !.stream = options.main[2]], extra) ELSE first IN
    /\ fed.stage = "mux"
    /\ fed.count < options.frames \/ Unbegun # {}
    /\ Unbegun # {} => m = 1 /\ i = Min(Unbegun)
    /\ Stereo => m = 1 /\ IsMain(m, i)
    /\ IsVideo(mux[m].streams[i]) /\ (split \/ mux[m].streams[i].index = <<>>) =>
          g.key /\ (g.sps \/ ~mux[m].streams[i].needs)
    /\ mux' = both.mux
    /\ fed' = [fed EXCEPT !.count = @ + 1, !.time = Larger(@, f.pts), !.truth = both.truth]
    /\ UNCHANGED options

-----------------------------------------------------------------------------
(* The end.                                                                *)

\* doFlush, of every muxer: the last frame lasts as long as the others.
Flush ==
    /\ fed.stage = "mux"
    /\ Unbegun = {}
    /\ mux' = [m \in Muxers |->
                  LET video == IsVideo(options.streams[m][options.main[m]]) IN
                  [Stuffed(mux[m]) EXCEPT !.lastPts = AtLast(@, Last(@) + IF video THEN FrameTime ELSE 0)]]
    /\ fed' = [fed EXCEPT !.stage = "flushed"]
    /\ UNCHANGED options

\* createCLPIFile, of one clip: the streams have the index of that file only.
ClipOf(m, i) ==
    LET muxer == mux[m] IN
    [streams |-> [k \in DOMAIN muxer.streams |->
                    [muxer.streams[k] EXCEPT !.index = IF i \in DOMAIN @ THEN @[i] ELSE <<>>]],
     dependent |-> m = 2, application |-> IF m = 2 THEN 8 ELSE 1, rate |-> 0,
     packets |-> muxer.packets[i], start |-> muxer.firstPts[i], end |-> muxer.lastPts[i],
     extents |-> IF Stereo THEN muxer.extents[i] ELSE <<>>]

CreateCLPIFile ==
    /\ fed.stage = "flushed"
    /\ fed' = [fed EXCEPT !.stage = "clips", !.clips =
                  [m \in Muxers |-> [i \in DOMAIN mux[m].packets |-> ClipFile(ClipOf(m, i))]]]
    /\ UNCHANGED <<options, mux>>

\* alignPTS: both eyes end together.
AlignPTS ==
    LET end == IF Stereo /\ Last(mux[2].lastPts) < Last(mux[1].lastPts)
               THEN Last(mux[2].lastPts) ELSE Last(mux[1].lastPts) IN
    [m \in Muxers |-> [mux[m] EXCEPT !.lastPts = AtLast(@, end)]]

\* createMPLSFile.
ListOf(aligned) ==
    LET inTime == aligned[1].firstPts[1] \div 2
        outTime == Last(aligned[1].lastPts) \div 2
        wanted == SelectSeq(options.marks, LAMBDA mark : mark <= outTime - inTime) IN
    [first |-> options.first, inTime |-> inTime, outTime |-> outTime,
     streams |-> aligned[1].streams, depend |-> IF Stereo THEN aligned[2].streams ELSE <<>>,
     chapterLen |-> IF options.marks = <<>> THEN options.chapterLen ELSE 0,
     marks |-> [k \in DOMAIN wanted |-> wanted[k] + inTime],
     stereo |-> Stereo, baseRight |-> options.baseRight, v3 |-> options.v3]

CreateMPLSFile ==
    /\ fed.stage = "clips"
    /\ mux' = AlignPTS
    /\ fed' = [fed EXCEPT !.stage = "done", !.list = <<PlayListFile(ListOf(AlignPTS))>>]
    /\ UNCHANGED options

Init ==
    /\ options \in Folders
    /\ mux = [m \in Muxers |-> NewMuxer(m)]
    /\ fed = [stage |-> "mux", count |-> 0, time |-> 1, truth |-> [m \in Muxers |-> NewTruth],
              clips |-> <<>>, list |-> <<>>]

Next ==
    \/ \E m \in Muxers : \E i \in DOMAIN options.streams[m] :
          \E g \in FramesOf(options.streams[m][i]) : Frame(m, i, g)
    \/ Flush \/ CreateCLPIFile \/ CreateMPLSFile
    \/ (fed.stage = "done" /\ UNCHANGED vars)

Spec == Init /\ [][Next]_vars

-----------------------------------------------------------------------------
(* Properties.                                                             *)

TypeOK ==
    /\ options \in Folders
    /\ \A m \in Muxers :
          /\ \A i \in DOMAIN mux[m].packets : mux[m].packets[i] \in Nat
          /\ Len(mux[m].lastPts) = Len(mux[m].packets) /\ Len(mux[m].firstPts) = Len(mux[m].packets)
    /\ fed.stage \in {"mux", "flushed", "clips", "done"}
    /\ fed.count \in Nat

Rounded(pts) == pts - (pts % PtsFine)

\* An index is true of frames: every frame that can be sought is in it, with its
\* place; of audio, frames of it, and one at least every second.
TrueOfVideo(index, frames) ==
    index = [i \in DOMAIN frames |-> [pts |-> Rounded(frames[i].pts), at |-> frames[i].at]]
TrueOfAudio(index, frames) ==
    /\ \A i \in DOMAIN index : \E k \in DOMAIN frames :
          index[i] = [pts |-> Rounded(frames[k].pts), at |-> frames[k].at]
    /\ \A k \in DOMAIN frames : \E i \in DOMAIN index :
          index[i].at <= frames[k].at /\ frames[k].pts - index[i].pts < Second + PtsFine

Described(s) ==
    [pid |-> s.pid, type |-> s.type,
     attributes |-> IF IsVideo(s) THEN <<s.format, s.rate>>
                    ELSE IF IsAudio(s) THEN <<s.format, s.rate, s.lang>> ELSE <<s.lang>>]
DescribedAll(streams) == [i \in DOMAIN streams |-> Described(streams[i])]

ClipTrue(m, i) ==
    LET file == fed.clips[m][i]
        clip == ParsedClip(file)
        streams == options.streams[m]
        frames(pid) == SelectSeq(fed.truth[m].frames[i], LAMBDA f : f.pid = pid)
        seekable(pid) == SelectSeq(frames(pid), LAMBDA f : f.key)
        map == PlayerMap(file, m = 2) IN
    /\ clip.packets = mux[m].packets[i]
    /\ clip.streams = DescribedAll(OfType(streams, LAMBDA s : s.type # MVC))
    /\ clip.dependent = IF m = 2 THEN {DescribedAll(OfType(streams, LAMBDA s : s.type = MVC))} ELSE {}
    /\ clip.extents = IF Stereo THEN {fed.truth[m].blocks[i]} ELSE {}
    /\ \A k \in DOMAIN map : \E s \in ToSet(streams) :
          /\ s.pid = map[k].pid
          /\ IsVideo(s) => TrueOfVideo(map[k].index, seekable(s.pid))
          /\ IsAudio(s) => TrueOfAudio(map[k].index, frames(s.pid))
    /\ map # <<>>

\* What a player finds with a clip's information is there: every frame that the EP
\* map gives begins at that packet and is shown at that time, no frame that can be
\* sought is missing, the extents are the blocks of the 3D file, and the streams
\* read back are those of the mux (CLPIParser::compose and parse, writePESPacket,
\* finishFileBlock, gotoNextFile).
ClipsTrue ==
    fed.stage \in {"clips", "done"} =>
        \A m \in Muxers : \A i \in DOMAIN fed.clips[m] : ClipTrue(m, i)

\* The streams of a playlist as they stand in it, by groups.
Listed(streams) ==
    LET of(is(_)) == OfType(streams, is)
        listed == of(PrimaryVideo) \o of(PrimaryAudio) \o of(IsPgs)
                  \o of(SecondaryAudio) \o of(SecondaryVideo) \o of(IsDolby)
        entry(s) == [pid |-> s.pid, type |-> s.type, secondary |-> s.secondary,
                     attributes |-> IF IsVideo(s) THEN <<s.format, s.rate>>
                                    ELSE IF IsAudio(s) THEN <<s.format, s.lang>> ELSE <<s.lang>>] IN
    [i \in DOMAIN listed |-> entry(listed[i])]

ItemTrue(items, i) ==
    LET clip == ParsedClip(fed.clips[1][i]).times
        main == mux[1].streams[options.main[1]]
        seekable == {f.pts \div 2 : f \in {f \in ToSet(fed.truth[1].frames[i]) : f.key /\ f.pid = main.pid}} IN
    /\ items[i].clip = options.first + (i - 1) * Len(options.streams)
    /\ items[i].connection = IF i = 1 THEN 1 ELSE 6
    /\ items[i].stn.streams = Listed(options.streams[1])
    /\ i > 1 => items[i].in = items[i - 1].out /\ items[i].in \in seekable
    /\ clip[4] <= items[i].in /\ items[i].in < items[i].out /\ items[i].out <= clip[5]

ListTrue(list) ==
    LET items == list.items
        pgs == OfType(options.streams[1], IsPgs) IN
    /\ Len(items) = Len(mux[1].packets)
    /\ items[1].in = mux[1].firstPts[1] \div 2
    /\ Last(items).out = Last(mux[1].lastPts) \div 2
    /\ \A i \in DOMAIN items : ItemTrue(items, i)
    /\ list.marks # <<>>
    /\ \A mark \in ToSet(list.marks) :
          /\ mark.item + 1 \in DOMAIN items
          /\ items[mark.item + 1].in <= mark.time /\ mark.time <= items[mark.item + 1].out
    /\ list.baseRight = IF options.baseRight THEN 1 ELSE 0
    /\ Stereo =>
          /\ list.stereo = {[i \in DOMAIN pgs |->
                [offset |-> pgs[i].offset,
                 eyes |-> [k \in DOMAIN pgs[i].eyes |-> pgs[i].eyes[k].pid]]]}
          /\ list.dependents = {[i \in DOMAIN items |-> options.first + 2 * i - 1]}

\* The playlist plays the clips one after the other without a gap: each item lies
\* within its clip, begins where the one before it ends and at a frame that can be
\* sought; a chapter is in the item it names; and the streams, the clips of the
\* other eye and the subtitles' depths read back as they were (MPLSParser::compose
\* and parse, composePlayItem, calcPlayItemID, alignPTS).
PlayListTrue == fed.stage = "done" => ListTrue(ParsedPlayList(fed.list[1]))
=============================================================================
