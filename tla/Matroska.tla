------------------------------ MODULE Matroska ------------------------------
(***************************************************************************)
(* Matroska files as tsMuxer writes them (matroskaMuxer.cpp) and as it     *)
(* reads them (matroskaDemuxer.cpp, matroskaParser.cpp, and the bytes of   *)
(* ioContextDemuxer.cpp).                                                  *)
(*                                                                         *)
(* A place in a file is the number of cells (Ebml) before it.  Texts, and  *)
(* what a track tells of its codec besides its parameter sets, are left    *)
(* out.                                                                    *)
(***************************************************************************)
EXTENDS Ebml, Integers, Sequences, FiniteSetsExt, SequencesExt, TLC

CONSTANTS
    Films,          \* the films of a run, see FilmSpace
    PtsPerMs,       \* INTERNAL_PTS_PER_MS
    ClusterTime,    \* CLUSTER_MAX_DURATION_MS
    KeyTime,        \* the 1000 ms after which a key frame begins a cluster
    ClusterSize,    \* CLUSTER_MAX_SIZE
    TimeRange,      \* 2^15: a block's time has 16 bits and a sign
    LaceMax,        \* 255: a byte of a Xiph lace
    MaxDepth,       \* EBML_MAX_DEPTH
    Unknown         \* the value of the size that means "unknown"

\* A track: video; NAL units, that the file has without start codes, and the
\* parameter sets of CodecPrivate; what its packets may hold.  A film: at most so
\* many packets, each so many units of time after the last of its track.  One that
\* another program made has its file instead, and the frames in it.
Cells == Seq([k : STRING, v : Int])
TrackSpace == [video : BOOLEAN, nals : BOOLEAN, private : Seq(Cells), payloads : SUBSET Seq(STRING)]
FilmSpace ==
    [tracks : Seq(TrackSpace), packets : Nat, steps : SUBSET Int, file : Cells,
     frames : Seq([track : Nat, time : Int, key : BOOLEAN, data : Cells])]

FilmAssumption ==
    /\ PtsPerMs \in Nat \ {0} /\ TimeRange \in Nat \ {0} /\ LaceMax \in Nat \ {0}
    /\ KeyTime < ClusterTime /\ ClusterTime < TimeRange
    /\ \A film \in Films : DOMAIN film = {"tracks", "packets", "steps", "file", "frames"}

VARIABLES
    options,    \* the film of this run
    mux,        \* the MatroskaMuxer, and what the demuxer has read
    fed         \* the frames that were muxed: [track, pts, key, data]

vars == <<options, mux, fed>>

Tracks == options.tracks

-----------------------------------------------------------------------------
(* Frames.                                                                 *)

IsStart(c) == c.k = "start"
IsZero(c) == c.k = "zero"

\* The NAL units between start codes, as NALUnit::findNextNAL finds them: zeros
\* before a start code belong to it.
NalUnits(cells) ==
    LET starts == SelectSeq(Indices(cells), LAMBDA i : IsStart(cells[i]))
        end(n) == IF n = Len(starts) THEN Len(cells) ELSE starts[n + 1] - 1
        full(n) == SubSeq(cells, starts[n] + 1, end(n))
        trimmed(u) == SubSeq(u, 1, Max({0} \cup {i \in DOMAIN u : ~IsZero(u[i])})) IN
    [n \in 1..Len(starts) |-> IF n < Len(starts) THEN trimmed(full(n)) ELSE full(n)]

\* convertAnnexBToLengthPrefixed; a unit of nothing is left out.
LengthPrefixed(cells) ==
    Concat(LAMBDA u : IF u = <<>> THEN <<>> ELSE <<Cell("length", Len(u))>> \o u,
           NalUnits(cells))
Stored(track, data) ==
    LET converted == LengthPrefixed(data) IN
    IF Tracks[track].nals /\ converted # <<>> THEN converted ELSE data

\* ParsedH264TrackData: the unit at each length.
Lengths(cells) ==
    LET from[i \in 1..Len(cells) + 1] ==
          IF i > Len(cells) THEN <<>>
          ELSE <<SubSeq(cells, i + 1, i + cells[i].v)>> \o from[i + 1 + cells[i].v] IN
    from[1]
StartCodes(units) == Concat(LAMBDA u : <<Cell("start", 0)>> \o u, units)
IsParameterSet(u) == u[1].k = "parameters"

\* extractData: the parameter sets go before the first frame that lacks them.
Extract(track, first, cells) ==
    LET units == Lengths(cells)
        private == Tracks[track].private IN
    IF ~Tracks[track].nals THEN cells
    ELSE IF first /\ ~\E u \in Range(units) : IsParameterSet(u)
         THEN StartCodes(private \o units) ELSE StartCodes(units)

-----------------------------------------------------------------------------
(* The muxer.                                                              *)

Append2(m, cells) == [m EXCEPT !.disk = @ \o cells]
Patch(m, at, n) == [m EXCEPT !.disk[at + 1].v = n]
Place(m) == Len(m.disk) - m.segment

Pending == [on |-> FALSE, pts |-> 0, key |-> FALSE, data |-> <<>>]
NoCluster == [open |-> FALSE, time |-> 0, place |-> 0, buf |-> <<>>]

\* openDstFile: the size of the segment is not known yet.
OpenFile ==
    LET head == Element("EBML", Element("DocType", <<Cell("text", 0)>>))
                    \o <<Cell("Segment", 0), Cell("size", Unknown)>> IN
    [disk |-> head, segment |-> Len(head), info |-> 0, tracks |-> 0, cuesAt |-> 0,
     duration |-> 0, header |-> FALSE, held |-> <<>>, seen |-> {}, first |-> 0, last |-> 0,
     pending |-> [t \in DOMAIN Tracks |-> Pending], cluster |-> NoCluster, cues |-> <<>>,
     phase |-> "muxing"]

\* writeSegmentInfo and writeTracks.
TrackEntry(t) ==
    Element("TrackEntry",
        Element("TrackNumber", Number(t)) \o Element("TrackType", Number(IF Tracks[t].video THEN 1 ELSE 2))
            \o (IF Tracks[t].private = <<>> THEN <<>>
                ELSE Element("CodecPrivate", LengthPrefixed(StartCodes(Tracks[t].private)))))
WriteDeferredHeader(m) ==
    LET scale == Element("TimecodeScale", Number(1))
        info == Element("Info", scale \o Element("Duration", Number(0)))
        n == Append2([m EXCEPT !.info = Place(m), !.duration = Len(m.disk) + 2 + Len(scale) + 2], info) IN
    Append2([n EXCEPT !.tracks = Place(n), !.header = TRUE],
            Element("Tracks", Concat(TrackEntry, Indices(Tracks))))

\* flushCluster and startCluster.
FlushCluster(m) ==
    IF ~m.cluster.open THEN m
    ELSE [Append2(m, Element("Cluster", m.cluster.buf)) EXCEPT !.cluster.open = FALSE,
                                                                !.cluster.buf = <<>>]

\* A cluster begins, where the one before it has ended.
StartCluster(m, ms) ==
    LET n == FlushCluster(m) IN
    [n EXCEPT !.cluster = [open |-> TRUE, time |-> ms, place |-> Place(n),
                           buf |-> Element("Timecode", Number(ms))]]

\* A time of 16 bits, and division as the program does it.
Wrap(n) == ((n + TimeRange) % (2 * TimeRange)) - TimeRange
Quotient(a, b) == IF a < 0 THEN -((-a) \div b) ELSE a \div b

\* flushPendingFrame.
FlushPendingFrame(m, t) ==
    LET frame == m.pending[t]
        ms == Quotient(frame.pts - m.first, PtsPerMs)
        cue == Tracks[t].video /\ frame.key
        age == ms - m.cluster.time
        fresh == \/ ~m.cluster.open \/ age >= ClusterTime \/ Len(m.cluster.buf) >= ClusterSize
                 \/ cue /\ age >= KeyTime
        n == IF fresh THEN StartCluster(m, ms) ELSE m
        block == Element("SimpleBlock",
                     Number(t) \o Number(Wrap(ms - n.cluster.time))
                        \o <<Cell("flags", IF frame.key THEN 1 ELSE 0)>> \o Stored(t, frame.data)) IN
    IF ~frame.on THEN m
    ELSE [n EXCEPT !.pending[t] = Pending,
                   !.last = IF ms > @ THEN ms ELSE @,
                   !.cues = IF cue THEN Append(@, [time |-> ms, track |-> t, place |-> n.cluster.place])
                            ELSE @,
                   !.cluster.buf = @ \o block]

\* muxPacketInternal: packets of one time are one frame.
MuxInternal(m, p) ==
    LET t == p.track
        n == IF m.pending[t].on /\ m.pending[t].pts # p.pts THEN FlushPendingFrame(m, t) ELSE m
        old == n.pending[t] IN
    [n EXCEPT !.pending[t] =
        IF old.on THEN [old EXCEPT !.key = @ \/ p.key, !.data = @ \o p.data]
        ELSE [on |-> TRUE, pts |-> p.pts, key |-> p.key, data |-> p.data]]

\* replayBufferedPackets.
\* Mutant: the packets are still held.
Replay_Keeps(m) ==
    FoldLeft(MuxInternal, [m EXCEPT !.first = Min({p.pts : p \in Range(m.held)} \cup {0})], m.held)
Replay(m) ==
    IF m.held = <<>> THEN m
    ELSE [FoldLeft(MuxInternal, [m EXCEPT !.first = Min({p.pts : p \in Range(m.held)})], m.held)
            EXCEPT !.held = <<>>]

\* muxPacket: nothing is written until every track has sent something.
MuxPacket(m, p) ==
    LET n == [m EXCEPT !.held = Append(@, p), !.seen = @ \cup {p.track}] IN
    IF m.header THEN MuxInternal(m, p)
    ELSE IF n.seen = DOMAIN Tracks THEN Replay(WriteDeferredHeader(n)) ELSE n

FlushAll(m) == FlushCluster(FoldLeft(FlushPendingFrame, m, Indices(Tracks)))

WriteCues(m) ==
    LET Point(cue) ==
          Element("CuePoint", Element("CueTime", Number(cue.time))
              \o Element("CueTrackPositions", Element("CueTrack", Number(cue.track))
                    \o Element("CueClusterPosition", Number(cue.place)))) IN
    IF m.cues = <<>> THEN m
    ELSE Append2([m EXCEPT !.cuesAt = Place(m)], Element("Cues", Concat(Point, m.cues)))
WriteSeekHead(m) ==
    LET Seek(item) == Element("Seek", Element("SeekID", <<Cell(item.id, 0)>>)
                                        \o Element("SeekPosition", Number(item.place)))
        items == <<[id |-> "Info", place |-> m.info], [id |-> "Tracks", place |-> m.tracks]>>
                    \o (IF m.cuesAt > 0 THEN <<[id |-> "Cues", place |-> m.cuesAt]>> ELSE <<>>) IN
    Append2(m, Element("SeekHead", Concat(Seek, items)))

\* close: what is missing, the tables, the size of the segment and the duration.
Sized(m) == Patch(m, m.segment - 1, Place(m))
Timed(m) == IF m.last > 0 THEN Patch(m, m.duration, m.last) ELSE m
CloseFile(m) ==
    Timed(Sized(WriteSeekHead(WriteCues(FlushAll(IF m.header THEN m ELSE Replay(WriteDeferredHeader(m)))))))

-----------------------------------------------------------------------------
(* The demuxer.  d is its state: the place in the file, the id that was    *)
(* peeked, the ends of the elements it is in (levels), the loops it is in  *)
(* (within), and what it has learned; Reader does one turn of the          *)
(* innermost loop.                                                         *)

NoTime == -TimeRange * TimeRange    \* AV_NOPTS_VALUE

NoGroup == [body |-> <<>>, duration |-> 0, key |-> TRUE]

\* openFile; the tables that a muxer of another program may have put first are
\* read by the same loops.
File == mux.muxer.disk
OpenReader ==
    [pos |-> 0, peek |-> "", levels |-> <<>>, within |-> <<"file">>,
     tracks |-> <<>>, cluster |-> 0, group |-> NoGroup, out |-> <<>>, fresh |-> DOMAIN Tracks,
     status |-> "reading"]

Inner(d) == Last(d.within)

\* ebml_read_num: a size.  get_byte after the end gives 0.
SizeAt(d) == IF d.pos < Len(File) THEN File[d.pos + 1].v ELSE 0

\* ebml_read_element_id and ebml_read_element_level_up: the elements that end
\* before this id are left, and with each of them its loop (level_up).
Peek(d) ==
    LET pos == d.pos + 1
        kept == Max({0} \cup {k \in 1..Len(d.levels) : pos < d.levels[k]}) IN
    IF d.peek # "" THEN d
    ELSE IF d.pos >= Len(File) THEN [d EXCEPT !.status = "end"]
    ELSE [d EXCEPT !.pos = pos, !.peek = File[pos].k, !.levels = SubSeq(@, 1, kept),
                   !.within = SubSeq(@, 1, Max({1, Len(@) - (Len(d.levels) - kept)}))]

\* ebml_read_skip, ebml_read_binary and ebml_read_master.
Skip(d) == [d EXCEPT !.pos = @ + 1 + SizeAt(d), !.peek = ""]
Body(d) == SubSeq(File, d.pos + 2, d.pos + 1 + SizeAt(d))
Enter(d) ==
    IF Len(d.levels) >= MaxDepth THEN [d EXCEPT !.status = "depth"]
    ELSE [d EXCEPT !.pos = @ + 1, !.peek = "", !.within = Append(@, d.peek),
                   !.levels = Append(@, d.pos + 1 + SizeAt(d))]
Value(d) == Body(d)[1].v

-----------------------------------------------------------------------------
(* matroska_parse_block.                                                   *)

\* The sizes of the frames of a lace, and the cells before the first.
XiphSizes(body, laces) ==
    LET ends == SelectSeq(Indices(body), LAMBDA i : body[i].v < LaceMax)
        sum[i \in 0..Len(body)] == IF i = 0 THEN 0 ELSE sum[i - 1] + body[i].v
        until(n) == IF n = 0 THEN 0 ELSE ends[n] IN
    [sizes |-> [n \in 1..laces - 1 |-> sum[until(n)] - sum[until(n - 1)]], used |-> until(laces - 1)]
EbmlSizes(body, laces) ==
    LET size[n \in 1..laces] == IF n = 1 THEN body[1].v ELSE size[n - 1] + body[n].v IN
    [sizes |-> [n \in 1..laces - 1 |-> size[n]], used |-> IF laces > 1 THEN laces - 1 ELSE 1]

\* What follows the flags: one frame, or the number of frames less one and they.
LaceFrames(lacing, body) ==
    LET laces == body[1].v + 1
        rest == Tail(body)
        lace == IF lacing = 1 THEN XiphSizes(rest, laces) ELSE EbmlSizes(rest, laces)
        data == SubSeq(rest, lace.used + 1, Len(rest))
        total == FoldLeft(+, 0, lace.sizes)
        sizes == Append(lace.sizes, Len(data) - total)
        start[n \in 1..laces + 1] == IF n = 1 THEN 0 ELSE start[n - 1] + sizes[n - 1]
        each == Len(rest) \div laces IN
    IF lacing = 0 THEN <<body>>
    ELSE IF lacing = 2 THEN [n \in 1..laces |-> SubSeq(rest, (n - 1) * each + 1, n * each)]
    ELSE [n \in 1..laces |-> SubSeq(data, start[n] + 1, start[n + 1])]

\* Mutant: a time before its cluster's is no time.
BlockTime_Forward(cluster, time) == IF time >= 0 THEN cluster + time ELSE NoTime
BlockTime(cluster, time) ==
    IF cluster # -1 /\ (time >= 0 \/ cluster >= -time) THEN cluster + time ELSE NoTime

StripHeaders == 3

\* A block of a track that is not known, or too short, is dropped, and so is one
\* of a track with stripped headers: the check that the stripped bytes fit ahead
\* of the frame compares their number with the offset of a slice, which is 0.
ParseBlock(d, body, key, duration) ==
    LET track == SelectSeq(Indices(d.tracks), LAMBDA i : d.tracks[i].num = body[1].v)
        t == track[1]
        flags == body[3].v
        frames == LaceFrames(flags \div 2, SubSeq(body, 4, Len(body)))
        time == BlockTime(d.cluster, body[2].v)
        frame(n) ==
            [track |-> t, cluster |-> d.cluster, key |-> n = 1 /\ (key \/ flags % 2 = 1),
             time |-> IF n = 1 \/ time = NoTime THEN time
                      ELSE IF duration > 0 THEN time + (n - 1) * duration ELSE NoTime,
             data |-> Extract(t, n = 1 /\ t \in d.fresh, frames[n])] IN
    IF track = <<>> \/ Len(body) <= 3 THEN d
    ELSE IF d.tracks[t].algo = StripHeaders /\ d.tracks[t].stripped # <<>> THEN d
    ELSE [d EXCEPT !.out = @ \o [n \in 1..Len(frames) |-> frame(n)], !.fresh = @ \ {t}]

\* matroska_parse_blockgroup: the group's elements first, then its block.  A
\* reference says that the block is no key frame.
GroupElement(d) ==
    LET group == CASE d.peek = "Block" -> [d.group EXCEPT !.body = Body(d)]
                   [] d.peek = "BlockDuration" -> [d.group EXCEPT !.duration = Value(d)]
                   [] d.peek = "BlockReference" -> [d.group EXCEPT !.key = FALSE]
                   [] OTHER -> d.group IN
    Skip([d EXCEPT !.group = group])
EndGroup(d) ==
    LET n == ParseBlock(d, d.group.body, d.group.key, d.group.duration) IN
    IF d.group.body = <<>> THEN [d EXCEPT !.group = NoGroup] ELSE [n EXCEPT !.group = NoGroup]

-----------------------------------------------------------------------------
(* The loops: readPacket, matroska_read_header, matroska_parse_info,       *)
(* _tracks and _index, matroska_add_stream, matroska_parse_cluster.        *)

Masters ==
    [file |-> {"EBML", "Segment"}, EBML |-> {}, Segment |-> {"Info", "Tracks", "Cues"},
     Info |-> {}, Tracks |-> {"TrackEntry"}, TrackEntry |-> {"ContentEncodings"},
     ContentEncodings |-> {"ContentEncoding"}, ContentEncoding |-> {"ContentCompression"},
     ContentCompression |-> {}, Cues |-> {"CuePoint"}, CuePoint |-> {"CueTrackPositions"},
     CueTrackPositions |-> {}, packets |-> {"Cluster", "EBML"}, Cluster |-> {"BlockGroup"},
     BlockGroup |-> {}]

\* The elements with a value that is kept.  (What the Cues say is kept by the
\* code, and used by nothing.)
Learn(d) ==
    LET id == d.peek  t == Len(d.tracks) IN
    CASE id = "TrackNumber" -> [d EXCEPT !.tracks[t].num = Value(d)]
      [] id = "ContentCompAlgo" -> [d EXCEPT !.tracks[t].algo = Value(d)]
      [] id = "ContentCompSettings" -> [d EXCEPT !.tracks[t].stripped = Body(d)]
      [] id = "Timecode" -> [d EXCEPT !.cluster = Value(d)]
      [] id = "SimpleBlock" -> ParseBlock(d, Body(d), FALSE, -1)
      [] OTHER -> d

\* One turn.  The header ends at the first cluster, which the next loop reads;
\* a cluster within a cluster goes back to that loop.
Handle(d) ==
    LET id == d.peek  loop == Inner(d) IN
    IF loop = "BlockGroup" THEN GroupElement(d)
    ELSE IF loop = "Segment" /\ id = "Cluster" THEN [d EXCEPT !.within = <<"packets">>]
    ELSE IF loop = "Cluster" /\ id = "Cluster" THEN [d EXCEPT !.within = Front(@)]
    ELSE IF loop = "packets" /\ id = "EBML" THEN [d EXCEPT !.within = <<"file">>, !.tracks = <<>>]
    ELSE IF id \in Masters[loop]
    THEN IF id = "Cluster" THEN [Enter(d) EXCEPT !.cluster = 0]
         ELSE IF id = "BlockGroup" THEN [Enter(d) EXCEPT !.group = NoGroup]
         ELSE IF id = "TrackEntry"
         THEN [Enter(d) EXCEPT !.tracks = Append(@, [num |-> 0, algo |-> -1, stripped |-> <<>>])]
         ELSE IF id = "Segment" THEN [Enter(d) EXCEPT !.within = <<"packets", "Segment">>]
         ELSE Enter(d)
    ELSE Skip(Learn(d))

\* A group that has ended is parsed before the loops around it go on.
Turn(d) ==
    LET p == Peek(d)
        q == IF Inner(d) = "BlockGroup" /\ Inner(p) # "BlockGroup" THEN EndGroup(p) ELSE p IN
    IF p.status = "end" THEN p ELSE Handle(q)

-----------------------------------------------------------------------------
(* A film is muxed, then the file is closed and read.  A film of another   *)
(* program is read only.                                                   *)

Own == options.file = <<>>

Init ==
    /\ options \in Films
    /\ mux = [muxer |-> [OpenFile EXCEPT !.disk = IF Own THEN @ ELSE options.file],
              reader |-> OpenReader, phase |-> IF Own THEN "muxing" ELSE "closed"]
    /\ fed = <<>>

OfTrack(frames, t) == SelectSeq(frames, LAMBDA f : f.track = t)
LastPts(t) == LET mine == OfTrack(fed, t) IN IF mine = <<>> THEN 0 ELSE Last(mine).pts

\* Packets of one time are parts of one frame.
Feed(p) ==
    LET mine == SelectSeq(Indices(fed), LAMBDA i : fed[i].track = p.track) IN
    IF mine # <<>> /\ fed[Last(mine)].pts = p.pts
    THEN [fed EXCEPT ![Last(mine)].data = @ \o p.data, ![Last(mine)].key = @ \/ p.key,
                     ![Last(mine)].packets = @ + 1]
    ELSE Append(fed, p)

Packets == FoldLeft(LAMBDA n, f : n + f.packets, 0, fed)

Packet ==
    /\ mux.phase = "muxing" /\ Packets < options.packets
    /\ \E t \in DOMAIN Tracks, step \in options.steps, key \in BOOLEAN :
       \E payload \in Tracks[t].payloads :
         LET data == [i \in DOMAIN payload |-> Cell(payload[i], Packets)]
             p == [track |-> t, pts |-> LastPts(t) + step, key |-> key, data |-> data, packets |-> 1] IN
         /\ key => Tracks[t].video
         /\ mux' = [mux EXCEPT !.muxer = MuxPacket(@, p)]
         /\ fed' = Feed(p)
    /\ UNCHANGED options

\* doFlush and close.
Close ==
    /\ mux.phase = "muxing"
    /\ mux' = [mux EXCEPT !.muxer = CloseFile(FlushAll(@)), !.phase = "closed"]
    /\ UNCHANGED <<options, fed>>

\* A turn of the demuxer, to the end of the file.
Read ==
    /\ mux.phase = "closed"
    /\ LET d == Turn(mux.reader) IN
       mux' = [mux EXCEPT !.reader = d, !.phase = IF d.status = "reading" THEN @ ELSE "read"]
    /\ UNCHANGED <<options, fed>>

Next == Packet \/ Close \/ Read \/ (mux.phase = "read" /\ UNCHANGED vars)
Spec == Init /\ [][Next]_vars

-----------------------------------------------------------------------------
(* Properties.                                                             *)

TypeOK ==
    /\ mux.phase \in {"muxing", "closed", "read"}
    /\ \A t \in DOMAIN Tracks : mux.muxer.pending[t].on => mux.muxer.header
    /\ mux.muxer.header => mux.muxer.held = <<>>
    /\ mux.reader.status \in {"reading", "end", "depth"}

\* The time of a frame in ms, from the least time of the packets that were held.
TimeOf(f) == Quotient(f.pts - mux.muxer.first, PtsPerMs)

\* The data of a frame without the zeros ahead of start codes, and with the
\* parameter sets that the first frame may lack.
WithoutZeros(cells) ==
    SelectSeq([i \in DOMAIN cells |->
                 IF \E j \in i..Len(cells) : IsStart(cells[j]) /\ \A k \in i..j - 1 : IsZero(cells[k])
                 THEN [cells[i] EXCEPT !.k = IF @ = "zero" THEN "" ELSE @] ELSE cells[i]],
              LAMBDA c : c.k # "")
Plain(cells) == [i \in DOMAIN cells |-> IF IsStart(cells[i]) THEN Cell("start", 0) ELSE cells[i]]
Expected(f, n) ==
    LET data == Plain(WithoutZeros(f.data)) IN
    IF Tracks[f.track].nals /\ n = 1 /\ ~\E i \in DOMAIN data : data[i].k = "parameters"
    THEN StartCodes(Tracks[f.track].private) \o data ELSE data

\* The demuxer reads from a finished file the frames that were muxed: every frame
\* once, in its track's order, with its data and its key flag, and with its time
\* unless that is before the first or does not fit in the block (packets with one
\* time, clusters, the numbers, sizes and levels of elements, start codes and
\* lengths).
FramesReadBack ==
    Own /\ mux.phase = "read" =>
      \A t \in DOMAIN Tracks :
        LET muxed == OfTrack(fed, t)  frames == OfTrack(mux.reader.out, t) IN
        /\ Len(frames) = Len(muxed)
        /\ \A n \in 1..Len(muxed) :
             LET time == TimeOf(muxed[n]) IN
             /\ frames[n].data = Expected(muxed[n], n)
             /\ frames[n].key = muxed[n].key
             /\ time >= 0 /\ time - frames[n].cluster \in -TimeRange..TimeRange - 1
                  => frames[n].time = time

\* The elements from one place to another of a file.
ElementsIn(file, from, to) ==
    LET at[p \in from..to] ==
          IF p = to THEN <<>>
          ELSE <<[id |-> file[p + 1].k, place |-> p, from |-> p + 2, to |-> p + 2 + file[p + 2].v]>>
                  \o at[p + 2 + file[p + 2].v] IN
    at[from]
Inside(file, e, ids) == SelectSeq(ElementsIn(file, e.from, e.to), LAMBDA x : x.id \in ids)
NumberIn(file, e, id) == file[Inside(file, e, {id})[1].from + 1].v

\* What a finished file says of places and times is true: the size of the segment
\* reaches to the end, SeekHead names the elements at their places, Cues has every
\* key frame with its cluster, which has the frame, and the duration is the time
\* of the last frame.
TablesTrue ==
    Own /\ mux.phase = "read" =>
      LET file == mux.muxer.disk
          segment == mux.muxer.segment
          end == segment + file[segment].v
          all == ElementsIn(file, segment, end)
          Only(id) == SelectSeq(all, LAMBDA e : e.id = id)
          At(place) == SelectSeq(all, LAMBDA e : e.place = segment + place)
          times == {TimeOf(fed[i]) : i \in DOMAIN fed}
          keys == SelectSeq(fed, LAMBDA f : f.key /\ Tracks[f.track].video) IN
      /\ end = Len(file)
      /\ \A seek \in Range(Inside(file, Only("SeekHead")[1], {"Seek"})) :
           /\ At(NumberIn(file, seek, "SeekPosition")) # <<>>
           /\ At(NumberIn(file, seek, "SeekPosition"))[1].id
                = file[Inside(file, seek, {"SeekID"})[1].from + 1].k
      /\ Len(Only("Cues")) = (IF keys = <<>> THEN 0 ELSE 1)
      /\ keys # <<>> =>
           LET points == Inside(file, Only("Cues")[1], {"CuePoint"}) IN
           /\ Len(points) = Len(keys)
           /\ \A point \in Range(points) :
                LET track == Inside(file, point, {"CueTrackPositions"})[1]
                    cluster == At(NumberIn(file, track, "CueClusterPosition"))
                    time == NumberIn(file, point, "CueTime") IN
                /\ cluster # <<>> /\ cluster[1].id = "Cluster"
                /\ \E block \in Range(Inside(file, cluster[1], {"SimpleBlock"})) :
                     /\ file[block.from + 1].v = NumberIn(file, track, "CueTrack")
                     /\ file[block.from + 3].v = 1
                     /\ Wrap(time - NumberIn(file, cluster[1], "Timecode")) = file[block.from + 2].v
      /\ NumberIn(file, Only("Info")[1], "Duration") = Max(times \cup {0})

\* The demuxer reads the frames of files that other programs made: groups with
\* references and durations, laces of every kind, elements it does not know,
\* clusters that follow one another without their sizes.
ForeignRead ==
    ~Own /\ mux.phase = "read" =>
      [i \in DOMAIN mux.reader.out |->
          LET f == mux.reader.out[i] IN
          [track |-> f.track, time |-> f.time, key |-> f.key, data |-> f.data]] = options.frames

\* Films are read: those that were muxed and those that other programs made.
FilmsReadBack == FramesReadBack /\ ForeignRead
=============================================================================
