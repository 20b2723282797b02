------------------------------- MODULE MovDemuxer -------------------------------
(***************************************************************************)
(* The demuxer of MOV and MP4 (movDemuxer.cpp): atoms are read until the   *)
(* data and the tables, or the last fragment, are known; the chunks of all *)
(* tracks are then read in the order they lie in the file, and each is     *)
(* turned into what the track's stream has in a transport stream.          *)
(*                                                                         *)
(* A file is a sequence of cells.  An atom begins with a cell              *)
(*   [k |-> "atom", type, len, kids, ...]                                  *)
(* that also has what is inside it, and len cells follow; in the data:     *)
(*   [k |-> "len", n]   the first cell of the length of a unit or a text   *)
(*   [k |-> "styl", runs |-> <<[from, to, face], ...>>]   faces of a text  *)
(*   [k |-> "data", n]  and anything else                                  *)
(***************************************************************************)
EXTENDS Integers, Sequences, FiniteSets, SequencesExt, TLC

CONSTANTS
    Movies,     \* [files, size of blocks, accepted tracks, and what comes out of them]
    StartLen,   \* the length of a start code
    AdtsLen,    \* AAC_HEADER_LEN
    Least,      \* what is left of a chunk of sound and is no frame
    PerSecond   \* the unit of times that are read

MovieAssumption ==
    /\ StartLen \in Nat \ {0} /\ AdtsLen \in Nat \ {0} /\ PerSecond \in Nat \ {0} /\ Least \in Nat
    /\ \A m \in Movies : m.block \in Nat \ {0} /\ m.files # <<>>

VARIABLES options, mux, fed
vars == <<options, mux, fed>>

None == 0
Smaller(a, b) == IF a < b THEN a ELSE b
Larger(a, b) == IF a > b THEN a ELSE b
InUnits(dur, scale) == (dur * PerSecond) \div scale
Cells(s) == options.files[s.file]

-----------------------------------------------------------------------------
(* The tables.                                                             *)

NewTrack ==
    [kind |-> "raw", video |-> FALSE, scale |-> 1, stts |-> <<>>, size |-> 0, index |-> <<>>, cur |-> 1,
     offsets |-> <<>>, entry |-> 0, lenSize |-> StartLen, sets |-> <<>>, sttsPos |-> 0, sttsCnt |-> 0,
     cues |-> 0, time |-> 0]
Newest(s) == Len(s.tracks)
WithTrack(s, track) == [s EXCEPT !.tracks[Newest(s)] = track]
Failed(s) == [s EXCEPT !.err = TRUE]

\* setPrivData, by a box or a descriptor: a length of 1 to 4 and the parameter sets;
\* a text begins with its first time.
SetPrivData(track, a) ==
    CASE track.kind = "nals" -> [track EXCEPT !.lenSize = a.lenSize, !.sets = a.sets]
      [] track.kind = "text" -> [track EXCEPT !.sttsPos = 0, !.sttsCnt = 0]
      [] OTHER -> track

\* stsd: the kind of a track by its format.
Formats ==
    [avc1 |-> "nals", hvc1 |-> "nals", av01 |-> "obus", mp4a |-> "aac", ac3 |-> "sound",
     tx3g |-> "text", tmcd |-> "control"]
StsdEntry(track, n, e) ==
    LET kind == IF e.format \in DOMAIN Formats THEN Formats[e.format] ELSE "raw"
        kept == [track EXCEPT !.kind = kind, !.video = kind \in {"nals", "obus"}, !.entry = n] IN
    IF kind = "text" THEN SetPrivData(kept, e) ELSE kept

\* Any sample has one size, or each its own.
ReadStsz(track, a) ==
    IF a.size # 0 THEN [track EXCEPT !.size = a.size] ELSE [track EXCEPT !.size = 0, !.index = @ \o a.sizes]

\* elst: an empty edit is the delay of the track.
ReadElst(s, a) ==
    FoldLeft(LAMBDA t, e : IF e.time = -1
                           THEN [t EXCEPT !.times = (Newest(s) :> InUnits(e.dur, s.scale)) @@ @] ELSE t,
             s, a.edits)

ReadTfhd(s, a) ==
    LET known == SelectSeq(s.trex, LAMBDA t : t.track = a.track) IN
    IF a.track \notin DOMAIN s.tracks \/ known = <<>> THEN Failed(s)
    ELSE [s EXCEPT !.frag.track = a.track,
                   !.frag.base = IF a.base # None THEN a.base ELSE s.frag.moof,
                   !.frag.entry = known[1].entry]

\* trun: one chunk, from where the fragment's data begin.
ReadTrun(s, a) ==
    CASE s.frag.track \notin DOMAIN s.tracks -> Failed(s)
      [] s.frag.track \in DOMAIN s.tracks /\ s.tracks[s.frag.track].entry = s.frag.entry ->
            [s EXCEPT !.tracks[s.frag.track].offsets = Append(@, s.frag.base + a.offset),
                      !.frag.moof = s.frag.base + a.offset + a.size]
      [] OTHER -> s

\* mdat, where the data are found: the first one counts, unless there are fragments.
ReadMdat(s, at, len) ==
    IF len = 0 THEN s
    ELSE [s EXCEPT !.mdatPos = IF @ = None THEN at ELSE @,
                   !.mdatSize = IF s.mdatPos = None THEN len ELSE @,
                   !.mdats = Append(@, len)]

\* ParseTableEntry of an atom without atoms in it, whose content begins at at.
ReadLeaf(s, a, at) ==
    LET track == s.tracks[Newest(s)] IN
    CASE a.type = "mdat" -> ReadMdat(s, at, a.len)
      [] a.type = "wide" /\ a.len > 0 /\ a.mdat -> ReadMdat(s, at + 1, a.len - 1)
      [] a.type = "mvhd" -> [s EXCEPT !.scale = a.scale, !.dur = InUnits(a.dur, a.scale)]
      [] a.type = "trex" -> [s EXCEPT !.trex = Append(@, [track |-> a.track, entry |-> a.entry])]
      [] a.type = "elst" -> ReadElst(s, a)
      [] a.type = "tfhd" -> ReadTfhd(s, a)
      [] a.type = "trun" -> ReadTrun(s, a)
      [] a.type = "mdhd" ->
            IF s.tracks = <<>> THEN Failed(s)
            ELSE WithTrack([s EXCEPT !.dur = Larger(@, InUnits(a.dur, a.scale))],
                           [track EXCEPT !.scale = a.scale])
      [] a.type = "stts" -> WithTrack(s, [track EXCEPT !.stts = a.entries])
      [] a.type = "stsz" -> WithTrack(s, ReadStsz(track, a))
      [] a.type \in {"stco", "co64"} -> WithTrack(s, [track EXCEPT !.offsets = @ \o a.offsets])
      [] a.type = "glbl" -> WithTrack(s, SetPrivData(track, a))
      [] a.type = "esds" ->
            WithTrack(s, [track EXCEPT !.kind = IF @ # "aac" THEN @ ELSE IF a.aac THEN "aac" ELSE "sound"])
      [] a.type = "cmov" -> Failed(s)
      [] OTHER -> s

\* mov_read_default inside another atom, and the atoms that have more to do than that.
RECURSIVE ReadAtom(_, _, _)
ReadKids(s, a, at) == FoldLeft(LAMBDA t, kid : IF t.err THEN t ELSE ReadAtom(t, kid, at), s, a.kids)
ReadStsd(s, a, at) ==
    IF s.tracks = <<>> THEN Failed(s)
    ELSE FoldLeft(LAMBDA t, n : IF t.err THEN t
                                ELSE ReadKids(WithTrack(t, StsdEntry(t.tracks[Newest(t)], n, a.entries[n])), a.entries[n], at),
                  s, [n \in DOMAIN a.entries |-> n])
ReadAtom(s, a, at) ==
    CASE a.type = "moov" -> LET read == ReadKids(s, a, at) IN [read EXCEPT !.moov = @ \/ ~read.err]
      [] a.type = "moof" -> ReadKids([s EXCEPT !.moof = TRUE, !.frag.moof = at - 1], a, at)
      [] a.type = "trak" -> ReadKids([s EXCEPT !.tracks = Append(@, NewTrack)], a, at)
      [] a.type \in {"edts", "mdia", "minf", "mvex", "stbl", "traf", "wave"} -> ReadKids(s, a, at)
      [] a.type = "stsd" -> ReadStsd(s, a, at)
      [] OTHER -> ReadLeaf(s, a, at)

\* mov_read_default on the file itself: an atom after the other, until the data and the
\* tables have been seen or the last atom of fragments begins.
TopAtom(s) ==
    LET a == Cells(s)[s.pos + 1]
        at == s.pos + 1
        end == at + a.len
        read == ReadAtom([s EXCEPT !.pos = IF a.type \in {"moov", "moof"} THEN at + a.len ELSE at], a, at)
        stop(t) == (~t.moof /\ t.mdatPos # None /\ t.moov) \/ (t.moof /\ end >= Len(Cells(s)))
        passed(t) == IF stop(t) THEN [t EXCEPT !.stopped = TRUE] ELSE [t EXCEPT !.pos = Smaller(end, Len(Cells(s)))] IN
    CASE s.eof \/ s.err \/ s.stopped -> s
      [] ~(s.eof \/ s.err \/ s.stopped) /\ s.pos >= Len(Cells(s)) -> [s EXCEPT !.eof = TRUE, !.lastEof = TRUE]
      [] OTHER -> passed(read)
\* As often as there are atoms, and once more at the end of the file.
ReadTop(s) ==
    FoldLeft(LAMBDA t, n : TopAtom(t), s, Append(SelectSeq(Cells(s), LAMBDA c : c.k = "atom"), "end"))

ReadHeaders(s) ==
    LET read == ReadTop([s EXCEPT !.mdatPos = None, !.stopped = FALSE]) IN [read EXCEPT !.failed = read.err \/ ~read.moov]

\* buildIndex: the chunks of all tracks, as they lie in the file.
BuildIndex(s) ==
    LET every == UNION {{<<o, i>> : o \in ToSet(s.tracks[i].offsets)} : i \in DOMAIN s.tracks}
        inside == s.moof \/ \A c \in every : c[1] \in s.mdatPos..(s.mdatPos + s.mdatSize)
        before(c) == {d \in every : d[1] < c[1] \/ (d[1] = c[1] /\ d[2] < c[2])}
        sorted == [n \in 1..Cardinality(every) |-> CHOOSE c \in every : Cardinality(before(c)) = n - 1] IN
    CASE s.failed -> s
      [] ~s.failed /\ Len(s.tracks) = 1 /\ every = {} -> [s EXCEPT !.cur = 1, !.chunks = <<[first |-> 0, track |-> 1]>>]
      [] ~s.failed /\ (Len(s.tracks) # 1 \/ every # {}) /\ ~inside -> [s EXCEPT !.failed = TRUE]
      [] OTHER -> [s EXCEPT !.cur = 1,
                            !.chunks = [n \in DOMAIN sorted |-> [first |-> sorted[n][1] - s.mdatPos, track |-> sorted[n][2]]]]

\* url_fseek to the data.
ToData(s) == IF s.mdatPos # None /\ s.pos # s.mdatPos THEN [s EXCEPT !.pos = s.mdatPos, !.eof = FALSE] ELSE s

\* openFile: the tables of a file; what mdats, times and trex hold of the one before stays.
OpenFile(s, file) ==
    LET begun == [s EXCEPT !.file = file, !.moov = FALSE, !.moof = FALSE, !.mdatPos = None, !.dur = 0, !.cur = 1,
                           !.first = TRUE, !.pos = 0, !.eof = FALSE, !.tracks = <<>>]
        step(t, what) ==
            CASE what = "headers" -> ReadHeaders(t)
              [] what = "data" -> ToData(t)
              [] what = "index" -> BuildIndex(t)
              [] what = "size" -> [t EXCEPT !.header = t.pos] IN
    FoldLeft(step, begun, <<"headers", "data", "index", "size">>)

-----------------------------------------------------------------------------
(* A chunk.                                                                *)

Copies(cell, n) == [i \in 1..n |-> cell]
StartCode == Copies([k |-> "start"], StartLen)
Adts(n) == Copies([k |-> "adts", n |-> n + AdtsLen], AdtsLen)

\* Units with a length in front, which becomes a start code; the sets go first, once.
RECURSIVE Units(_, _)
Units(buf, lenSize) ==
    IF buf = <<>> THEN <<>>
    ELSE <<SubSeq(buf, lenSize + 1, lenSize + buf[1].n)>>
            \o Units(SubSeq(buf, lenSize + buf[1].n + 1, Len(buf)), lenSize)
Started(units) == FlattenSeq([i \in DOMAIN units |-> StartCode \o units[i]])
ExtractUnits(track, buf) ==
    [out |-> Started(track.sets) \o Started(Units(buf, track.lenSize)), track |-> [track EXCEPT !.sets = <<>>]]
UnitsSize(track, buf) ==
    Len(buf) + Len(Started(track.sets)) + Len(Units(buf, track.lenSize)) * (StartLen - track.lenSize)

\* Frames of sound, with a header in front of each if they have none.
FrameSize(track, i) == IF track.size # 0 THEN track.size ELSE track.index[track.cur + i]
RECURSIVE FrameCount(_, _, _)
FrameCount(track, left, i) ==
    IF left <= Least THEN [i |-> i, left |-> left]
    ELSE FrameCount(track, left - FrameSize(track, i), i + 1)
RECURSIVE ExtractFrames(_, _)
ExtractFrames(track, buf) ==
    LET size == FrameSize(track, 0)
        next == IF track.size = 0 THEN [track EXCEPT !.cur = @ + 1] ELSE track
        rest == ExtractFrames(next, SubSeq(buf, size + 1, Len(buf)))
        header == IF track.kind = "aac" THEN Adts(size) ELSE <<>> IN
    CASE Len(buf) <= Least -> [out |-> <<>>, track |-> track]
      [] Len(buf) > Least /\ size > Len(buf) -> [out |-> <<>>, track |-> next]
      [] OTHER -> [rest EXCEPT !.out = header \o SubSeq(buf, 1, size) \o @]
FramesSize(track, buf) ==
    LET count == FrameCount(track, Len(buf), 0) IN
    Len(buf) - count.left + (IF track.kind = "aac" THEN count.i * AdtsLen ELSE 0)

\* A text: its time is the sum of those of the samples before it, its faces are tags
\* that are put in from the last to the first.
TextTime(track) ==
    LET fresh == track.sttsCnt = 0
        pos == IF fresh THEN track.sttsPos + 1 ELSE track.sttsPos
        count == IF fresh THEN track.stts[pos].count ELSE track.sttsCnt IN
    [track EXCEPT !.sttsPos = pos, !.sttsCnt = count - 1,
                  !.time = @ + InUnits(track.stts[pos].dur, track.scale)]
TagsOf(runs) ==
    {[at |-> r.from, open |-> TRUE, face |-> r.face] : r \in {x \in ToSet(runs) : x.from < x.to}}
    \cup {[at |-> r.to, open |-> FALSE, face |-> r.face] : r \in {x \in ToSet(runs) : x.from < x.to}}
Later(a, b) == a.at > b.at \/ (a.at = b.at /\ a.open /\ ~b.open)
Tagged(text, runs) ==
    FoldLeft(LAMBDA t, tag : InsertAt(t, tag.at + 1, [k |-> IF tag.open THEN "open" ELSE "close", face |-> tag.face]),
             text, SetToSortSeq(TagsOf(runs), Later))
RECURSIVE TextOf(_)
TextOf(buf) == IF buf[1].n = 0 THEN TextOf(SubSeq(buf, 3, Len(buf))) ELSE SubSeq(buf, 3, 2 + buf[1].n)
RunsOf(buf) == FlattenSeq([i \in DOMAIN buf |-> IF buf[i].k = "styl" THEN buf[i].runs ELSE <<>>])
Cue(n, from, to, text) ==
    <<[k |-> "cue", n |-> n, from |-> from, to |-> to]>> \o text \o Copies([k |-> "newline"], 2)
ExtractText(track, buf) ==
    LET timed == TextTime(track) IN
    IF Len(buf) <= 2 THEN [out |-> <<>>, track |-> timed]
    ELSE [out |-> Cue(track.cues + 1, track.time, timed.time, Tagged(TextOf(buf), RunsOf(buf))),
          track |-> [timed EXCEPT !.cues = @ + 1]]
TextSize(buf) ==
    IF Len(buf) <= 2 THEN 0
    ELSE 1 + Len(TextOf(buf)) + 2 + 2 * Len(SelectSeq(RunsOf(buf), LAMBDA r : r.from < r.to))

\* extractData and newBufferSize: obus have no size and are dropped.
Extract(track, buf) ==
    CASE track.kind = "nals" -> ExtractUnits(track, buf)
      [] track.kind \in {"aac", "sound"} -> ExtractFrames(track, buf)
      [] track.kind = "text" -> ExtractText(track, buf)
      [] track.kind = "obus" -> [out |-> <<>>, track |-> track]
      [] OTHER -> [out |-> buf, track |-> track]
NewBufferSize(track, buf) ==
    CASE track.kind = "nals" -> UnitsSize(track, buf)
      [] track.kind \in {"aac", "sound"} -> FramesSize(track, buf)
      [] track.kind = "text" -> TextSize(buf)
      [] track.kind = "obus" -> 0
      [] OTHER -> Len(buf)

-----------------------------------------------------------------------------
(* Blocks.                                                                 *)

Skip(s, n) == [s EXCEPT !.pos = Smaller(@ + n, Larger(@, Len(Cells(s))))]

\* What is read of a chunk; nothing at the end of the file, where the block ends.
Given(s, i, size, read, got, n) ==
    [s EXCEPT !.pos = @ + read, !.tracks[i] = got.track, !.out[i] = @ \o got.out,
              !.discarded = @ + size - n, !.exact = @ /\ Len(got.out) = n]
Deliver(s, i, size, buf) ==
    IF buf = <<>> THEN [s EXCEPT !.halted = TRUE]
    ELSE Given(s, i, size, Len(buf), Extract(s.tracks[i], buf), NewBufferSize(s.tracks[i], buf))
Delivered(s, i, size) ==
    Deliver(s, i, size, SubSeq(Cells(s), s.pos + 1, Smaller(s.pos + size, Len(Cells(s)))))

\* The last chunk goes to the end of the data, and the next call looks for headers again.
NextChunk(s, gap) == IF s.halted THEN s ELSE [Skip(s, gap) EXCEPT !.cur = @ + 1]
ChunkOf(s, track, size, gap) ==
    NextChunk(CASE track \notin options.accepted -> [Skip(s, size) EXCEPT !.discarded = @ + size]
                [] track \in options.accepted /\ size = 0 -> s
                [] OTHER -> Delivered(s, track, size), gap)
Chunk(s) ==
    LET last == s.cur = Len(s.chunks)
        first == s.chunks[s.cur].first
        next == IF last THEN s.mdatSize ELSE s.chunks[s.cur + 1].first
        size == IF s.moof THEN s.mdats[s.cur] ELSE next - first
        begun == IF last THEN [s EXCEPT !.first = TRUE, !.mdatPos = None] ELSE s IN
    ChunkOf(begun, s.chunks[s.cur].track, size, IF s.moof /\ ~last THEN next - first - size ELSE 0)
RECURSIVE Chunks(_, _)
Chunks(s, start) ==
    IF s.halted \/ s.pos - start >= options.block \/ s.cur > Len(s.chunks) THEN s ELSE Chunks(Chunk(s), start)

ToFirst(s) ==
    LET first == IF s.chunks = <<>> THEN 0 ELSE s.chunks[s.cur].first IN
    [Skip(s, first) EXCEPT !.discarded = @ + s.mdatPos - s.from + first]
NextFile(s) ==
    IF s.file < Len(options.files) THEN OpenFile(s, s.file + 1) ELSE [s EXCEPT !.ended = TRUE]

\* simpleDemuxBlock: before the first chunk of a file that is open no longer, its headers
\* are read again, and their end is that of the stream; a call that reads nothing goes
\* to the next file.
Counted(s) ==
    [s EXCEPT !.discarded = @ + s.header, !.header = 0, !.first = FALSE, !.halted = FALSE, !.from = s.pos,
              !.opening = s.first, !.again = s.first /\ s.mdatPos = None]
AtEnd(s) == [s EXCEPT !.ended = ~s.failed /\ s.lastEof]
Reading(s) == [s EXCEPT !.from = s.pos]
Stage(s, what) ==
    CASE s.ended \/ s.failed -> s
      [] ~s.ended /\ ~s.failed /\ what = "headers" -> IF s.again THEN AtEnd(ReadHeaders(s)) ELSE s
      [] ~s.ended /\ ~s.failed /\ what = "index" -> IF s.again THEN ToData(BuildIndex(s)) ELSE s
      [] ~s.ended /\ ~s.failed /\ what = "first" ->
            Reading(IF s.opening THEN ToFirst(s) ELSE s)
      [] ~s.ended /\ ~s.failed /\ what = "chunks" -> Chunks(s, s.from)
      [] OTHER -> IF s.pos > s.from THEN s ELSE NextFile(s)
SimpleDemuxBlock(s) == FoldLeft(Stage, Counted(s), <<"headers", "index", "first", "chunks", "next">>)

\* getTrackDelay: of a track to the first one of video.
TimeOf(s, i) == IF i \in DOMAIN s.times THEN s.times[i] ELSE 0
Video(s) == SelectSeq([i \in DOMAIN s.tracks |-> i], LAMBDA i : s.tracks[i].video)
GetTrackDelay(s, i) == TimeOf(s, i) - (IF Video(s) = <<>> THEN 0 ELSE TimeOf(s, Video(s)[1]))
GetTrackList(s) == {i \in DOMAIN s.tracks : s.tracks[i].kind # "control"}

-----------------------------------------------------------------------------

Fresh ==
    [file |-> 0, moov |-> FALSE, moof |-> FALSE, mdatPos |-> None, mdatSize |-> 0, mdats |-> <<>>, dur |-> 0,
     scale |-> 1, cur |-> 1, chunks |-> <<>>, first |-> TRUE, pos |-> 0, eof |-> FALSE, lastEof |-> FALSE,
     tracks |-> <<>>, times |-> <<>>, trex |-> <<>>, frag |-> [track |-> 0, base |-> 0, moof |-> 0, entry |-> 0],
     header |-> 0, err |-> FALSE, failed |-> FALSE, stopped |-> FALSE, halted |-> FALSE, ended |-> FALSE, from |-> 0, opening |-> FALSE, again |-> FALSE, discarded |-> 0,
     exact |-> TRUE, out |-> [i \in options.accepted |-> <<>>]]
Init ==
    /\ options \in Movies
    /\ mux = Fresh
    /\ fed = <<>>

Open ==
    /\ mux.file = 0
    /\ mux' = OpenFile(mux, 1)
    /\ UNCHANGED <<options, fed>>

Block ==
    /\ mux.file # 0 /\ ~mux.ended /\ ~mux.failed
    /\ mux' = SimpleDemuxBlock(mux)
    /\ UNCHANGED <<options, fed>>

Next == Open \/ Block \/ ((mux.ended \/ mux.failed) /\ UNCHANGED vars)
Spec == Init /\ [][Next]_vars

-----------------------------------------------------------------------------
(* Properties.                                                             *)

TypeOK ==
    /\ mux.file \in 0..Len(options.files) /\ mux.pos \in Nat
    /\ mux.cur \in 1..(Len(mux.chunks) + 1)
    /\ \A flag \in {"moov", "moof", "first", "eof", "err", "failed", "halted", "ended"} : mux[flag] \in BOOLEAN

\* Each accepted track gets its samples, in the order of the file and wherever the
\* tables are, with what its stream has and its file has not (start codes and sets,
\* headers, numbers and times); room is made for exactly what is written; delays are
\* to the video; what is not delivered is counted, to the end of the data; and only
\* a file without tables or with a chunk outside of the data is refused
\* (MovDemuxer::simpleDemuxBlock, mov_read_default, newBufferSize and extractData).
ChunksDemuxed ==
    /\ mux.exact
    /\ mux.file # 0 => mux.failed = options.broken /\ (mux.failed \/ mux.dur = options.dur)
    /\ \A i \in DOMAIN options.delays : mux.file # 0 /\ ~mux.failed => i \in GetTrackList(mux) /\ GetTrackDelay(mux, i) = options.delays[i]
    /\ \A i \in options.accepted : IsPrefix(mux.out[i], options.out[i])
    /\ mux.ended /\ ~mux.moof /\ Len(options.files) = 1 =>
         mux.discarded + FoldSet(LAMBDA i, sum : sum + Len(mux.out[i]), 0, options.accepted) = options.counted
    /\ mux.ended => mux.out = options.out
=============================================================================
