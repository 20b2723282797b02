------------------------------- MODULE TSDemuxer -------------------------------
(***************************************************************************)
(* The demuxer of transport streams (tsDemuxer.cpp): blocks of a file are  *)
(* searched for packets, what a block has of its last packet is carried    *)
(* over to the next, and the payload of the packets goes to its stream.    *)
(* Subtitles keep the headers of their PES packets, with a time counted    *)
(* from the video's beginning over all files.                              *)
(*                                                                         *)
(* A file is a sequence of cells.  A packet has FrameSize cells:           *)
(*   [k |-> "sync", pid, start, skip]  what precedes the payload, and how  *)
(*                                     many cells of adaptation field      *)
(*   [k |-> "pes", pts, dts]           the header of a PES packet          *)
(*   [k |-> "pat", pmts], [k |-> "pmt", types, size]                       *)
(*   [k |-> "data", n]                 and anything else                   *)
(* and in an M2TS file a cell of arrival time in front of each.            *)
(***************************************************************************)
EXTENDS Blocks, Integers, Sequences, SequencesExt, TLC

CONSTANTS
    Films,      \* [files, size of blocks, suffix of M2TS, m2ts, accepted PIDs]
    FrameSize,  \* TS_FRAME_SIZE
    VideoTypes, PgsType,
    FrameTime   \* the time between frames of the video, which begins each file

DemuxerAssumption ==
    /\ FrameSize \in Nat /\ FrameSize > 1
    /\ \A f \in Films : f.block >= FrameSize

VARIABLES options, mux, fed
vars == <<options, mux, fed>>

Unset == -1
Header == 1         \* the cell of the arrival time
IsSync(data, p) == data[p].k = "sync"
Lower(a, b) == IF a = Unset \/ b < a THEN b ELSE a
Higher(a, b) == IF b > a THEN b ELSE a

-----------------------------------------------------------------------------
(* Packets in a block.                                                     *)

\* checkForRealM2ts: a file of packets with headers, and none of packets without.
CheckForRealM2ts(data) ==
    LET last == Len(data) - FrameSize
        every(step, first) == \A n \in 0..last : n % step = 0 => IsSync(data, first + n) IN
    every(FrameSize + Header, 1 + Header) /\ ~every(FrameSize, 1)

RECURSIVE NextSync(_, _, _)
NextSync(data, p, last) == IF p > last \/ IsSync(data, p) THEN p ELSE NextSync(data, p + 1, last)

\* The places of packets from p on, where the search stops, and whether it stopped
\* behind a header.
RECURSIVE Walk(_, _, _, _)
\* Mutant: the search in the next block begins in front of a header again.
Packet_Headers(data, p, q, m2ts) ==
    LET last == Len(data) - FrameSize + 1 IN
    IF q > last THEN [packets |-> <<>>, at |-> q, discarded |-> FALSE]
    ELSE LET rest == Walk(data, q + FrameSize, FALSE, m2ts) IN [rest EXCEPT !.packets = <<q>> \o @]

Packet(data, p, q, m2ts) ==
    LET last == Len(data) - FrameSize + 1 IN
    IF q > last THEN [packets |-> <<>>, at |-> q, discarded |-> TRUE]
    ELSE LET rest == Walk(data, q + FrameSize, FALSE, m2ts) IN [rest EXCEPT !.packets = <<q>> \o @]
Walk(data, p, discarded, m2ts) ==
    LET last == Len(data) - FrameSize + 1
        from == IF m2ts /\ ~discarded THEN p + Header ELSE p IN
    IF p > last THEN [packets |-> <<>>, at |-> p, discarded |-> discarded]
    ELSE Packet(data, p, NextSync(data, from, last), m2ts)

Payload(data, p) == SubSeq(data, p + 1 + data[p].skip, p + FrameSize - 1)

\* The streams of a block's last complete program map, where its tables have one; a
\* map that is not complete is forgotten with the block.
PmtStep(data, s, p) ==
    LET pid == data[p].pid
        body == Payload(data, p)
        collected == s.pmt \o body IN
    CASE pid = 0 -> [s EXCEPT !.pmts = body[1].pmts]
      [] pid # 0 /\ pid \in s.pmts /\ (data[p].start \/ s.pmt # <<>>) ->
            IF Len(collected) < collected[1].size THEN [s EXCEPT !.pmt = collected]
            ELSE [s EXCEPT !.types = collected[1].types, !.pmt = <<>>]
      [] OTHER -> s
Types(data, types, packets) ==
    FoldLeft(LAMBDA s, p : PmtStep(data, s, p), [pmts |-> {}, pmt |-> <<>>, types |-> types], packets).types

\* getTrackList: the streams in the tables, block after block, until each program of the
\* first table has had its map; a table counts for the rest of its block only, and a
\* map goes on in the next.
TrackStep(data, s, p) ==
    LET pid == data[p].pid
        body == Payload(data, p)
        collected == s.pmt \o body IN
    CASE s.done -> s
      [] ~s.done /\ pid = 0 ->
            [s EXCEPT !.pmts = body[1].pmts, !.missing = IF s.first THEN body[1].pmts ELSE @, !.first = FALSE]
      [] ~s.done /\ pid # 0 /\ pid \in s.pmts /\ (data[p].start \/ s.pmt # <<>>) ->
            IF Len(collected) < collected[1].size THEN [s EXCEPT !.pmt = collected]
            ELSE [s EXCEPT !.tracks = collected[1].types @@ @, !.pmt = <<>>, !.missing = @ \ {pid},
                           !.done = (s.missing \ {pid} = {})]
      [] OTHER -> s
RECURSIVE TracksFrom(_, _, _, _)
TracksOf(s, data, block, files, size) ==
    LET m2ts == s.m2ts \/ (s.firstCall /\ CheckForRealM2ts(data))
        walk == Walk(data, 1, s.headerGone, m2ts)
        seen == FoldLeft(LAMBDA t, p : TrackStep(data, t, p), [s EXCEPT !.pmts = {}], walk.packets) IN
    IF seen.done \/ block.eof THEN seen.tracks
    ELSE TracksFrom([seen EXCEPT !.m2ts = m2ts, !.firstCall = FALSE, !.headerGone = walk.discarded,
                                 !.tmp = SubSeq(data, walk.at, Len(data))], block.next, files, size)
TracksFrom(s, at, files, size) ==
    LET block == BlockAt(files, at, size) IN TracksOf(s, s.tmp \o block.cells, block, files, size)
GetTrackList(files, size, suffix) ==
    TracksFrom([m2ts |-> suffix, firstCall |-> TRUE, headerGone |-> FALSE, tmp |-> <<>>, pmts |-> {}, pmt |-> <<>>,
                first |-> TRUE, missing |-> {}, tracks |-> <<>>, done |-> FALSE], Beginning, files, size)

-----------------------------------------------------------------------------
(* Times and payload.                                                      *)

\* The times of a PES header.
Timed(s, type, pes) ==
    LET video == type \in VideoTypes IN
    [s EXCEPT !.lastPts = IF @ = Unset THEN pes.pts ELSE Higher(@, pes.pts),
              !.firstPts = Lower(@, pes.pts),
              !.firstVideo = IF video THEN Lower(@, pes.pts) ELSE @,
              !.lastVideo = IF video THEN Higher(@, pes.pts) ELSE @,
              !.lastDts = IF video /\ @ = Unset THEN pes.dts ELSE @,
              !.gap = IF video /\ @ = Unset /\ s.lastDts # Unset /\ pes.dts > s.lastDts
                      THEN pes.dts - s.lastDts ELSE @]

Shifted(s, pes) ==
    LET base == IF s.firstVideo # Unset THEN s.firstVideo ELSE s.firstPts
        by(t) == t - base + s.prevLen IN
    [pes EXCEPT !.pts = by(@), !.dts = by(@)]

TypeOf(s, pid) == IF pid \in DOMAIN s.types THEN s.types[pid] ELSE 0

\* One packet: what its PES header says, and its payload for its stream.
DemuxPacket(s, data, p) ==
    LET pid == data[p].pid
        body == Payload(data, p)
        pes == data[p].start /\ body # <<>> /\ body[1].k = "pes"
        timed == IF pes THEN Timed(s, TypeOf(s, pid), body[1]) ELSE s
        kept == TypeOf(s, pid) \in {0, PgsType}
        payload == CASE pes /\ kept -> <<Shifted(timed, body[1])>> \o Tail(body)
                     [] pes /\ ~kept -> Tail(body)
                     [] OTHER -> body IN
    IF pid \in options.accepted
    THEN [timed EXCEPT !.out[pid] = @ \o payload, !.discarded = @ + FrameSize - Len(payload)]
    ELSE [timed EXCEPT !.discarded = @ + FrameSize]

\* The first block of a further file: the length of the one before it.
NextFile(s) ==
    LET len == IF s.firstVideo # Unset /\ s.lastVideo # Unset
               THEN s.lastVideo - s.firstVideo + s.gap ELSE s.lastPts - s.firstPts IN
    [s EXCEPT !.prevLen = @ + len, !.firstPts = Unset, !.lastPts = Unset,
              !.firstVideo = Unset, !.lastVideo = Unset]

\* The packets of a block, and what is left of it.
Demuxed(s, data) ==
    LET m2ts == s.m2ts \/ (s.firstCall /\ CheckForRealM2ts(data))
        walk == Walk(data, 1, s.headerGone, m2ts)
        known == IF s.types # <<>> THEN s.types ELSE Types(data, s.types, walk.packets)
        done == FoldLeft(LAMBDA t, p : DemuxPacket(t, data, p), [s EXCEPT !.types = known], walk.packets) IN
    [done EXCEPT !.m2ts = m2ts, !.firstCall = FALSE, !.headerGone = walk.discarded,
                 !.tmp = SubSeq(data, walk.at, Len(data)),
                 !.discarded = @ + (walk.at - 1) - FrameSize * Len(walk.packets)]

\* simpleDemuxBlock.
SimpleDemuxBlock(s, block) ==
    LET begun == IF block.first THEN NextFile(s) ELSE s
        data == s.tmp \o block.cells
        rest == [begun EXCEPT !.eof = block.eof, !.tmp = <<>>] IN
    CASE data = <<>> \/ (block.cells = <<>> /\ s.eof) -> [s EXCEPT !.ended = TRUE]
      [] data # <<>> /\ Len(data) < FrameSize -> [rest EXCEPT !.discarded = @ + Len(data)]
      [] OTHER -> Demuxed(rest, data)

-----------------------------------------------------------------------------

Init ==
    /\ options \in Films
    /\ mux = [m2ts |-> options.suffix, firstCall |-> TRUE, headerGone |-> FALSE, tmp |-> <<>>,
              types |-> <<>>, eof |-> FALSE, ended |-> FALSE, prevLen |-> 0, gap |-> Unset,
              firstPts |-> Unset, lastPts |-> Unset, firstVideo |-> Unset, lastVideo |-> Unset,
              lastDts |-> Unset, discarded |-> 0, out |-> [pid \in options.accepted |-> <<>>]]
    /\ fed = [at |-> Beginning, read |-> 0]

Block ==
    LET block == BlockAt(options.files, fed.at, options.block) IN
    /\ ~mux.ended
    /\ mux' = SimpleDemuxBlock(mux, block)
    /\ fed' = [at |-> block.next, read |-> fed.read + Len(block.cells)]
    /\ UNCHANGED options

Next == Block \/ (mux.ended /\ UNCHANGED vars)
Spec == Init /\ [][Next]_vars

-----------------------------------------------------------------------------
(* Properties.                                                             *)

TypeOK ==
    /\ options \in Films
    /\ mux.discarded \in Nat /\ Len(mux.tmp) < FrameSize + Header
    /\ \A flag \in {"m2ts", "firstCall", "headerGone", "eof", "ended"} : mux[flag] \in BOOLEAN

\* The packets of a file as they were made, and the streams in them.
PacketsOf(file) == SelectSeq([p \in DOMAIN file |-> p], LAMBDA p : IsSync(file, p))
FramesIn(file, pid) ==
    Len(SelectSeq(PacketsOf(file), LAMBDA p : file[p].pid = pid /\ file[p].start))
Before(f) ==
    FoldLeft(LAMBDA sum, file : sum + FrameTime * FramesIn(file, options.video), 0, SubSeq(options.files, 1, f - 1))
StartOf(file) ==
    LET p == PacketsOf(file)[CHOOSE i \in DOMAIN PacketsOf(file) :
                /\ file[PacketsOf(file)[i]].pid = options.video
                /\ \A j \in 1..(i - 1) : file[PacketsOf(file)[j]].pid # options.video] IN
    Payload(file, p)[1].pts
Expected(pid) ==
    LET cell(f, c) == IF c.k # "pes" THEN <<c>>
                      ELSE IF options.types[pid] # PgsType THEN <<>>
                      ELSE LET by(t) == t - StartOf(options.files[f]) + Before(f) IN
                           <<[c EXCEPT !.pts = by(@), !.dts = by(@)]>>
        cells(f, p) == FlattenSeq([i \in DOMAIN Payload(options.files[f], p) |-> cell(f, Payload(options.files[f], p)[i])])
        own(f) == SelectSeq(PacketsOf(options.files[f]), LAMBDA p : options.files[f][p].pid = pid) IN
    FlattenSeq([f \in DOMAIN options.files |->
        FlattenSeq([i \in DOMAIN own(f) |-> cells(f, own(f)[i])])])

\* However the blocks cut a stream, its tracks are the ones of its tables; every packet's payload goes to its stream, once
\* and in order; subtitles of a further file go on from the end of the video before
\* it; and every byte that was read is delivered, counted as discarded, or held
\* (TSDemuxer::simpleDemuxBlock, checkForRealM2ts).
PacketsDemuxed ==
    /\ GetTrackList(options.files, options.block, options.suffix) = options.types
    /\ fed.read = mux.discarded + Len(mux.tmp)
                  + FoldLeft(LAMBDA sum, pid : sum + Len(mux.out[pid]), 0, SetToSeq(options.accepted))
    /\ mux.ended => \A pid \in options.accepted : mux.out[pid] = Expected(pid)
=============================================================================
