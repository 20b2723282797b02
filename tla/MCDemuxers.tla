------------------------------ MODULE MCDemuxers ------------------------------
(***************************************************************************)
(* Instances for TLC of the demuxers: small files of each container, which *)
(* blocks of several sizes cut at every kind of place.                     *)
(***************************************************************************)
EXTENDS Integers, Sequences, FiniteSets, TLC, SequencesExt

VARIABLES options, mux, fed

Datum(n) == [k |-> "data", n |-> n]
Data(from, to) == [i \in 1..(to - from + 1) |-> Datum(from + i - 1)]

-----------------------------------------------------------------------------
(* Transport streams: a table of two packets, video with B frames, PGS,    *)
(* a stream nobody wants; with and without headers; two files.             *)

TsPacket(pid, start, cells) ==
    <<[k |-> "sync", pid |-> pid, start |-> start, skip |-> 3 - Len(cells)]>>
        \o [i \in 1..(3 - Len(cells)) |-> [k |-> "stuffing"]] \o cells
PesCell(pts, dts) == [k |-> "pes", pts |-> pts, dts |-> dts]
TsTypes == (1 :> 27) @@ (2 :> 144) @@ (3 :> 129)
TsFile(t, junk) ==
    LET pmt == [k |-> "pmt", types |-> TsTypes, size |-> 4]
        more == <<[k |-> "more"]>>
        frame(pts, dts, n) == TsPacket(1, TRUE, <<PesCell(t + pts, t + dts)>> \o Data(n, n)) IN
    <<TsPacket(0, TRUE, <<[k |-> "pat", pmts |-> {9}]>>), TsPacket(9, TRUE, <<pmt>> \o more \o more),
      TsPacket(9, FALSE, more), frame(10, 8, 1), TsPacket(1, FALSE, Data(2, 4)),
      TsPacket(3, TRUE, <<PesCell(t + 11, t + 11)>> \o Data(5, 5)), frame(14, 10, 6),
      TsPacket(2, TRUE, <<PesCell(t + 13, t + 13)>> \o Data(7, 8)), TsPacket(2, FALSE, Data(9, 9)),
      frame(12, 12, 10), TsPacket(4, TRUE, <<PesCell(t + 14, t + 14)>> \o Data(11, 11))>>
    \o (IF junk THEN <<Data(20, 22), TsPacket(1, FALSE, Data(12, 12))>> ELSE <<>>)
PlainFile(t) == FlattenSeq(TsFile(t, TRUE))
HeadedFile(t) ==
    FlattenSeq([i \in DOMAIN TsFile(t, FALSE) |-> <<[k |-> "time"]>> \o TsFile(t, FALSE)[i]])
TsFilm(files, block, suffix, m2ts) ==
    [files |-> files, block |-> block, suffix |-> suffix, m2ts |-> m2ts, accepted |-> 1..3,
     types |-> TsTypes, video |-> 1]
TsFilms ==
    {TsFilm(<<PlainFile(0)>>, n, FALSE, FALSE) : n \in {13, 14, 16, 60}}
    \cup {TsFilm(<<PlainFile(0), PlainFile(50)>>, n, FALSE, FALSE) : n \in {15, 17, 51}}
    \cup {TsFilm(<<HeadedFile(0), HeadedFile(50)>>, n, suffix, TRUE) :
             n \in {15, 16, 17, 18, 19, 21}, suffix \in BOOLEAN}

Ts == INSTANCE TSDemuxer WITH
    Films <- TsFilms, FrameSize <- 4, VideoTypes <- {27}, PgsType <- 144, FrameTime <- 2

-----------------------------------------------------------------------------
(* Program streams: video, a sound and PCM in private streams, packets of  *)
(* no interest and a map.                                                  *)

Coded(code, id, header, len) ==
    <<[k |-> "zero"], [k |-> "one", code |-> code, id |-> id, header |-> header, len |-> len]>>
Cells(n) == [i \in 1..n |-> [k |-> "other"]]
Payload(from, to) == [i \in 1..(to - from + 1) |-> [k |-> "data", n |-> from + i - 1, swapped |-> FALSE]]
PsVideo(from, to) == Coded("pes", 1, 3, 3 + to - from + 1) \o Cells(1) \o Payload(from, to)
PsPrivate(id, after, from, to) ==
    Coded("pes", 0, 3, 3 + after + to - from + 1) \o Cells(1)
        \o <<[k |-> "sub", id |-> id, after |-> after]>> \o Cells(after - 1) \o Payload(from, to)
PsFile ==
    Coded("pack", 0, 2, 5) \o Cells(3) \o PsVideo(1, 4) \o PsPrivate(2, 2, 5, 8)
        \o Coded("map", 0, 2, 6) \o Cells(4) \o PsPrivate(3, 3, 9, 11) \o PsVideo(12, 22)
        \o Coded("pes", 9, 3, 7) \o Cells(5) \o PsPrivate(2, 1, 23, 30) \o Cells(2)
        \o PsPrivate(3, 3, 31, 33) \o PsVideo(34, 35) \o Coded("end", 0, 2, 2)
PsFilm(files, block) == [files |-> files, block |-> block, accepted |-> 1..3]
PsFilms == {PsFilm(<<PsFile>>, n) : n \in 10..60} \cup {PsFilm(<<PsFile, PsFile>>, n) : n \in {25, 70, 200}}

Ps == INSTANCE ProgramStream WITH Films <- PsFilms, MinHeader <- 3, Margin <- 2, Pcm <- {3}

-----------------------------------------------------------------------------
(* Both eyes in one stream: parameter sets of each, slices of each.        *)

Nal(start, to, id, need, from, to2) ==
    [i \in 1..start |-> [k |-> IF i = start THEN "one" ELSE "zero"]]
        \o <<[k |-> "nal", to |-> to, id |-> id, need |-> need]>> \o Data(from, to2)
MvcFile ==
    Nal(3, "base", 0, 1, 1, 3) \o Nal(3, "sps", 4, 3, 4, 8) \o Nal(2, "pps", 2, 2, 9, 12)
        \o Nal(3, "pps", 4, 2, 13, 15) \o Nal(2, "base", 0, 1, 16, 22) \o Nal(3, "other", 0, 1, 23, 29)
        \o Nal(3, "both", 0, 1, 30, 33)
MvcFilms == {[files |-> <<MvcFile>>, block |-> n, accepted |-> {"base", "other"}] : n \in 8..50}

Mvc == INSTANCE CombinedH264 WITH Films <- MvcFilms, Search <- 3, Least <- 4, MaxTmp <- 16

-----------------------------------------------------------------------------

DemuxerAssumptions == Ts!DemuxerAssumption /\ Ps!DemuxerAssumption /\ Mvc!DemuxerAssumption
=============================================================================
