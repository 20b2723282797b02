------------------------------ MODULE ClipInfo ------------------------------
(***************************************************************************)
(* The clip information files of a Blu-ray folder (CLPIParser in           *)
(* tsPacket.cpp): what compose writes and what parse reads.  A clip is the *)
(* record that createCLPIFile fills in; texts are left out, and fields     *)
(* that nothing here reads are reserved ones.                              *)
(***************************************************************************)
EXTENDS Fields, Integers, Sequences, SequencesExt

CONSTANTS
    PtsFine,    \* 2^9: the unit of PTS_EP_fine
    PtsCoarse,  \* 2^19: the unit of PTS_EP_coarse
    SpnUnit     \* 2^17: the values of SPN_EP_fine

ClipAssumption == PtsFine \in Nat \ {0} /\ PtsCoarse % PtsFine = 0 /\ SpnUnit \in Nat \ {0}

\* Stream types, as numbers.
MVC == 32
PGS == 144
VideoTypes == {2, 27, 36, 234, MVC}
AudioTypes == {129, 134}
IsVideo(s) == s.type \in VideoTypes
IsAudio(s) == s.type \in AudioTypes
OfType(streams, is(_)) == SelectSeq(streams, is)

\* An index: the places of the frames that can be sought, [pts, at], by PTS.
FineValues == (2 * PtsCoarse) \div PtsFine

-----------------------------------------------------------------------------
(* Writing.                                                                *)

StreamCodingInfo(s) ==
    WithLength(8, Bits8(s.type)
        \o (IF IsVideo(s) THEN <<<<4, s.format>>, <<4, s.rate>>, <<4, 3>>>> \o Reserved(20)
            ELSE IF IsAudio(s) THEN <<<<4, s.format>>, <<4, s.rate>>, <<24, s.lang>>>>
            ELSE <<<<24, s.lang>>>> \o Reserved(8))
        \o Reserved(96) \o Reserved(32))

ProgramInfo(clip, ss) ==
    LET chosen == OfType(clip.streams, LAMBDA s : ss = (s.type = MVC))
        body == Reserved(8) \o Bits8(1) \o Reserved(32) \o Bits16(256) \o Bits8(Len(chosen)) \o Reserved(8)
            \o JoinedOver(Len(chosen), LAMBDA i : Bits16(chosen[i].pid) \o StreamCodingInfo(chosen[i])) IN
    WithLength(32, IF ss THEN Aligned(32, body) ELSE body)

ClipInfoBlock(clip) ==
    WithLength(32, Reserved(16) \o Bits8(1) \o Bits8(clip.application) \o Reserved(32)
        \o Bits32(clip.rate) \o Bits32(clip.packets) \o Reserved(32 * 32)
        \o WithLength(16, Reserved(8) \o Bits32(0) \o Reserved(72 + 128)))

SequenceInfo(clip) ==
    WithLength(32, Reserved(8) \o Bits8(1) \o Reserved(32) \o Bits8(1) \o Bits8(0)
        \o Reserved(16 + 32) \o Bits32(clip.start \div 2) \o Bits32(clip.end \div 2))

\* Mutant: a coarse entry begins only with another coarse time.
BuildCoarseInfo_TimeOnly(index) ==
    SelectSeq([i \in DOMAIN index |-> i], LAMBDA i :
        \/ i = 1
        \/ index[i].pts \div PtsCoarse # index[i - 1].pts \div PtsCoarse)

\* buildCoarseInfo: the entries of an index that begin a coarse entry, those whose
\* coarse time or upper packet number is another than the last one's.
BuildCoarseInfo(index) ==
    SelectSeq([i \in DOMAIN index |-> i], LAMBDA i :
        \/ i = 1
        \/ index[i].pts \div PtsCoarse # index[i - 1].pts \div PtsCoarse
        \/ index[i].at \div SpnUnit # index[i - 1].at \div SpnUnit)

\* composeEP_map_for_one_stream_PID.
EpMapOfStream(index) ==
    LET coarse == BuildCoarseInfo(index) IN
    Bits32(4 + 8 * Len(coarse))
    \o JoinedOver(Len(coarse), LAMBDA k :
          LET e == index[coarse[k]] IN
          <<<<18, coarse[k] - 1>>, <<14, e.pts \div PtsCoarse>>, <<32, e.at>>>>)
    \o JoinedOver(Len(index), LAMBDA i :
          Reserved(4) \o <<<<11, (index[i].pts \div PtsFine) % FineValues>>, <<17, index[i].at % SpnUnit>>>>)

\* composeEP_map: the video of the clip, or its first audio.
EpStreams(clip, ss) ==
    LET video == OfType(clip.streams, LAMBDA s : IF ss THEN s.type = MVC ELSE s.type # MVC /\ IsVideo(s))
        audio == OfType(clip.streams, IsAudio) IN
    IF video # <<>> THEN video ELSE SubSeq(audio, 1, 1)
EpType(s) == IF IsVideo(s) THEN 1 ELSE IF s.secondary THEN 4 ELSE 3
EpMap(clip, ss) ==
    LET streams == EpStreams(clip, ss)
        map(i) == EpMapOfStream(streams[i].index)
        before(i) == 2 + 12 * Len(streams) + Bytes(JoinedOver(i - 1, map)) IN
    Reserved(8) \o Bits8(Len(streams))
    \o JoinedOver(Len(streams), LAMBDA i :
          Bits16(streams[i].pid) \o Reserved(10)
          \o <<<<4, EpType(streams[i])>>, <<16, Len(BuildCoarseInfo(streams[i].index))>>,
               <<18, Len(streams[i].index)>>, <<32, before(i)>>>>)
    \o JoinedOver(Len(streams), map)

CPI(clip, ss) ==
    IF clip.dependent # ss THEN Bits32(0)
    ELSE WithLength(32, LET body == Reserved(12) \o <<<<4, 1>>>> \o EpMap(clip, ss) IN
                        IF ss THEN Aligned(32, body) ELSE body)

\* composeExtentStartPoint: the sums of what interleaveInfo has.
ExtentStartPoint(clip) ==
    WithLength(32, Reserved(16) \o Bits16(Len(clip.extents))
        \o JoinedOver(Len(clip.extents), LAMBDA i :
              Bits32(FoldLeft(LAMBDA sum, n : sum + n, 0, SubSeq(clip.extents, 1, i)))))

\* Extension data: a header for each block, then the blocks.
DataId(a, b) == a * 65536 + b
ExtensionOf(ids, blocks) ==
    LET head == 12 + 12 * Len(ids)
        before(i) == head + Bytes(Joined(SubSeq(blocks, 1, i - 1))) IN
    WithLength(32, Bits32(head) \o Reserved(24) \o Bits8(Len(ids))
        \o JoinedOver(Len(ids), LAMBDA i : Bits32(ids[i]) \o Bits32(before(i)) \o Bits32(Bytes(blocks[i])))
        \o Joined(blocks))

ExtentInfo(clip) ==
    IF clip.extents = <<>> THEN Bits32(0)
    ELSE IF clip.dependent
    THEN ExtensionOf(<<DataId(2, 4), DataId(2, 5), DataId(2, 6)>>,
                     <<ExtentStartPoint(clip), ProgramInfo(clip, TRUE), CPI(clip, TRUE)>>)
    ELSE ExtensionOf(<<DataId(2, 4)>>, <<ExtentStartPoint(clip)>>)

\* compose: the addresses of the sections, and the sections.
Addressed(aligned) ==
    LET address(i) == 40 + Bytes(Joined(SubSeq(aligned, 1, i))) IN
    Layout(Reserved(64) \o JoinedOver(5, LAMBDA i : Bits32(address(i))) \o Reserved(96) \o Joined(aligned))
AllAligned(sections) == [i \in DOMAIN sections |-> Aligned(32, sections[i])]
ClipFile(clip) ==
    Addressed(AllAligned(<<ClipInfoBlock(clip), SequenceInfo(clip), ProgramInfo(clip, FALSE),
                           CPI(clip, FALSE), Bits32(0), ExtentInfo(clip)>>))

-----------------------------------------------------------------------------
(* Reading.  A place is a bit of the file; an address counts bytes.        *)

Place(base, address) == base + 8 * address

ParsedStream(file, at) ==
    LET r == Read(file, at, <<16, -8, 8>>)
        type == r.values[2]
        rest == IF type \in VideoTypes THEN <<4, 4, -4, -20, -96, -32>>
                ELSE IF type \in AudioTypes THEN <<4, 4, 24, -96, -32>>
                ELSE <<24, -8, -96, -32>>
        attributes == Read(file, r.at, rest) IN
    [stream |-> [pid |-> r.values[1], type |-> type, attributes |-> attributes.values],
     at |-> attributes.at]

RECURSIVE ParsedStreams(_, _, _)
ParsedStreams(file, at, n) ==
    IF n <= 0 THEN <<>>
    ELSE LET s == ParsedStream(file, at) IN <<s.stream>> \o ParsedStreams(file, s.at, n - 1)

\* parseProgramInfo, of one program sequence.
ParsedProgram(file, at) ==
    LET r == Read(file, at, <<-32, -8, 8, -32, 16, 8, -8>>) IN
    ParsedStreams(file, r.at, r.values[3])

ParsedTimes(file, at) ==
    Read(file, at, <<-32, -8, 8, -32, 8, 8, -16, -32, 32, 32>>).values

\* parseExtensionData: the blocks, by what they are.
ParsedExtension(file, at) ==
    LET r == Read(file, at, <<32, -32, -24, 8>>)
        entry(i) == Read(file, r.at + 96 * (i - 1), <<32, 32, 32>>).values IN
    IF r.values[1] = 0 THEN <<>> ELSE [i \in 1..r.values[2] |-> entry(i)]
BlockAt(file, at, id) ==
    {Place(at, e[2]) : e \in {e \in ToSet(ParsedExtension(file, at)) : e[1] = id}}

ParsedExtents(file, at) ==
    LET r == Read(file, at, <<-32, -16, 16>>) IN
    [i \in 1..r.values[1] |-> Get(file, r.at + 32 * (i - 1), 32)]

ParsedClip(file) ==
    LET address == Read(file, 64, <<32, 32, 32, 32, 32>>).values
        at(i) == Place(0, address[i])
        block(id, parsed(_)) == {parsed(p) : p \in BlockAt(file, at(5), id)} IN
    [packets |-> Get(file, 320 + 32 + 32 + 32 + 32, 32),
     times |-> ParsedTimes(file, at(1)),
     streams |-> ParsedProgram(file, at(2)),
     extents |-> block(DataId(2, 4), LAMBDA p : ParsedExtents(file, p)),
     dependent |-> block(DataId(2, 5), LAMBDA p : ParsedProgram(file, p))]

-----------------------------------------------------------------------------
(* The reader of an EP map is the player: it takes the upper bits of a     *)
(* time and of a packet number from the coarse entry and the lower ones    *)
(* from the fine entry.                                                    *)

CpiPlace(file, dependent) ==
    LET address == Read(file, 64, <<32, 32, 32, 32, 32>>).values IN
    IF dependent THEN CHOOSE p \in BlockAt(file, Place(0, address[5]), DataId(2, 6)) : TRUE
    ELSE Place(0, address[3])

\* The entries of a table: [first, upper time, packet number], [lower time, lower number].
PlayerIndex(file, base, entry) ==
    LET start == Place(base, entry[5])
        fineStart == Place(start, Get(file, start, 32))
        coarse == [k \in 1..entry[3] |-> Read(file, start + 32 + 64 * (k - 1), <<18, 14, 32>>).values]
        fine == [i \in 1..entry[4] |-> Read(file, fineStart + 32 * (i - 1), <<-4, 11, 17>>).values]
        coarseOf(i) == coarse[CHOOSE k \in DOMAIN coarse :
                          /\ coarse[k][1] < i
                          /\ \A j \in DOMAIN coarse : coarse[j][1] < i => j <= k] IN
    [i \in DOMAIN fine |->
        LET c == coarseOf(i) IN
        [pts |-> (c[2] - (c[2] % 2)) * PtsCoarse + fine[i][1] * PtsFine,
         at |-> c[3] - (c[3] % SpnUnit) + fine[i][2]]]

PlayerMap(file, dependent) ==
    LET base == CpiPlace(file, dependent) + 48
        n == Get(file, base + 8, 8)
        entry(i) == Read(file, base + 16 + 96 * (i - 1), <<16, -10, 4, 16, 18, 32>>).values IN
    [i \in 1..n |-> [pid |-> entry(i)[1], index |-> PlayerIndex(file, base, entry(i))]]
=============================================================================
