------------------------------ MODULE PlayList ------------------------------
(***************************************************************************)
(* The playlist of a Blu-ray folder (MPLSParser in tsPacket.cpp): what     *)
(* compose writes and what parse reads.  A playlist is the record that     *)
(* createMPLSFile fills in:                                                *)
(*   first, inTime, outTime   the number of the first clip, and the times  *)
(*   streams, depend          the streams of both muxers, by PID           *)
(*   chapterLen, marks        chapters: every so long, or these            *)
(*   stereo, baseRight        there is a dependent stream; the eye of base *)
(*   v3                       a disk of version 3                          *)
(* A stream has an index for each clip.                                    *)
(***************************************************************************)
EXTENDS ClipInfo

CONSTANT ChapterUnit    \* 45000

IsPgs(s) == s.type = PGS
IsDolby(s) == IsVideo(s) /\ ~s.secondary /\ s.hdr = 4

\* The groups of STN_table, in their order.
PrimaryVideo(s) == IsVideo(s) /\ ~s.secondary /\ s.hdr # 4
PrimaryAudio(s) == IsAudio(s) /\ ~s.secondary
SecondaryAudio(s) == IsAudio(s) /\ s.secondary
SecondaryVideo(s) == IsVideo(s) /\ s.secondary

\* getMainStream: the first video, or the first audio.
MainStream(list) ==
    LET video == OfType(list.streams, IsVideo) IN
    IF video # <<>> THEN video[1] ELSE OfType(list.streams, IsAudio)[1]
DependStream(list) == OfType(list.depend, LAMBDA s : s.type = MVC)[1]

\* compose counts a sub-path for each secondary video and each Dolby Vision stream.
SubPaths(list) == Len(OfType(list.streams, LAMBDA s : SecondaryVideo(s) \/ IsDolby(s)))
SubPathType(list) ==
    LET last == OfType(list.streams, LAMBDA s : SecondaryVideo(s) \/ IsDolby(s)) IN
    IF last = <<>> THEN 0 ELSE IF Last(last).secondary THEN 7 ELSE 10

-----------------------------------------------------------------------------
(* Times of items.                                                         *)

\* The IN_time and the OUT_time of item i, as four functions compute them.
InTime(list, indices, i) ==
    IF i # 1 /\ indices[i - 1] # <<>> THEN indices[i][1].pts \div 2 ELSE list.inTime
OutTime(list, indices, i) ==
    IF i # Len(indices) /\ indices[i + 1] # <<>>
    THEN indices[i + 1][1].pts \div 2 ELSE list.outTime
Connection(i) == IF i = 1 THEN 1 ELSE 6

\* Mutant: the item is searched with the time of the mark as it is written.
CalcPlayItemID_Half(indices, time) ==
    LET later == {i \in DOMAIN indices : indices[i] # <<>> /\ indices[i][1].pts > time} IN
    IF later = {} THEN Len(indices) - 1
    ELSE LET i == CHOOSE i \in later : \A j \in later : i <= j IN IF i = 1 THEN 0 ELSE i - 2

\* calcPlayItemID: the item before the first one whose index begins later, from 0.
CalcPlayItemID(indices, time) ==
    LET later == {i \in DOMAIN indices : indices[i] # <<>> /\ indices[i][1].pts > 2 * time} IN
    IF later = {} THEN Len(indices) - 1
    ELSE LET i == CHOOSE i \in later : \A j \in later : i <= j IN IF i = 1 THEN 0 ELSE i - 2

\* composePlayListMark: the marks that were asked for, or chapters, or the beginning.
Marks(list) ==
    LET step == list.chapterLen * ChapterUnit
        n == (list.outTime - list.inTime + step - 1) \div step IN
    CASE list.marks # <<>> -> list.marks
      [] list.marks = <<>> /\ step = 0 -> <<list.inTime>>
      [] OTHER -> [k \in 1..n |-> list.inTime + (k - 1) * step]

-----------------------------------------------------------------------------
(* Writing.                                                                *)

\* composeStreamEntry, of the types 1 to 4, and composeStreamAttributes.
StreamEntry(s, type) ==
    WithLength(8, Bits8(type)
        \o CASE type = 1 -> Bits16(s.pid) \o Reserved(48)
             [] type = 2 -> Reserved(16) \o Bits16(s.pid) \o Reserved(32)
             [] OTHER -> Reserved(8) \o Bits16(s.pid) \o Reserved(40))
Attributes(s) ==
    WithLength(8, Bits8(s.type)
        \o IF IsVideo(s) THEN <<<<4, s.format>>, <<4, s.rate>>>> \o Reserved(24)
           ELSE IF IsAudio(s) THEN <<<<4, s.format>>, <<4, s.rate>>, <<24, s.lang>>>>
           ELSE <<<<24, s.lang>>>> \o Reserved(8))
Entry(s, type) == StreamEntry(s, type) \o Attributes(s)
Entries(streams, part(_)) == JoinedOver(Len(streams), LAMBDA i : part(streams[i]))

\* composePGS_SS_StreamEntry.
StereoPgs(s) ==
    Bits8(s.offset) \o Reserved(5) \o <<<<1, IF s.eyes # <<>> THEN 1 ELSE 0>>, <<1, 0>>, <<1, 0>>>>
    \o (IF s.eyes = <<>> THEN <<>>
        ELSE Entries(s.eyes, LAMBDA e : StreamEntry(e, e.ref)) \o Reserved(8) \o Bits8(s.offset))

\* The stream of the secondary audio that a secondary video, the n-th, may use.
SecondaryVideoEntry(s, n, audios) ==
    Entry(s, 3)
    \o (IF audios > n THEN Bits8(1) \o Reserved(8) \o Bits8(n) \o Reserved(8) ELSE Bits8(0) \o Reserved(8))
    \o Bits8(0) \o Reserved(8)

\* composeSTN_table.
StnTable(list, ss) ==
    LET own == IF ss THEN list.depend ELSE list.streams
        of(is(_)) == OfType(own, is)
        pgs == OfType(list.streams, IsPgs)
        primary == Len(of(PrimaryAudio))
        videos == of(SecondaryVideo)
        type(s) == IF ss THEN 2 ELSE 1
        joins == IF videos # <<>> THEN Reserved(16)
                 ELSE Aligned(16, Bits8(primary) \o Reserved(8) \o JoinedOver(primary, LAMBDA i : Bits8(i - 1)))
        counts == Bits8(Len(of(PrimaryVideo))) \o Bits8(primary) \o Bits8(Len(of(IsPgs))) \o Bits8(0)
                  \o Bits8(Len(of(SecondaryAudio))) \o Bits8(Len(videos)) \o Bits8(0)
                  \o Bits8(Len(of(IsDolby))) \o Reserved(32)
        body ==
            Reserved(16) \o (IF ss THEN <<>> ELSE counts)
            \o Entries(of(PrimaryVideo), LAMBDA s :
                  Entry(s, type(s)) \o IF s.type = MVC THEN Reserved(10) \o <<<<6, 1>>>> ELSE <<>>)
            \o Entries(of(PrimaryAudio), LAMBDA s : Entry(s, type(s)))
            \o Entries(pgs, LAMBDA s : IF ss THEN StereoPgs(s) ELSE Entry(s, 1))
            \o Entries(of(SecondaryAudio), LAMBDA s : Entry(s, type(s)) \o joins)
            \o JoinedOver(Len(videos), LAMBDA n : SecondaryVideoEntry(videos[n], n - 1, Len(of(SecondaryAudio))))
            \o Entries(of(IsDolby), LAMBDA s : Entry(s, 4)) IN
    WithLength(16, IF ss /\ Width(body) % 32 # 16 THEN body \o Reserved(16) ELSE body)

Flag(b) == <<<<1, IF b THEN 1 ELSE 0>>>>
AppInfo(list) ==
    WithLength(32, Reserved(8) \o Bits8(1) \o Reserved(16) \o Reserved(64) \o Reserved(3)
        \o Flag(list.baseRight) \o Reserved(12))

PlayItem(list, indices, i) ==
    LET number == list.first + (i - 1) * (IF list.stereo THEN 2 ELSE 1) IN
    WithLength(16, <<<<40, number>>>> \o Reserved(32) \o Reserved(11) \o Flag(FALSE)
        \o <<<<4, Connection(i)>>>> \o Bits8(0)
        \o Bits32(InTime(list, indices, i)) \o Bits32(OutTime(list, indices, i))
        \o Reserved(64) \o Flag(FALSE) \o Reserved(31) \o StnTable(list, FALSE))

SubPlayItem(list, indices, i) ==
    LET number == list.first + IF list.stereo THEN 2 * (i - 1) + 1 ELSE i - 1 IN
    WithLength(16, <<<<40, number>>>> \o Reserved(32) \o Reserved(27) \o <<<<4, Connection(i)>>>>
        \o Flag(FALSE) \o Bits8(0)
        \o Bits32(InTime(list, indices, i)) \o Bits32(OutTime(list, indices, i))
        \o Bits16(i - 1) \o Bits32(InTime(list, indices, i)))

\* composeSubPath and SubPath_extension.
SubPath(list, indices, type) ==
    WithLength(32, Reserved(8) \o Bits8(type) \o Reserved(24) \o Bits8(Len(indices))
        \o JoinedOver(Len(indices), LAMBDA i : SubPlayItem(list, indices, i)))

Items(list) ==
    LET indices == MainStream(list).index IN
    WithLength(32, Reserved(16) \o Bits16(Len(indices)) \o Bits16(SubPaths(list))
        \o JoinedOver(Len(indices), LAMBDA i : PlayItem(list, indices, i))
        \o JoinedOver(SubPaths(list) * Len(indices), LAMBDA i : SubPath(list, indices, SubPathType(list))))

MarkTable(list) ==
    LET marks == Marks(list) IN
    WithLength(32, Bits16(Len(marks)) \o JoinedOver(Len(marks), LAMBDA k :
        Reserved(8) \o Bits8(1) \o Bits16(CalcPlayItemID(MainStream(list).index, marks[k]))
        \o Bits32(marks[k]) \o Bits16(65535) \o Reserved(32)))

\* composePip_metadata: for each item and each secondary video where it is shown.
PipMetadata(list) ==
    LET indices == MainStream(list).index
        videos == OfType(list.streams, SecondaryVideo)
        n == Len(indices) * Len(videos)
        item(k) == (k - 1) \div Len(videos) + 1
        place(k) == 6 + 14 * n + 10 * (k - 1) IN
    WithLength(32, Bits16(n)
        \o JoinedOver(n, LAMBDA k : Bits16(item(k) - 1) \o Bits8((k - 1) % Len(videos)) \o Reserved(56)
                                    \o Bits32(place(k)))
        \o JoinedOver(n, LAMBDA k : Bits16(1) \o Bits32(InTime(list, indices, item(k))) \o Reserved(32)))

ExtensionOfAll(blocks) ==
    ExtensionOf([i \in DOMAIN blocks |-> blocks[i].id], [i \in DOMAIN blocks |-> blocks[i].data])
Extensions(list) ==
    LET pip == IF SubPaths(list) > 0 /\ SubPathType(list) = 7
               THEN <<[id |-> DataId(1, 1), data |-> PipMetadata(list)]>> ELSE <<>>
        indices == DependStream(list).index
        stereo == IF ~list.stereo THEN <<>>
                  ELSE <<[id |-> DataId(2, 1),
                          data |-> JoinedOver(Len(indices), LAMBDA i : StnTable(list, TRUE))],
                         [id |-> DataId(2, 2),
                          data |-> WithLength(32, Aligned(32, Bits16(1) \o SubPath(list, indices, 8)))]>>
        uhd == IF list.v3 THEN <<[id |-> DataId(3, 5), data |-> Reserved(32 * 9)]>> ELSE <<>> IN
    ExtensionOfAll(pip \o stereo \o uhd)

\* compose.
Composed(list, sections) ==
    LET address(i) == 40 + Bytes(Joined(SubSeq(sections, 1, i)))
        extended == SubPaths(list) > 0 \/ list.stereo \/ list.v3 IN
    Layout(Reserved(64) \o Bits32(address(1)) \o Bits32(address(2))
        \o Bits32(IF extended THEN address(3) ELSE 0) \o Reserved(160) \o Joined(sections)
        \o IF extended THEN Extensions(list) ELSE <<>>)
PlayListFile(list) ==
    Composed(list, <<Aligned(16, AppInfo(list)), Aligned(16, Items(list)), Aligned(16, MarkTable(list))>>)

-----------------------------------------------------------------------------
(* Reading.                                                                *)

Pid(r) == [pid |-> IF r.values = <<>> THEN Nothing ELSE r.values[1], at |-> r.at]
EntryOf(file, head) ==
    LET type == head.values[1] IN
    Pid(Read(file, head.at, CASE type = 1 -> <<16, -32, -16>>
                              [] type = 2 -> <<-16, 16, -32>>
                              [] type \in {3, 4} -> <<-8, 16, -32, -8>>
                              [] OTHER -> <<>>))
ParsedEntry(file, at) == EntryOf(file, Read(file, at, <<-8, 8>>))

\* A stream of the list: the entry, and attributes by its type.
AttributeWidths(type) ==
    CASE type \in VideoTypes -> <<4, 4, -24>>
      [] type \in AudioTypes -> <<4, -4, 24>>
      [] type = PGS -> <<24, -8>>
      [] OTHER -> <<>>
Listing(pid, type, secondary, attributes) ==
    [stream |-> [pid |-> pid, type |-> type, attributes |-> attributes.values, secondary |-> secondary],
     at |-> attributes.at]
StreamOfEntry(file, entry, head, secondary) ==
    LET type == head.values[1] IN
    Listing(entry.pid, type, secondary, Read(file, head.at, AttributeWidths(type)))
StreamBehind(file, entry, secondary) ==
    StreamOfEntry(file, entry, Read(file, entry.at, <<-8, 8>>), secondary)
ParsedListStream(file, at, secondary) == StreamBehind(file, ParsedEntry(file, at), secondary)

\* The words that list other streams, none, once or twice.
SkippedRefs(file, at) ==
    LET n == Get(file, at, 8) IN at + 16 + 8 * (n + (n % 2))
Behind(file, at, refs) ==
    CASE refs = 0 -> at
      [] refs = 1 -> SkippedRefs(file, at)
      [] refs = 2 -> SkippedRefs(file, SkippedRefs(file, at))

\* STN_table: the groups, each behind the one before it, as [n, secondary, refs].
RECURSIVE ParsedGroups(_, _, _)
FurtherGroups(file, s, groups) ==
    LET g == Head(groups)
        rest == ParsedGroups(file, Behind(file, s.at, g[3]), <<<<g[1] - 1, g[2], g[3]>>>> \o Tail(groups)) IN
    [rest EXCEPT !.streams = <<s.stream>> \o @]
ParsedGroups(file, at, groups) ==
    CASE groups = <<>> -> [streams |-> <<>>, at |-> at]
      [] groups # <<>> /\ groups[1][1] <= 0 -> ParsedGroups(file, at, Tail(groups))
      [] OTHER -> FurtherGroups(file, ParsedListStream(file, at, groups[1][2]), groups)

\* The counts are of video, audio, PGS, IGS, secondary audio and video, secondary
\* PGS, which stand with the PGS, and Dolby Vision.
GroupsOf(n) ==
    <<<<n[1], FALSE, 0>>, <<n[2], FALSE, 0>>, <<n[3] + n[7], FALSE, 0>>, <<n[4], FALSE, 0>>,
      <<n[5], TRUE, 1>>, <<n[6], TRUE, 2>>, <<n[8], FALSE, 0>>>>
StnBehind(file, counts) ==
    ParsedGroups(file, counts.at, GroupsOf(counts.values)) @@ [counts |-> counts.values]
ParsedStn(file, at) == StnBehind(file, Read(file, at, <<-32, 8, 8, 8, 8, 8, 8, 8, 8, -32>>))

ItemBehind(file, r) ==
    [clip |-> r.values[1], connection |-> r.values[3], in |-> r.values[5], out |-> r.values[6],
     stn |-> ParsedStn(file, r.at)]
ParsedItem(file, at) ==
    ItemBehind(file, Read(file, at, <<-16, 40, -32, -11, 1, 4, 8, 32, 32, -64, -1, -31>>))

RECURSIVE ParsedItems(_, _, _)
ItemsFrom(file, item, n) == <<item>> \o ParsedItems(file, item.stn.at, n - 1)
ParsedItems(file, at, n) == IF n <= 0 THEN <<>> ELSE ItemsFrom(file, ParsedItem(file, at), n)

ParsedMarks(file, at) ==
    LET r == Read(file, at, <<-32, 16>>) IN
    [k \in 1..r.values[1] |->
        LET v == Read(file, r.at + 112 * (k - 1), <<-8, 8, 16, 32, -16, -32>>).values IN
        [item |-> v[2], time |-> v[3]]]

\* parseStnTableSS: the offsets of the subtitles, and the streams of both eyes.
RECURSIVE ParsedOffsets(_, _, _)
ParsedOffsets(file, at, n) ==
    IF n <= 0 THEN <<>>
    ELSE LET r == Read(file, at, <<8, -5, 1, 1, 1>>)
             left == ParsedEntry(file, r.at)
             right == ParsedEntry(file, left.at) IN
         IF r.values[2] = 1
         THEN <<[offset |-> r.values[1], eyes |-> <<left.pid, right.pid>>]>>
              \o ParsedOffsets(file, right.at + 16, n - 1)
         ELSE <<[offset |-> r.values[1], eyes |-> <<>>]>> \o ParsedOffsets(file, r.at, n - 1)
RECURSIVE BehindVideos(_, _, _)
BehindVideos(file, at, n) ==
    IF n <= 0 THEN at ELSE BehindVideos(file, ParsedEntry(file, at).at + 64, n - 1)
ParsedStereo(file, at, counts) == ParsedOffsets(file, BehindVideos(file, at + 32, counts[1]), counts[3])

\* parseSubPathEntryExtension: the clips of the dependent stream.
ParsedDependents(file, at) ==
    LET r == Read(file, at, <<-32, 16, -32, -8, 8, -24, 8>>) IN
    IF r.values[1] > 0 /\ r.values[2] \in {8, 9}
    THEN [i \in 1..r.values[3] |-> Get(file, r.at + 16 + 240 * (i - 1), 40)]
    ELSE <<>>

ParsedPlayList(file) ==
    LET address == Read(file, 64, <<32, 32, 32>>).values
        list == Place(0, address[1])
        n == Read(file, list, <<-32, -16, 16, 16>>)
        items == ParsedItems(file, n.at, n.values[1])
        ext == Place(0, address[3])
        block(id, parsed(_)) == IF address[3] = 0 THEN {} ELSE {parsed(p) : p \in BlockAt(file, ext, id)} IN
    [baseRight |-> Get(file, 320 + 32 + 32 + 64 + 3, 1),
     items |-> items, marks |-> ParsedMarks(file, Place(0, address[2])),
     stereo |-> block(DataId(2, 1), LAMBDA p : ParsedStereo(file, p, Last(items).stn.counts)),
     dependents |-> block(DataId(2, 2), LAMBDA p : ParsedDependents(file, p))]
=============================================================================
