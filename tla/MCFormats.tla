------------------------------ MODULE MCFormats ------------------------------
(***************************************************************************)
(* Instances for TLC of the modules about single files: each writes or     *)
(* reads in one thread, and the properties are about what stands in a file *)
(* at the end.  The modules share their variables, and a behaviour is one  *)
(* of one module, that the first state chooses.                            *)
(***************************************************************************)
EXTENDS Ebml, MCPictures

VARIABLE which       \* the module of this behaviour

-----------------------------------------------------------------------------
(* Demultiplexing: a stream and a PCM stream, with and without a writer    *)
(* thread, and with both kinds of descriptors that append.                 *)

DemuxJobs ==
    {[async |-> async, appends |-> appends, streams |-> {"a", "b"}, pcm |-> {"a"}] :
        async, appends \in BOOLEAN}
Demux == INSTANCE SingleFileMuxer WITH
    Jobs <- DemuxJobs, Block <- 6, Round <- 2, Spare <- 5, SizeLimit <- 13, SizeMax <- 20,
    Sizes <- {1, 3, 8}, MaxUnits <- 16

-----------------------------------------------------------------------------
(* Images: two parts of one stream, one part of two streams that a third   *)
(* file joins, and an area for metadata that is too small.                 *)

FlatImage ==
    [dirs |-> <<<<"S">>, <<"B", "C">>>>, parts |-> <<<<<<"S", "0">>>>, <<<<"S", "1">>>>>>,
     joined |-> <<>>, small |-> {<<"i">>, <<"B", "C", "0">>}, metadata |-> 28]
StereoImage ==
    [FlatImage EXCEPT !.parts = <<<<<<"S", "0">>, <<"S", "1">>>>>>, !.joined = <<<<"S", "F", "0">>>>]
Image == INSTANCE IsoWriter WITH
    Images <- {FlatImage, StereoImage, [FlatImage EXCEPT !.metadata = 20]},
    SectorSize <- 3, AllocBlock <- 4, PartitionStart <- 4, VolumeAt <- 1, IntegrityAt <- 2,
    AnchorAt <- 3, MaxExtent <- 11, InFile <- 1, InCont <- 2, BlockSizes <- {1, 2},
    SmallSizes <- {2, 6}, MaxBlocks <- 6

-----------------------------------------------------------------------------
(* Matroska: films that are muxed and read again, and files that another   *)
(* program made.                                                           *)

UnknownSize == 100000
HalfRange == 8
NoTimeOfFrame == -HalfRange * HalfRange
ParameterSets == <<<<Cell("parameters", 0)>>, <<Cell("parameters", 1), Cell("nal", 0)>>>>
Audio == [video |-> FALSE, nals |-> FALSE, private |-> <<>>, payloads |-> {<<"data">>}]
Mpeg == [Audio EXCEPT !.video = TRUE]
H264 == [Mpeg EXCEPT !.nals = TRUE, !.private = ParameterSets,
                     !.payloads = {<<"start", "nal", "nal", "zero", "start", "nal">>,
                                   <<"start", "parameters", "zero">>}]
OwnFilm(tracks, n, steps) ==
    [tracks |-> tracks, packets |-> n, steps |-> steps, file |-> <<>>, frames |-> <<>>]
ForeignFilm(file, frames) ==
    [OwnFilm(<<Audio, Audio>>, 0, {}) EXCEPT !.file = file, !.frames = frames]

UnitOfData(n) == <<Cell("data", n)>>
DataUnits(n) == [i \in 1..n |-> Cell("data", i)]
Block(id, track, time, flags, body) ==
    Element(id, Number(track) \o Number(time) \o <<Cell("flags", flags)>> \o body)
TrackOf(number, more) == Element("TrackEntry", Element("TrackNumber", Number(number)) \o more)
Beginning(tracks) ==
    Element("EBML", Element("DocType", Number(0))) \o <<Cell("Segment", 0), Cell("size", UnknownSize)>>
        \o Element("Void", Number(1)) \o Element("Tracks", tracks)
Timecode(n) == Element("Timecode", Number(n))
Open(id) == <<Cell(id, 0), Cell("size", UnknownSize)>>
Frame(track, time, key, data) == [track |-> track, time |-> time, key |-> key, data |-> data]

\* Groups, laces of every kind, times before their cluster's and before the first,
\* a track that is not known, tables at the front and elements at the end.
LacedFile ==
    Beginning(TrackOf(7, <<>>) \o TrackOf(9, <<>>))
    \o Element("Cues", Element("CuePoint", Element("CueTime", Number(1))))
    \o Element("Cluster", Timecode(3)
         \o Element("BlockGroup", Block("Block", 7, 1, 0, UnitOfData(1)) \o Element("BlockReference", Number(1)))
         \o Block("SimpleBlock", 9, -2, 3, Number(1) \o Number(3) \o Number(1) \o DataUnits(5))
         \o Element("BlockGroup", Element("BlockDuration", Number(5))
               \o Block("Block", 9, 2, 6, Number(2) \o Number(2) \o Number(-1) \o DataUnits(5))))
    \o Element("Cluster", Timecode(30) \o Block("SimpleBlock", 8, 0, 0, UnitOfData(1))
         \o Element("BlockGroup", Element("BlockDuration", Number(5))
               \o Block("Block", 7, -4, 4, Number(1) \o DataUnits(2))))
    \o Element("Tags", Number(1))
LacedFrames ==
    <<Frame(1, 4, FALSE, UnitOfData(1)), Frame(2, 1, TRUE, DataUnits(4)),
      Frame(2, NoTimeOfFrame, FALSE, UnitOfData(5)), Frame(2, 5, TRUE, DataUnits(2)),
      Frame(2, 10, FALSE, UnitOfData(3)), Frame(2, 15, FALSE, UnitOfData(4) \o UnitOfData(5)),
      Frame(1, 26, TRUE, UnitOfData(1)), Frame(1, 31, FALSE, UnitOfData(2))>>

\* Clusters of unknown size, each of which is read inside the one before it.
LiveFile ==
    Beginning(TrackOf(7, <<>>)) \o Open("Cluster") \o Timecode(3) \o Block("SimpleBlock", 7, 0, 1, UnitOfData(1))
        \o Open("Cluster") \o Timecode(9) \o Block("SimpleBlock", 7, 1, 0, UnitOfData(2))
        \o Open("Cluster") \o Timecode(20) \o Block("SimpleBlock", 7, -1, 1, UnitOfData(3))
LiveFrames ==
    <<Frame(1, 3, TRUE, UnitOfData(1)), Frame(1, 10, FALSE, UnitOfData(2)), Frame(1, 19, TRUE, UnitOfData(3))>>

Films == {OwnFilm(<<Mpeg, Audio>>, 3, {-1, 0, 4, 13}), OwnFilm(<<H264>>, 3, {0, 4}),
          ForeignFilm(LacedFile, LacedFrames), ForeignFilm(LiveFile, LiveFrames)}

Mkv == INSTANCE Matroska WITH
    Films <- Films, PtsPerMs <- 2, ClusterTime <- 5, KeyTime <- 2, ClusterSize <- 24, TimeRange <- HalfRange,
    LaceMax <- 3, MaxDepth <- 5, Unknown <- UnknownSize

-----------------------------------------------------------------------------
(* Blu-ray folders: a film in parts, with chapters; music; both eyes; and  *)
(* a disk of version 3 with a second layer and a picture in the picture.   *)

StreamOf(pid, type) ==
    [pid |-> pid, type |-> type, secondary |-> FALSE, hdr |-> 1, needs |-> type \in {27, 32},
     format |-> 6, rate |-> 1, lang |-> 7, offset |-> 3, eyes |-> <<>>, index |-> <<>>]
Base == StreamOf(1, 27)
Sound == StreamOf(3, 129)
Text == StreamOf(5, 144)
Folder(streams) ==
    [streams |-> streams, main |-> [m \in DOMAIN streams |-> 1], splitTime |-> 0, splitSize |-> 0,
     first |-> 4, chapterLen |-> 0, marks |-> <<>>, baseRight |-> FALSE, v3 |-> FALSE,
     frames |-> 4]
Folders ==
    {[Folder(<<<<Base, Sound, Text>>>>) EXCEPT
         !.splitTime = 8, !.marks = <<0, 5, 9, 11, 90>>, !.frames = 5],
     [Folder(<<<<Sound, [Sound EXCEPT !.pid = 4]>>>>) EXCEPT !.chapterLen = 1, !.frames = 5],
     [Folder(<<<<Base, [Text EXCEPT !.eyes = <<[pid |-> 6, ref |-> 1], [pid |-> 7, ref |-> 2]>>],
                 [Text EXCEPT !.pid = 6]>>, <<StreamOf(2, 32)>>>>)
         EXCEPT !.splitSize = 16, !.baseRight = TRUE, !.frames = 5],
     [Folder(<<<<[Base EXCEPT !.type = 36, !.hdr = 2, !.needs = FALSE],
                 [Base EXCEPT !.pid = 2, !.type = 36, !.hdr = 4, !.needs = FALSE], Sound>>>>)
         EXCEPT !.splitTime = 8, !.chapterLen = 2, !.v3 = TRUE],
     [Folder(<<<<Base, Sound, [Sound EXCEPT !.pid = 4, !.secondary = TRUE],
                 [Base EXCEPT !.pid = 8, !.secondary = TRUE]>>>>) EXCEPT !.splitTime = 8, !.frames = 3]}

Disk == INSTANCE BluRay WITH
    PtsFine <- 2, PtsCoarse <- 8, SpnUnit <- 4, ChapterUnit <- 3, FrameTime <- 2, Second <- 12,
    ClockTime <- 5, Tables <- 4, Sector <- 2, BlockSize <- 12, Sizes <- {3}, Steps <- {3, 14}

-----------------------------------------------------------------------------

Modules ==
    {"Demux", "Image", "Mkv", "Disk", "Ts", "Ps", "Mvc", "Sounds", "Window", "Movies", "Lines", "Records",
     "Titles", "Pictures"}
vars == <<options, mux, fed, which>>

ASSUME Assumptions == Demux!DemuxAssumption /\ Image!ImageAssumption /\ Mkv!FilmAssumption /\ Disk!FolderAssumption /\ DemuxerAssumptions /\ MetaAssumptions /\ Video!PictureAssumption

Init ==
    /\ which \in Modules
    /\ which = "Demux" => Demux!Init
    /\ which = "Image" => Image!Init
    /\ which = "Mkv" => Mkv!Init
    /\ which = "Disk" => Disk!Init
    /\ which = "Ts" => Ts!Init
    /\ which = "Ps" => Ps!Init
    /\ which = "Mvc" => Mvc!Init
    /\ which = "Sounds" => Sounds!Init
    /\ which = "Window" => Window!Init
    /\ which = "Movies" => Mov!Init
    /\ which = "Lines" => Meta!Init
    /\ which = "Records" => Pcm!Init
    /\ which = "Titles" => Srt!Init
    /\ which = "Pictures" => Video!Init
DemuxStep == which = "Demux" /\ Demux!Next /\ UNCHANGED which
ImageStep == which = "Image" /\ Image!Next /\ UNCHANGED which
MkvStep == which = "Mkv" /\ Mkv!Next /\ UNCHANGED which
DiskStep == which = "Disk" /\ Disk!Next /\ UNCHANGED which
TsStep == which = "Ts" /\ Ts!Next /\ UNCHANGED which
PsStep == which = "Ps" /\ Ps!Next /\ UNCHANGED which
MvcStep == which = "Mvc" /\ Mvc!Next /\ UNCHANGED which
SoundsStep == which = "Sounds" /\ Sounds!Next /\ UNCHANGED which
WindowStep == which = "Window" /\ Window!Next /\ UNCHANGED which
MoviesStep == which = "Movies" /\ Mov!Next /\ UNCHANGED which
LinesStep == which = "Lines" /\ Meta!Next /\ UNCHANGED which
RecordsStep == which = "Records" /\ Pcm!Next /\ UNCHANGED which
TitlesStep == which = "Titles" /\ Srt!Next /\ UNCHANGED which
PicturesStep == which = "Pictures" /\ Video!Next /\ UNCHANGED which
Next ==
    \/ DemuxStep \/ ImageStep \/ MkvStep \/ DiskStep \/ TsStep \/ PsStep \/ MvcStep \/ SoundsStep \/ WindowStep \/ MoviesStep \/ LinesStep
    \/ RecordsStep \/ TitlesStep \/ PicturesStep
Spec == Init /\ [][Next]_vars

\* Every module keeps its types.
TypeOK ==
    /\ which \in Modules
    /\ which = "Demux" => Demux!TypeOK
    /\ which = "Image" => Image!TypeOK
    /\ which = "Mkv" => Mkv!TypeOK
    /\ which = "Disk" => Disk!TypeOK
    /\ which = "Ts" => Ts!TypeOK
    /\ which = "Ps" => Ps!TypeOK
    /\ which = "Mvc" => Mvc!TypeOK
    /\ which = "Sounds" => Sounds!TypeOK
    /\ which = "Window" => Window!TypeOK
    /\ which = "Movies" => Mov!TypeOK
    /\ which = "Lines" => Meta!TypeOK
    /\ which = "Records" => Pcm!TypeOK
    /\ which = "Titles" => Srt!TypeOK
    /\ which = "Pictures" => Video!TypeOK

\* The properties of each module, where its behaviours are the ones.
FilesDemuxed == which = "Demux" => Demux!FilesDemuxed
ImageReadsBack == which = "Image" => Image!ImageReadsBack
FilmsReadBack == which = "Mkv" => Mkv!FilmsReadBack /\ Mkv!TablesTrue
ClipsTrue == which = "Disk" => Disk!ClipsTrue
PlayListTrue == which = "Disk" => Disk!PlayListTrue
StreamsDemuxed ==
    /\ which = "Ts" => Ts!PacketsDemuxed
    /\ which = "Ps" => Ps!PacketsDemuxed
    /\ which = "Mvc" => Mvc!UnitsDemuxed
    /\ which = "Movies" => Mov!ChunksDemuxed
    /\ which = "Lines" => Meta!StreamsOpened
FramesRead ==
    /\ which = "Sounds" => Sounds!FramesDelivered
    /\ which = "Records" => Pcm!SoundKept
    /\ which = "Titles" => Srt!SubtitlesShown
    /\ which = "Pictures" => Video!UnitsKept /\ Video!Timed /\ Video!Completed
WindowTrue == which = "Window" => Window!WindowTrue
=============================================================================
