-------------------------------- MODULE MetaFile --------------------------------
(***************************************************************************)
(* The lines of a meta file (metaDemuxer.cpp, main.cpp): what is found in  *)
(* a file or a playlist, the line that is written for each track, and the  *)
(* streams, readers and demuxers that the lines open.                      *)
(*                                                                         *)
(* A file is [dir, base, ext], dir a sequence; a disk maps files to        *)
(*   [size, tracks: id -> [accepts, views, own, fps, delay, lang]]         *)
(* where accepts are the readers that take the track for theirs, views the *)
(* eyes that an H.264 track has, own and fps the frame rates of the stream *)
(* and of the container.  A line is [k |-> "track", codec, names, params], *)
(* the names joined by + and params a function of what is given, or a      *)
(* "comment", a "muxopt" or an "empty" one.                                *)
(***************************************************************************)
EXTENDS Integers, Sequences, FiniteSets, SequencesExt, TLC

CONSTANTS
    Jobs,         \* [disk, lists, languages, look, lines, out, ...]
    SubTracks,    \* where the ids of sub tracks begin
    SecondaryAt   \* from this id on sound of a transport stream is secondary

JobAssumption ==
    /\ SubTracks \in Nat \ {0} /\ SecondaryAt \in Nat
    /\ \A job \in Jobs : \A file \in DOMAIN job.disk : job.disk[file].size \in Nat

VARIABLES options, mux, fed
vars == <<options, mux, fed>>

AVC == "V_MPEG4/ISO/AVC"
MVC == "V_MPEG4/ISO/MVC"
HEVC == "V_MPEGH/ISO/HEVC"
Videos == {AVC, MVC, HEVC, "V_MPEGI/ISO/VVC", "V_AV1", "V_MS/VFW/WVC1", "V_MPEG-2"}
Sounds == {"A_AAC", "A_MP3", "A_LPCM", "A_MLP", "A_FLAC", "A_OPUS", "A_DTS", "A_AC3"}
Texts == {"S_SUP", "S_HDMV/PGS", "S_TEXT/UTF8"}

Has(params, name) == name \in DOMAIN params
Param(params, name, default) == IF Has(params, name) THEN params[name] ELSE default
Exists(file) == file \in DOMAIN options.disk
IsList(name) == name.ext \in {"mpls", "mpl"}
Above(dir) == SubSeq(dir, 1, Len(dir) - 1)

\* The demuxer of a file, by its extension.
DemuxerOf ==
    [ts |-> "ts", m2ts |-> "ts", mts |-> "ts", ssif |-> "ts", vob |-> "ps", evo |-> "ps", mpg |-> "ps",
     mkv |-> "mkv", mka |-> "mkv", mks |-> "mkv", mov |-> "mov", mp4 |-> "mov", m4v |-> "mov", m4a |-> "mov"]
InContainer(file) == file.ext \in DOMAIN DemuxerOf
RawH264(file) == file.ext \in {"h264", "264", "mvc"}
DemuxerKind(file) == IF InContainer(file) THEN DemuxerOf[file.ext] ELSE "views"

-----------------------------------------------------------------------------
(* What is found.                                                          *)

\* detectTrackReader: the first reader that takes the data.
ProbeOrder ==
    <<"S_HDMV/PGS", "S_TEXT/UTF8", "A_LPCM", AVC, "A_DTS", "A_AC3", "A_MLP", "A_AAC", "A_FLAC", "A_OPUS",
      "V_MS/VFW/WVC1", HEVC, "V_MPEGI/ISO/VVC", "V_MPEG-2", "V_AV1", "A_MP3", "S_SUP">>
DetectTrackReader(track) ==
    LET takers == SelectSeq(ProbeOrder, LAMBDA program : program \in track.accepts) IN
    IF takers = <<>> THEN "none"
    ELSE IF takers[1] = AVC /\ "dependent" \in track.views THEN MVC ELSE takers[1]

\* findBluRayFile: CLIPINF beside the directory of the streams, or in the backup.
ClipDir(dir) == IF dir[Len(dir)] = "SSIF" THEN Above(Above(dir)) ELSE Above(dir)
FindClip(file) ==
    LET clip(dir) == [dir |-> dir \o <<"CLIPINF">>, base |-> file.base, ext |-> "clpi"]
        home == ClipDir(file.dir) IN
    IF Exists(clip(home)) THEN {clip(home)}
    ELSE IF Exists(clip(home \o <<"BACKUP">>)) THEN {clip(home \o <<"BACKUP">>)} ELSE {}
Corrected(lang) == IF lang \in DOMAIN options.languages THEN options.languages[lang] ELSE lang
ClipOf(file) == IF DemuxerKind(file) = "ts" /\ file.ext # "ts" THEN FindClip(file) ELSE {}
LangOf(track, id, clips) ==
    LET told == {options.disk[clip].langs[id] : clip \in {c \in clips : id \in DOMAIN options.disk[c].langs}} IN
    Corrected(IF told = {} THEN track.lang ELSE CHOOSE lang \in told : TRUE)

RateOf(track) == IF track.own = 0 THEN track.fps ELSE track.own
Found(file, id, track, program) ==
    [file |-> file, program |-> program, id |-> id, lang |-> LangOf(track, id, ClipOf(file)),
     delay |-> IF program \in Texts \cup {"none"} THEN 0 ELSE track.delay,
     fps |-> IF program \in Videos THEN RateOf(track) ELSE 0,
     secondary |-> program \in Sounds /\ DemuxerKind(file) = "ts" /\ id >= SecondaryAt,
     sub |-> 0, unused |-> FALSE, eyes |-> <<>>]

\* addTrack: a track with both views is two.
AddTrack(found, views) ==
    IF found.program = MVC /\ "base" \in views
    THEN <<[found EXCEPT !.sub = 1], [found EXCEPT !.sub = 2, !.program = AVC]>>
    ELSE <<found>>
DetectOne(file, id, track) ==
    LET found == Found(file, id, track, DetectTrackReader(track)) IN
    AddTrack(IF InContainer(file) THEN found ELSE [found EXCEPT !.lang = "", !.delay = 0], track.views)
DetectEach(file, tracks) ==
    FoldLeft(LAMBDA all, id : all \o DetectOne(file, id, tracks[id]), <<>>, SetToSortSeq(DOMAIN tracks, <))
VideosFirst(all) ==
    LET video(found) == found.program \in Videos IN
    SelectSeq(all, video) \o SelectSeq(all, LAMBDA found : ~video(found))
DetectStreamReader(file) == VideosFirst(DetectEach(file, options.disk[file].tracks))

\* The streams as a playlist has them.
InList(list, found) ==
    IF found.program = "none" THEN found
    ELSE IF found.id \in DOMAIN list.streams
    THEN [found EXCEPT !.secondary = @ \/ list.streams[found.id].secondary,
                       !.eyes = IF found.program = "S_HDMV/PGS" /\ list.depend THEN list.streams[found.id].eyes ELSE <<>>]
    ELSE [found EXCEPT !.unused = ~(found.program = MVC /\ list.depend)]
DetectWith(list, file) ==
    FoldLeft(LAMBDA all, found : Append(all, InList(list, found)), <<>>, DetectStreamReader(file))

\* The files that stand for a playlist: the one of its first item, with the dependent
\* view's, or the one with both; a copy in BACKUP has its streams outside of it.
StreamDir(name) ==
    LET home == Above(name.dir) IN
    (IF home # <<>> /\ home[Len(home)] = "BACKUP" THEN Above(home) ELSE home) \o <<"STREAM">>
StreamFile(name, base) ==
    [dir |-> StreamDir(name), base |-> base, ext |-> IF name.ext = "mpl" THEN "mts" ELSE "m2ts"]
StereoFile(name, base) ==
    [dir |-> StreamDir(name) \o <<"SSIF">>, base |-> base, ext |-> IF name.ext = "mpl" THEN "sif" ELSE "ssif"]
FilesToDetect(name, list) ==
    LET main == StreamFile(name, list.items[1])
        depended == list.depend /\ list.mvc # <<>>
        stereo == StereoFile(name, list.items[1])
        both == IF Exists(stereo) THEN stereo ELSE main IN
    IF ~Exists(main) THEN <<both>>
    ELSE IF ~depended THEN <<main>>
    ELSE IF Exists(StreamFile(name, list.mvc[1])) THEN <<StreamFile(name, list.mvc[1]), main>> ELSE <<both>>
DetectList(list, files) == FoldLeft(LAMBDA all, file : all \o DetectWith(list, file), <<>>, files)
ToDetect(name) == IF IsList(name) THEN FilesToDetect(name, options.lists[name]) ELSE <<name>>

\* The line of a track, as it is written for it.
LineOf(names, found) ==
    [k |-> "track", codec |-> found.program, names |-> names,
     params |-> (IF found.id # 0 THEN "track" :> found.id ELSE <<>>)
                @@ (IF found.sub # 0 THEN "subTrack" :> found.sub ELSE <<>>)
                @@ (IF found.secondary THEN "secondary" :> 1 ELSE <<>>)
                @@ (IF found.lang # "" THEN "lang" :> found.lang ELSE <<>>)
                @@ (IF found.delay # 0 THEN "timeshift" :> [n |-> found.delay, unit |-> "ms"] ELSE <<>>)]
LinesOf(names, found) ==
    LET taken == SelectSeq(found, LAMBDA one : ~one.unused /\ one.program # "none") IN
    [i \in DOMAIN taken |-> LineOf(names, taken[i])]

-----------------------------------------------------------------------------
(* The stream of a line.                                                   *)

Thrown(m, what) == [m EXCEPT !.error = what]
IsSubStream(codec, params) == codec = MVC \/ Has(params, "subClip")
PidOf(params) ==
    LET track == Param(params, "track", 0) IN
    IF Has(params, "subTrack") THEN track * SubTracks + params["subTrack"] ELSE track
IsSubTrack(pid) == pid >= SubTracks

\* The file of an item: the stream's or the dependent view's, or the one with both.
FullName(name, base) ==
    [dir |-> Above(name.dir) \o <<"STREAM">>, base |-> base, ext |-> IF name.ext = "mpls" THEN "m2ts" ELSE "mts"]
SsifName(name, base) ==
    [dir |-> Above(name.dir) \o <<"STREAM", "SSIF">>, base |-> base, ext |-> IF name.ext = "mpls" THEN "ssif" ELSE "sif"]
PlayFile(name, list, i, sub) ==
    LET full == FullName(name, IF sub THEN list.mvc[i] ELSE list.items[i]) IN
    IF list.depend /\ ~Exists(full) THEN SsifName(name, list.items[i]) ELSE full
PlayFiles(name, list, sub) == [i \in DOMAIN list.items |-> PlayFile(name, list, i, sub)]
HasLists(names) == \A i \in DOMAIN names : names[i] \in DOMAIN options.lists
NoViews(names) == \E i \in DOMAIN names : Len(options.lists[names[i]].mvc) < Len(options.lists[names[i]].items)
FilesOf(names, sub) ==
    IF ~IsList(names[Len(names)]) THEN names
    ELSE FlattenSeq([i \in DOMAIN names |-> PlayFiles(names[i], options.lists[names[i]], sub)])

\* createCodec: the reader of a stream, with what the line gives it.
SeiOf(params) ==
    IF Has(params, "forceSEI") THEN "force"
    ELSE IF Has(params, "insertSEI") \/ Has(params, "autoSEI") THEN "auto" ELSE "not defined"
Merged(params) == Has(params, "merge-ac3-track") \/ Has(params, "merge-ac3-file")
CodecRefused(codec, params) ==
    \/ codec \notin Videos \cup Sounds \cup Texts
    \/ codec = "S_TEXT/UTF8" /\ ({"video-width", "video-height", "fps"} \ DOMAIN params) # {}
    \/ codec \in Sounds /\ Param(params, "stretch", 1) = 0
CreateCodec(codec, params) ==
    [codec |-> codec, sub |-> codec = MVC, fps |-> IF codec \in Videos THEN Param(params, "fps", 0) ELSE 0,
     sei |-> IF codec \in {AVC, MVC} THEN SeiOf(params) ELSE "not defined",
     merge |-> codec = "A_MLP" /\ Merged(params), secondary |-> Has(params, "secondary")]

\* A track of a file belongs to the first line that names it there.
KeyOf(file, i, params) == [file |-> file, at |-> i, sub |-> Has(params, "subClip"), pid |-> PidOf(params)]
WithKeys(s) ==
    LET key(i) == KeyOf(s.files[i], i, s.params)
        own == SelectSeq([i \in DOMAIN s.files |-> i], LAMBDA i : key(i) \notin s.m.keys) IN
    [s EXCEPT !.files = [n \in DOMAIN own |-> s.files[own[n]]], !.done = own = <<>>,
              !.m.keys = @ \cup {key(i) : i \in DOMAIN s.files}]

\* The size of the files counts once for all tracks of a container.
Missing(files) == \E i \in DOMAIN files : ~Exists(files[i])
SizesOf(files) == FoldLeft(LAMBDA sum, file : sum + options.disk[file].size, 0, files)
WithSize(s) ==
    IF s.files[1] \in DOMAIN s.m.demuxers THEN s
    ELSE IF Missing(s.files) THEN [s EXCEPT !.m = Thrown(@, "no file")]
    ELSE [s EXCEPT !.size = SizesOf(s.files)]

WithReader(s) ==
    IF CodecRefused(s.codec, s.params) THEN [s EXCEPT !.m = Thrown(@, "codec")]
    ELSE IF InContainer(s.files[1]) /\ PidOf(s.params) = 0 THEN [s EXCEPT !.m = Thrown(@, "no track")]
    ELSE [s EXCEPT !.reader = CreateCodec(s.codec, s.params),
                   !.through = InContainer(s.files[1]) \/ (RawH264(s.files[1]) /\ PidOf(s.params) # 0)]

\* ContainerToReaderWrapper: a demuxer goes through the files that were known when it
\* was opened, and has a filter for each track that has sub tracks.
NoDemuxer == [files |-> <<>>, more |-> <<>>, pids |-> {}, filters |-> {}, fragmented |-> TRUE]
DemuxerIn(m, file) == IF file \in DOMAIN m.demuxers THEN m.demuxers[file] ELSE NoDemuxer
SetFileIterator(demuxer, files) == IF demuxer.more = <<>> /\ Len(files) > 1 THEN [demuxer EXCEPT !.more = files] ELSE demuxer
Opened(demuxer, file) ==
    IF demuxer.files # <<>> THEN demuxer
    ELSE [demuxer EXCEPT !.files = IF demuxer.more = <<>> THEN <<file>> ELSE demuxer.more]
Filtered(demuxer, pid) ==
    IF IsSubTrack(pid) THEN [demuxer EXCEPT !.filters = @ \cup {pid \div SubTracks}] ELSE demuxer
Reading(demuxer, pid, codec) ==
    [demuxer EXCEPT !.pids = @ \cup {pid}, !.fragmented = @ /\ codec \in Texts]
FilterRefused(demuxer, file, pid, codec) ==
    /\ IsSubTrack(pid)
    /\ \/ DemuxerKind(file) \notin {"views", "mkv", "mov"}
       \/ pid \div SubTracks \notin demuxer.filters /\ codec \notin {AVC, MVC}
OpenStream(m, file, files, pid, codec) ==
    LET opened == Opened(SetFileIterator(DemuxerIn(m, file), files), file) IN
    IF FilterRefused(opened, file, pid, codec)
    THEN Thrown([m EXCEPT !.demuxers = (file :> opened) @@ @], "filter")
    ELSE [m EXCEPT !.demuxers = (file :> Reading(Filtered(opened, pid), pid, codec)) @@ @,
                   !.readers = @ \cup {[id |-> m.created + 1, file |-> file, pid |-> pid]},
                   !.created = @ + 1]
WithDemuxer(s) ==
    IF s.through THEN [s EXCEPT !.m = OpenStream(@, s.files[1], s.files, PidOf(s.params), s.codec)]
    ELSE [s EXCEPT !.m.created = @ + 1]

\* The rate of the container where the stream has to be given one.
ContainerRate(s) ==
    LET tracks == options.disk[s.files[1]].tracks
        pid == PidOf(s.params) IN
    IF s.through /\ pid \in DOMAIN tracks THEN tracks[pid].fps ELSE 0
WithRate(s) ==
    IF s.codec \in Videos /\ s.reader.fps = 0 /\ ~Has(s.params, "fps")
    THEN [s EXCEPT !.reader.fps = ContainerRate(s)] ELSE s
ShiftOf(params) ==
    LET shift == Param(params, "timeshift", [n |-> 0, unit |-> "ms"]) IN
    shift.n * (IF shift.unit = "s" THEN 1000 ELSE 1)
WithStream(s) ==
    [s EXCEPT !.m.total = @ + s.size,
              !.m.streams = Append(@,
                  [index |-> Len(@) + 1, pcr |-> @ = <<>>, files |-> s.files, pid |-> PidOf(s.params),
                   names |-> s.names, sub |-> IsSubStream(s.codec, s.params), reader |-> s.reader,
                   id |-> s.m.created, through |-> s.through, merge |-> 0, eyes |-> s.eyes,
                   shift |-> ShiftOf(s.params), dts |-> IF ShiftOf(s.params) > 0 THEN ShiftOf(s.params) ELSE 0,
                   lang |-> Param(s.params, "lang", "")])]

\* The AC-3 of a TrueHD stream: a track beside it, or a file.
Newest(m) == Len(m.streams)
WithMerge(s) ==
    IF ~s.reader.merge THEN s
    ELSE IF Has(s.params, "merge-ac3-file")
    THEN IF Exists(s.params["merge-ac3-file"])
         THEN [s EXCEPT !.m.created = @ + 1, !.m.streams[Newest(s.m)].merge = s.m.created + 1]
         ELSE [s EXCEPT !.m = Thrown(@, "no AC-3")]
    ELSE IF ~s.through THEN [s EXCEPT !.m = Thrown(@, "no container")]
    ELSE LET opened == OpenStream(s.m, s.files[1], <<>>, s.params["merge-ac3-track"], "A_AC3") IN
         [s EXCEPT !.m = IF opened.error = "" THEN [opened EXCEPT !.streams[Newest(s.m)].merge = opened.created] ELSE opened]

\* addStream, but for the eyes of its subtitles.
Stage(s, name) ==
    CASE name = "keys" -> WithKeys(s)
      [] name = "size" -> WithSize(s)
      [] name = "reader" -> WithReader(s)
      [] name = "demuxer" -> WithDemuxer(s)
      [] name = "rate" -> WithRate(s)
      [] name = "stream" -> WithStream(s)
      [] OTHER -> WithMerge(s)
Stages == <<"keys", "size", "reader", "demuxer", "rate", "stream", "merge">>
Adding(m, codec, names, params, eyes) ==
    [m |-> m, codec |-> codec, names |-> names, params |-> params, eyes |-> eyes, done |-> FALSE, size |-> 0,
     files |-> FilesOf(names, IsSubStream(codec, params)), reader |-> <<>>, through |-> FALSE]
AddOne(m, codec, names, params, eyes) ==
    IF m.error # "" THEN m
    ELSE IF IsList(names[Len(names)]) /\ ~HasLists(names) THEN Thrown(m, "playlist")
    ELSE IF IsList(names[Len(names)]) /\ IsSubStream(codec, params) /\ NoViews(names) THEN Thrown(m, "views")
    ELSE FoldLeft(LAMBDA s, name : IF s.done \/ s.m.error # "" THEN s ELSE Stage(s, name),
                  Adding(m, codec, names, params, eyes), Stages).m

\* addPGSubStream: an eye of stereo subtitles is a stream of its own before them.
EyesOf(name, params) ==
    LET streams == options.lists[name].streams
        pid == PidOf(params) IN
    IF pid \in DOMAIN streams THEN streams[pid].eyes ELSE <<>>
AddEye(m, codec, name, params, eye) ==
    AddOne(m, codec, <<name>>,
           ("track" :> eye.id) @@ (IF eye.dependent THEN "subClip" :> 1 ELSE <<>>) @@ params, <<>>)
IndexOfEye(before, after) == IF Newest(after) > Newest(before) THEN Newest(after) ELSE -1
WithEyes(s, name) ==
    LET eyes == EyesOf(name, s.params) IN
    IF eyes = <<>> THEN s
    ELSE LET left == AddEye(s.m, s.codec, name, s.params, eyes[1])
             right == AddEye(left, s.codec, name, s.params, eyes[2]) IN
         [s EXCEPT !.m = right, !.eyes = <<IndexOfEye(s.m, left), IndexOfEye(left, right)>>]
AddStream(m, codec, names, params) ==
    LET s == IF IsList(names[Len(names)]) /\ HasLists(names)
             THEN FoldLeft(WithEyes, [m |-> m, codec |-> codec, params |-> params, eyes |-> <<>>], names)
             ELSE [m |-> m, eyes |-> <<>>] IN
    AddOne(s.m, codec, names, params, s.eyes)

\* What may not be together in a line, which is told before the stream is added.
Refused(line) ==
    LET p == line.params IN
    /\ line.codec = "A_MLP" /\ Has(p, "merge-ac3-track")
    /\ Has(p, "merge-ac3-file") \/ Param(p, "track", 0) = 0
       \/ p["merge-ac3-track"] \in {0, Param(p, "track", 0)}

-----------------------------------------------------------------------------
(* The steps.                                                              *)

Fresh ==
    [stage |-> "look", found |-> <<>>, lines |-> <<>>, streams |-> <<>>, keys |-> {}, demuxers |-> <<>>,
     readers |-> {}, created |-> 0, total |-> 0, hevc |-> FALSE, error |-> "", probes |-> <<>>,
     mode |-> "", disk |-> "none", v3 |-> FALSE, stereo |-> FALSE]
Init == options \in Jobs /\ mux = Fresh /\ fed = 0

\* A file or a playlist is looked at; the lines are the job's when there is none.
Look ==
    /\ mux.stage = "look" /\ options.look # <<>>
    /\ LET files == ToDetect(options.look[1])
           found == IF Missing(files) THEN <<>>
                    ELSE IF IsList(options.look[1]) THEN DetectList(options.lists[options.look[1]], files)
                    ELSE DetectStreamReader(files[1]) IN
       mux' = [mux EXCEPT !.found = found, !.stage = "options",
                          !.lines = <<[k |-> "muxopt", opts |-> options.opts]>> \o LinesOf(options.look, found)]
    /\ UNCHANGED <<options, fed>>
Written ==
    /\ mux.stage = "look" /\ options.look = <<>>
    /\ mux' = [mux EXCEPT !.stage = "options", !.lines = options.lines]
    /\ UNCHANGED <<options, fed>>

\* checkBluRayMux and main: the lines to the first empty one; the last options count.
Read(lines) ==
    LET empty == {i \in DOMAIN lines : lines[i].k = "empty"} IN
    IF empty = {} THEN lines ELSE SubSeq(lines, 1, (CHOOSE i \in empty : \A j \in empty : i <= j) - 1)
OptsOf(lines) == SelectSeq(Read(lines), LAMBDA line : line.k = "muxopt")
DiskOf(lines) ==
    LET all == OptsOf(lines) IN
    IF all = <<>> THEN "none"
    ELSE IF {"--blu-ray", "--blu-ray-v3"} \cap all[Len(all)].opts # {} THEN "blu-ray"
    ELSE IF "--avchd" \in all[Len(all)].opts THEN "avchd" ELSE "none"
ModeOf(lines) ==
    IF options.out \in {"mkv", "mka"} THEN "mkv"
    ELSE IF options.out \in {"m2ts", "ts", "ssif", "iso"} \/ DiskOf(lines) # "none" THEN "mux" ELSE "demux"
Options ==
    /\ mux.stage = "options"
    /\ mux' = [mux EXCEPT !.stage = "lines", !.mode = ModeOf(mux.lines), !.disk = DiskOf(mux.lines), !.lines = Read(mux.lines),
                          !.v3 = \E i \in DOMAIN OptsOf(mux.lines) : "--blu-ray-v3" \in OptsOf(mux.lines)[i].opts,
                          !.stereo = \E i \in DOMAIN Read(mux.lines) :
                                         Read(mux.lines)[i].k = "track" /\ Read(mux.lines)[i].codec = MVC]
    /\ UNCHANGED <<options, fed>>

\* openFile: a line.
Line ==
    /\ mux.stage = "lines" /\ mux.lines # <<>> /\ mux.error = ""
    /\ LET line == mux.lines[1]
           m == [mux EXCEPT !.lines = Tail(@)] IN
       mux' = IF line.k # "track" THEN m
              ELSE IF Refused(line) THEN Thrown(m, "merge")
              ELSE AddStream([m EXCEPT !.hevc = @ \/ line.codec = HEVC], line.codec, line.names, line.params)
    /\ fed' = fed + 1 /\ UNCHANGED options

\* The dependent views take the SEI of the first base view; the version of a disk with
\* HEVC; no stream at all is an error.
H264Of(streams, sub) == {i \in DOMAIN streams : streams[i].reader.codec \in {AVC, MVC} /\ streams[i].reader.sub = sub}
PrimarySei(streams) ==
    LET base == H264Of(streams, FALSE) IN
    IF base = {} THEN "not defined" ELSE streams[CHOOSE i \in base : \A j \in base : i <= j].reader.sei
WithSei(streams) ==
    [i \in DOMAIN streams |->
        IF PrimarySei(streams) # "not defined" /\ i \in H264Of(streams, TRUE)
        THEN [streams[i] EXCEPT !.reader.sei = PrimarySei(streams)] ELSE streams[i]]
Finish ==
    /\ mux.stage = "lines" /\ mux.lines = <<>> /\ mux.error = ""
    /\ mux' = [mux EXCEPT !.stage = "probe", !.streams = WithSei(@),
                          !.v3 = @ \/ (mux.mode = "mux" /\ mux.hevc /\ mux.disk = "blu-ray"),
                          !.error = IF mux.streams = <<>> THEN "no tracks" ELSE ""]
    /\ UNCHANGED <<options, fed>>

\* discoverStreams: each track of a file by a demuxer of its own, which has no filters.
Probed(stream) ==
    LET file == stream.files[1]
        tracks == options.disk[file].tracks
        id == IF InContainer(file) THEN stream.pid ELSE 0
        program == IF stream.reader.codec = MVC THEN AVC ELSE stream.reader.codec IN
    /\ id \in DOMAIN tracks
    /\ stream.reader.codec \notin Texts
    /\ program \in tracks[id].accepts
Probe ==
    /\ mux.stage = "probe" /\ mux.error = ""
    /\ mux' = [mux EXCEPT !.stage = "run", !.probes = [i \in DOMAIN mux.streams |-> Probed(mux.streams[i])]]
    /\ UNCHANGED <<options, fed>>

\* readClose and deleteReader: the last track of a demuxer takes it along.
DeleteReader(m, id) ==
    IF \A reader \in m.readers : reader.id # id THEN m
    ELSE LET reader == CHOOSE r \in m.readers : r.id = id
             left == m.demuxers[reader.file].pids \ {reader.pid} IN
         [m EXCEPT !.readers = @ \ {reader},
                   !.demuxers = IF left = {} THEN [file \in DOMAIN @ \ {reader.file} |-> @[file]]
                                ELSE [@ EXCEPT ![reader.file].pids = left]]
CloseStream(m, stream) ==
    IF stream.merge # 0 THEN DeleteReader(DeleteReader(m, stream.merge), stream.id) ELSE DeleteReader(m, stream.id)
ReadClose ==
    /\ mux.stage = "run"
    /\ mux' = [FoldLeft(CloseStream, mux, mux.streams) EXCEPT !.stage = "closed", !.streams = <<>>]
    /\ UNCHANGED <<options, fed>>

Done == (mux.stage = "closed" \/ mux.error # "") /\ UNCHANGED vars
Next == Done \/ Look \/ Written \/ Options \/ Line \/ Finish \/ Probe \/ ReadClose
Spec == Init /\ [][Next]_vars

-----------------------------------------------------------------------------

TypeOK ==
    /\ options \in Jobs
    /\ mux.stage \in {"look", "options", "lines", "probe", "run", "closed"}
    /\ mux.created \in Nat /\ fed \in Nat
    /\ \A i \in DOMAIN mux.streams : mux.streams[i].pid \in Nat

\* No two streams read one track of a file, and the demuxer of a stream reads that
\* track, in exactly the files of the stream.
TracksRead ==
    \A i \in DOMAIN mux.streams :
        LET stream == mux.streams[i] IN
        /\ \A j \in DOMAIN mux.streams \ {i} :
               ToSet(mux.streams[j].files) \cap ToSet(stream.files) = {} \/ mux.streams[j].pid # stream.pid
        /\ stream.through =>
               /\ mux.demuxers[stream.files[1]].files = stream.files
               /\ \E reader \in mux.readers : reader = [id |-> stream.id, file |-> stream.files[1], pid |-> stream.pid]
               /\ stream.pid \in mux.demuxers[stream.files[1]].pids

\* Stereo subtitles know their eyes, which stand before them; a dependent view has the
\* SEI of the base view.
ViewsMatch ==
    \A i \in DOMAIN mux.streams :
        LET stream == mux.streams[i] IN
        /\ stream.eyes # <<>> =>
               \A n \in 1..2 : /\ stream.eyes[n] \in 1..(i - 1)
                               /\ mux.streams[stream.eyes[n]].pid = EyesOf(stream.names[1], "track" :> stream.pid)[n].id
        /\ (mux.stage = "run" /\ i \in H264Of(mux.streams, TRUE) /\ PrimarySei(mux.streams) # "not defined")
               => stream.reader.sei = PrimarySei(mux.streams)

\* Every track that was found is opened by its line: its reader takes the data of that
\* track in every file, and the time it begins at is the one found.
FoundIsOpened ==
    (options.look # <<>> /\ mux.stage = "run") =>
        LET taken == SelectSeq(mux.found, LAMBDA one : ~one.unused /\ one.program # "none")
            opened(one) ==
                {i \in DOMAIN mux.streams :
                    /\ mux.streams[i].reader.codec = one.program
                    /\ mux.streams[i].pid = one.sub + one.id * (IF one.sub = 0 THEN 1 ELSE SubTracks)
                    /\ mux.streams[i].files[1] = one.file
                    /\ mux.streams[i].shift = one.delay} IN
        /\ \A n \in DOMAIN taken : Cardinality(opened(taken[n])) = 1
        /\ \A i \in DOMAIN mux.streams : \A n \in DOMAIN mux.streams[i].files :
               LET id == IF IsSubTrack(mux.streams[i].pid) THEN mux.streams[i].pid \div SubTracks
                         ELSE IF RawH264(mux.streams[i].files[n]) THEN 0 ELSE mux.streams[i].pid IN
               /\ id \in DOMAIN options.disk[mux.streams[i].files[n]].tracks
               /\ DetectTrackReader(options.disk[mux.streams[i].files[n]].tracks[id])
                      \in {mux.streams[i].reader.codec} \cup (IF mux.streams[i].reader.codec = AVC THEN {MVC} ELSE {})

\* The size that progress is measured by is that of all files that are read.
SizeCounted ==
    mux.stage = "run" =>
        mux.total = SizesOf(SetToSeq(UNION {ToSet(mux.streams[i].files) : i \in DOMAIN mux.streams}))

\* What the job expects of its lines; and nothing is left behind.
AsExpected ==
    /\ mux.stage \in {"run", "closed"} => options.error = "" /\ mux.mode = options.mode /\ mux.v3 = options.v3
    /\ mux.stage = "run" => Len(mux.streams) = options.count /\ ToSet(mux.probes) = options.probed
    /\ mux.error # "" => mux.error = options.error
    /\ mux.stage = "closed" => mux.readers = {} /\ mux.demuxers = <<>>

\* The lines of a meta file open what they name.
StreamsOpened == TracksRead /\ ViewsMatch /\ FoundIsOpened /\ SizeCounted /\ AsExpected
=============================================================================
