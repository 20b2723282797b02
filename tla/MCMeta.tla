--------------------------------- MODULE MCMeta ---------------------------------
(***************************************************************************)
(* Instances for TLC of the lines of a meta file: files, folders in 2D and *)
(* in 3D that are looked at and opened, and lines that a user wrote.       *)
(***************************************************************************)
EXTENDS MCMov

Content(accepts, lang) ==
    [accepts |-> accepts, views |-> {}, own |-> 0, fps |-> 24, delay |-> 0, lang |-> lang]
Film == [Content({"V_MPEG4/ISO/AVC", "V_MPEG-2"}, "") EXCEPT !.views = {"base"}, !.own = 25]
OtherEye == [Film EXCEPT !.views = {"dependent"}]
BothEyes == [Film EXCEPT !.views = {"base", "dependent"}, !.own = 0]
Tongue(accepts, lang, delay) == [Content(accepts, lang) EXCEPT !.delay = delay]
Caption == Content({"S_HDMV/PGS"}, "fre")
FileOf(size, tracks) == [size |-> size, tracks |-> tracks]

NamedIn(dir, base, ext) == [dir |-> dir, base |-> base, ext |-> ext]
Disc == <<"BDMV">>
Here(base, ext) == NamedIn(<<>>, base, ext)
StreamIn(base) == NamedIn(Disc \o <<"STREAM">>, base, "m2ts")
StereoIn(base) == NamedIn(Disc \o <<"STREAM", "SSIF">>, base, "ssif")
ListIn(base) == NamedIn(Disc \o <<"PLAYLIST">>, base, "mpls")
ClipIn(dir, base, langs) == NamedIn(dir \o <<"CLIPINF">>, base, "clpi") :> [size |-> 1, tracks |-> <<>>, langs |-> langs]

MetaJob(disk, lists, look, lines, out) ==
    [disk |-> disk, lists |-> lists, look |-> look, lines |-> lines, out |-> out, opts |-> {"--blu-ray"},
     languages |-> ("ger" :> "deu") @@ ("fre" :> "fra"),
     error |-> "", mode |-> "mux", v3 |-> FALSE, count |-> 0, probed |-> {TRUE}]
Fails(job, error) == [job EXCEPT !.error = error]

-----------------------------------------------------------------------------
(* Files and folders that are looked at.                                   *)

InMkv == (1 :> BothEyes) @@ (2 :> Tongue({"A_MLP"}, "ger", 3)) @@ (3 :> Tongue({"A_AC3", "A_MP3"}, "", -2))
          @@ (5 :> Content({}, "")) @@ (6 :> Caption)
LookedAt(file, tracks, count, probed) ==
    [MetaJob(file :> FileOf(7, tracks), <<>>, <<file>>, <<>>, "mkv")
        EXCEPT !.mode = "mkv", !.count = count, !.probed = probed]
LookJobs ==
    {LookedAt(Here("film", "mkv"), InMkv, 5, BOOLEAN), LookedAt(Here("film", "264"), 0 :> BothEyes, 2, {TRUE}),
     LookedAt(Here("film", "ac3"), 0 :> Tongue({"A_AC3"}, "ger", 3), 1, {TRUE}),
     [LookedAt(Here("film", "ts"), (16 :> [Film EXCEPT !.accepts = {"V_MPEGH/ISO/HEVC"}]) @@ (32 :> Tongue({"A_DTS"}, "ger", 5)), 2, {TRUE})
        EXCEPT !.out = "iso", !.mode = "mux", !.v3 = TRUE],
     [LookedAt(Here("film", "mp4"), 5 :> Content({}, ""), 0, {}) EXCEPT !.error = "no tracks"]}

FlatTracks == (16 :> Film) @@ (32 :> Tongue({"A_AC3"}, "", 4)) @@ (40 :> Tongue({"A_DTS"}, "ger", 0)) @@ (48 :> Caption)
              @@ (49 :> Caption)
ListEntry(eyes) == [secondary |-> FALSE, eyes |-> eyes]
Flat == [items |-> <<"1", "2">>, depend |-> FALSE, mvc |-> <<>>,
         streams |-> [id \in {16, 32, 40, 48} |-> ListEntry(<<>>)]]
FlatDisk == (StreamIn("1") :> FileOf(5, FlatTracks)) @@ (StreamIn("2") :> FileOf(6, FlatTracks))
FlatJob(clips) == [MetaJob(FlatDisk @@ clips, ListIn("7") :> Flat, <<ListIn("7")>>, <<>>, "iso") EXCEPT !.count = 4, !.probed = BOOLEAN]
OldList == [ListIn("7") EXCEPT !.dir = Disc \o <<"BACKUP", "PLAYLIST">>]

Eyes == <<[id |-> 50, dependent |-> TRUE], [id |-> 51, dependent |-> FALSE]>>
Deep == [Flat EXCEPT !.depend = TRUE, !.mvc = <<"3", "4">>,
                     !.streams = [id \in {16, 32, 48} |-> ListEntry(IF id = 48 THEN Eyes ELSE <<>>)]]
BaseTracks == (16 :> Film) @@ (32 :> Tongue({"A_AC3"}, "", 4)) @@ (48 :> Caption) @@ (51 :> Caption)
EyeTracks == (17 :> OtherEye) @@ (50 :> Caption)
DeepDisk ==
    (StreamIn("1") :> FileOf(5, BaseTracks)) @@ (StreamIn("2") :> FileOf(6, BaseTracks))
        @@ (StreamIn("3") :> FileOf(2, EyeTracks)) @@ (StreamIn("4") :> FileOf(3, EyeTracks))
StereoDisk == (StereoIn("1") :> FileOf(5, BaseTracks @@ EyeTracks)) @@ (StereoIn("2") :> FileOf(6, BaseTracks @@ EyeTracks))
HalfDisk == StereoDisk @@ (StreamIn("1") :> FileOf(5, BaseTracks)) @@ (StreamIn("2") :> FileOf(6, BaseTracks))
DeepJob(disk) == [MetaJob(disk, ListIn("7") :> Deep, <<ListIn("7")>>, <<>>, "iso") EXCEPT !.count = 6, !.probed = BOOLEAN]
ListJobs ==
    {FlatJob(ClipIn(Disc, "1", 32 :> "ger")), FlatJob(ClipIn(Disc \o <<"BACKUP">>, "1", 40 :> "eng")),
     DeepJob(DeepDisk), DeepJob(StereoDisk),
     Fails([FlatJob(<<>>) EXCEPT !.look = <<OldList>>, !.lists = OldList :> Flat], "no file"),
     Fails([DeepJob(<<>>) EXCEPT !.count = 0], "no tracks")}

-----------------------------------------------------------------------------
(* Lines that a user wrote.                                                *)

Lines(codec, names, params) == <<[k |-> "track", codec |-> codec, names |-> names, params |-> params]>>
Track(id) == "track" :> id
Remark == <<[k |-> "comment"]>>
EndOfLines == <<[k |-> "empty"]>>
OptLine(opts) == <<[k |-> "muxopt", opts |-> opts]>>
JoinDisk == (Here("a", "m2ts") :> FileOf(5, FlatTracks)) @@ (Here("b", "m2ts") :> FileOf(6, FlatTracks))
            @@ (Here("c", "mkv") :> FileOf(9, InMkv)) @@ (Here("d", "ac3") :> FileOf(2, 0 :> Tongue({"A_AC3"}, "", 0)))
            @@ (Here("e", "srt") :> FileOf(1, 0 :> Content({"S_TEXT/UTF8"}, "")))
            @@ (Here("f", "thd") :> FileOf(3, 0 :> Content({"A_MLP"}, "")))
Joined == <<Here("a", "m2ts"), Here("b", "m2ts")>>
AvcLine(params) == Lines("V_MPEG4/ISO/AVC", Joined, Track(16) @@ params)
Ac3Line(params) == Lines("A_AC3", Joined, Track(32) @@ params)
Subtitle == Lines("S_TEXT/UTF8", <<Here("e", "srt")>>, ("video-width" :> 19) @@ ("video-height" :> 10) @@ ("fps" :> 24))
TrueHd(more) == Lines("A_MLP", <<Here("c", "mkv")>>, Track(2) @@ more)
ViewsLines(sei) ==
    Lines("V_MPEG4/ISO/MVC", <<Here("c", "mkv")>>, Track(1) @@ ("subTrack" :> 1) @@ ("insertSEI" :> 1))
        \o Lines("V_MPEG4/ISO/AVC", <<Here("c", "mkv")>>, Track(1) @@ ("subTrack" :> 2) @@ (sei :> 1))
Wrote(lines, out, count) == [MetaJob(JoinDisk, ListIn("7") :> Flat, <<>>, lines, out) EXCEPT !.count = count]
GoodJobs ==
    {[Wrote(OptLine({"--avchd"}) \o AvcLine("fps" :> 30) \o Remark
              \o Ac3Line("timeshift" :> [n |-> 2, unit |-> "s"]) \o Ac3Line(<<>>) \o Subtitle, "dir", 3)
        EXCEPT !.probed = BOOLEAN],
     [Wrote(Ac3Line("timeshift" :> [n |-> -2, unit |-> "ms"]) \o EndOfLines \o AvcLine(<<>>), "dir", 1) EXCEPT !.mode = "demux"],
     [Wrote(OptLine({"--blu-ray-v3"}) \o OptLine({"--vbr"}) \o AvcLine(<<>>), "mka", 1) EXCEPT !.mode = "mkv", !.v3 = TRUE],
     [Wrote(ViewsLines("forceSEI") \o TrueHd("merge-ac3-track" :> 3), "ts", 3) EXCEPT !.probed = BOOLEAN],
     [Wrote(ViewsLines("lang") \o TrueHd("merge-ac3-file" :> Here("d", "ac3")), "ts", 3) EXCEPT !.probed = BOOLEAN],
     Wrote(Lines("A_MLP", <<Here("f", "thd")>>, "merge-ac3-file" :> Here("d", "ac3")), "m2ts", 1)}
BadLines ==
    [codec |-> {Lines("A_WMA", Joined, Track(32)), Lines("S_TEXT/UTF8", <<Here("e", "srt")>>, "fps" :> 24), Ac3Line("stretch" :> 0)},
     merge |-> {TrueHd(("merge-ac3-track" :> 2)), TrueHd(("merge-ac3-track" :> 3) @@ ("merge-ac3-file" :> Here("d", "ac3"))),
                Lines("A_MLP", <<Here("c", "mkv")>>, "merge-ac3-track" :> 3)},
     playlist |-> {Lines("A_AC3", <<ListIn("8")>>, Track(32))},
     views |-> {Lines("V_MPEG4/ISO/MVC", <<ListIn("7")>>, Track(17))},
     filter |-> {Lines("V_MPEG4/ISO/MVC", <<Here("a", "m2ts")>>, Track(16) @@ ("subTrack" :> 1)),
                 Lines("A_AC3", <<Here("c", "mkv")>>, Track(3) @@ ("subTrack" :> 1))}]
BadJobs ==
    {Fails(Wrote(AvcLine(<<>>) \o line, "ts", 0), error) : line \in UNION {BadLines[e] : e \in DOMAIN BadLines}, error \in DOMAIN BadLines}
TrueBadJobs == {job \in BadJobs : Tail(job.lines) \in BadLines[job.error]}
OtherBadJobs ==
    {Fails(Wrote(Lines("A_AC3", <<Here("c", "mkv")>>, <<>>), "ts", 0), "no track"),
     Fails(Wrote(Lines("A_AC3", <<Here("d", "ac3"), Here("x", "ac3")>>, <<>>), "ts", 0), "no file"),
     Fails(Wrote(Lines("A_MLP", <<Here("f", "thd")>>, Track(2) @@ ("merge-ac3-track" :> 3)), "ts", 0), "no container"),
     Fails(Wrote(TrueHd("merge-ac3-file" :> Here("x", "ac3")), "ts", 0), "no AC-3"),
     Fails(Wrote(Remark \o EndOfLines \o AvcLine(<<>>), "ts", 0), "no tracks")}

Meta == INSTANCE MetaFile WITH
    Jobs <- LookJobs \cup ListJobs \cup GoodJobs \cup TrueBadJobs \cup OtherBadJobs, SubTracks <- 100, SecondaryAt <- 40

-----------------------------------------------------------------------------

MetaAssumptions == MovAssumptions /\ Meta!JobAssumption
=============================================================================
