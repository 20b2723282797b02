------------------------------- MODULE MCReaders -------------------------------
(***************************************************************************)
(* Instances for TLC of the readers of streams.                            *)
(***************************************************************************)
EXTENDS MCDemuxers

-----------------------------------------------------------------------------
(* Audio: frames of each kind, other data and false sync words before      *)
(* them, blocks that cut them everywhere.                                  *)

AudioFrame(kind, n, len) == <<[k |-> kind, n |-> n, len |-> len]>> \o [i \in 1..(len - 1) |-> [k |-> "body", n |-> n]]
Many(from, to, Of(_)) == FlattenSeq([i \in 1..(to - from + 1) |-> Of(from + i - 1)])
Noise == <<[k |-> "body"], [k |-> "false", len |-> 9], [k |-> "body"]>>
Ac3File == Noise \o Many(1, 4, LAMBDA n : AudioFrame("ac3", n, 4 + (n % 2)) \o AudioFrame("ext", n, 3))
CoreFile ==
    Noise \o Many(0, 3, LAMBDA n : AudioFrame("ac3", n, 4)
        \o Many(1, IF n = 1 THEN 2 ELSE 3, LAMBDA m : AudioFrame(IF m = 1 THEN "major" ELSE "minor", 10 * n + m, 3 + m)))
MlpFile == Many(1, 8, LAMBDA n : AudioFrame(IF n % 3 = 1 THEN "major" ELSE "minor", n, 4 + (n % 2)))
DtsFile == Noise \o Many(1, 4, LAMBDA n : AudioFrame("dts", n, 4) \o AudioFrame("hd", n, 3 + (n % 2)))
HdFile == Many(1, 6, LAMBDA n : AudioFrame("hd", n, 3 + (n % 2)))
SideFile == Many(1, 5, LAMBDA n : AudioFrame("ac3", n, 3))
AudioFilm(kind, file, block, down) ==
    [kind |-> kind, files |-> <<file>>, block |-> block, side |-> <<SideFile>>, down |-> down, hd |-> kind = "dts",
     skip |-> 0]
AudioBlocks == {6, 7, 9, 10, 13, 17}
AudioFilms ==
    {AudioFilm("ac3", Ac3File, n, down) : n \in AudioBlocks, down \in BOOLEAN}
    \cup {AudioFilm("core", CoreFile, n, down) : n \in AudioBlocks, down \in BOOLEAN}
    \cup {AudioFilm("dts", DtsFile, n, down) : n \in AudioBlocks, down \in BOOLEAN}
    \cup {[AudioFilm("dts", DtsFile, n, FALSE) EXCEPT !.skip = 12] : n \in {7, 9}}
    \cup {AudioFilm("dts", HdFile, n, FALSE) : n \in {7, 9}}
    \cup {AudioFilm("mlp", MlpFile, n, FALSE) : n \in AudioBlocks}
    \cup {AudioFilm("merge", MlpFile, n, FALSE) : n \in AudioBlocks}

Sounds == INSTANCE AudioFrames WITH
    Films <- AudioFilms, Samples <- 6, ThdSamples <- 2, HeaderLen <- 2, ThdHeader <- 3, Reserve <- 2

-----------------------------------------------------------------------------
(* Sound without a codec: every number of channels, with and without the   *)
(* LFE, headers with and without a mask, files that are joined inside a    *)
(* frame, headers with a filler and headers that do not know the size.     *)

SamplesPerFrame == 3
WaveFormats ==
    {[channels |-> n, mask |-> {}] : n \in 1..8}
        \cup {[channels |-> 3, mask |-> {"C"}], [channels |-> 3, mask |-> {"LFE"}], [channels |-> 4, mask |-> {"C", "LFE"}]}
HasLfe(format) == IF format.mask = {} THEN format.channels \in {3, 6, 8} ELSE "LFE" \in format.mask
RecordedFrom(channels, first, n) ==
    [i \in 1..(n * channels) |-> [k |-> "sample", of |-> ((i - 1) % channels) + 1,
                                  n |-> first + ((i - 1) \div channels), big |-> FALSE]]
WaveFile(format, filler, size, cells) ==
    <<[k |-> "riff", size |-> size], [k |-> "fmt", channels |-> format.channels, mask |-> format.mask]>>
    \o (IF filler = 0 THEN <<>> ELSE <<[k |-> "fllr", size |-> filler]>> \o [i \in 1..filler |-> [k |-> "zero"]])
    \o <<[k |-> "data", size |-> size]>> \o cells
Record(files, format, n, block) ==
    [files |-> files, block |-> block, channels |-> format.channels, lfe |-> HasLfe(format),
     sound |-> RecordedFrom(format.channels, 0, n)]
WholeRecord(format, filler, known, n, block) ==
    Record(<<WaveFile(format, filler, IF known THEN n * format.channels ELSE 0, RecordedFrom(format.channels, 0, n))>>,
           format, n, block)
JoinedRecord(format, a, b, block) ==
    Record(<<WaveFile(format, 0, a * format.channels, RecordedFrom(format.channels, 0, a)),
             WaveFile(format, 0, b * format.channels, RecordedFrom(format.channels, a, b))>>, format, a + b, block)
Stereo == [channels |-> 2, mask |-> {}]
Mono == [channels |-> 1, mask |-> {}]

Pcm == INSTANCE Lpcm WITH
    Records <- {WholeRecord(format, 0, TRUE, n, 40) : format \in WaveFormats, n \in {6, 7}}
               \cup {WholeRecord(Mono, filler, TRUE, n, block) : filler \in {0, 2}, n \in {3, 5, 8}, block \in {9, 14}}
               \cup {WholeRecord(Mono, filler, FALSE, n, block) : filler \in {0, 2}, n \in {3, 6}, block \in {9, 14}}
               \cup {JoinedRecord(format, a, 5, block) : format \in {Mono, Stereo}, a \in 3..6, block \in {16, 40}},
    PerFrame <- SamplesPerFrame, HeaderMax <- 4, FrameTime <- 5

-----------------------------------------------------------------------------
(* Subtitles: two messages, of one line and of two, in UTF-8 with and      *)
(* without a signature and in another code, in blocks that cut lines and   *)
(* messages; pictures of two and three colors, and one that takes two      *)
(* segments; with fades and without.                                       *)

SrtCell(k) == [k |-> k]
SrtTime(in, out) == <<SrtCell("zero"), [k |-> "time", in |-> in, out |-> out]>>
SrtText(t) == [k |-> "text", t |-> t]
EndOfLine(dos) == IF dos THEN <<SrtCell("cr"), SrtCell("lf")>> ELSE <<SrtCell("lf")>>
SrtMessage(dos, time, lines) ==
    <<SrtCell("number")>> \o EndOfLine(dos) \o time \o EndOfLine(dos)
        \o FlattenSeq([i \in DOMAIN lines |-> lines[i] \o EndOfLine(dos)]) \o <<SrtCell("space")>> \o EndOfLine(dos)
OneLine == <<<<SrtText("a")>>>>
TallLine == <<<<SrtText("t")>>>>
TwoLines == <<<<SrtText("b"), SrtCell("space")>>, <<SrtText("c")>>>>
JoinedLines(lines) ==
    IF Len(lines) = 1 THEN lines[1] ELSE lines[1] \o <<[k |-> "newline"]>> \o lines[2]
Subtitled ==
    (JoinedLines(OneLine) :> [forced |-> TRUE, rows |-> <<<<0, 0, 0, 0>>, <<2, 2, 0, 0>>, <<2, 3, 0, 2>>, <<0, 0, 0, 0>>>>])
    @@ (JoinedLines(TallLine) :>
          [forced |-> FALSE, rows |-> <<<<2, 2, 2, 0>>, <<4, 4, 0, 0>>, <<0, 2, 2, 2>>, <<0, 0, 0, 0>>>>])
    @@ (JoinedLines(TwoLines) :>
          [forced |-> FALSE, rows |-> <<<<0, 0, 0, 0>>, <<4, 4, 5, 0>>, <<4, 0, 2, 2>>, <<2, 2, 0, 0>>>>])
SrtJob(marked, legal, dos, lines, times, block) ==
    [text |-> (IF marked THEN <<SrtCell("mark"), SrtCell("mark"), SrtCell("mark")>> ELSE <<>>)
              \o FlattenSeq([i \in DOMAIN lines |-> SrtMessage(dos, SrtTime(times[i][1], times[i][2]), lines[i])]),
     messages |-> [i \in DOMAIN lines |-> [in |-> times[i][1], out |-> times[i][2], text |-> JoinedLines(lines[i])]],
     legal |-> legal, block |-> block, cut |-> 9, fadeIn |-> 0, fadeOut |-> 0, demux |-> TRUE, stretch |-> 1, scaled |-> FALSE]
BothMessages == <<OneLine, TwoLines>>
FarTimes == <<<<41, 62>>, <<79, 121>>>>

Srt == INSTANCE Subtitles WITH
    Jobs <- {[SrtJob(marked, TRUE, dos, BothMessages, FarTimes, block) EXCEPT !.cut = block] :
                 marked, dos \in BOOLEAN, block \in {4, 7, 30}}
            \cup {[SrtJob(FALSE, FALSE, TRUE, lines, FarTimes, 30) EXCEPT !.scaled = TRUE, !.demux = own, !.stretch = stretch] :
                      lines \in {<<OneLine, TallLine>>, <<TallLine, OneLine>>}, own \in BOOLEAN, stretch \in {1, 2}}
            \cup {[SrtJob(TRUE, TRUE, FALSE, <<line>>, <<<<40, out>>>>, 30) EXCEPT !.fadeIn = in, !.fadeOut = fade] :
                      line \in {OneLine, TwoLines}, out \in {48, 72, 96}, in \in {0, 2}, fade \in {0, 3}},
    Pictures <- Subtitled, Width <- 4, Height <- 4, Shrink <- 2, Frame <- 8, DecodeRate <- 16, Ready <- 1,
    MaxPg <- 12, MaxPacket <- 6

-----------------------------------------------------------------------------

ReaderAssumptions ==
    Sounds!ReaderAssumption /\ Pcm!RecordAssumption /\ Srt!JobAssumption
=============================================================================
