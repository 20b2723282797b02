-------------------------------- MODULE Subtitles --------------------------------
(***************************************************************************)
(* Subtitles: text (srtStreamReader.cpp) that is rendered and becomes      *)
(* graphics (textSubtitles.cpp), and the reader of graphics                *)
(* (pgsStreamReader.cpp), that copies them, changes their rate or scales   *)
(* their pictures.                                                         *)
(*                                                                         *)
(* Text is a sequence of cells: "mark" (the signature of UTF-8 has three), *)
(* "number", "zero" (the first digit of a time), "time", "text", "space",  *)
(* "cr" and "lf".  Graphics are a sequence of cells too: the header of a   *)
(* packet (two cells, "pg" or "pes" and "dts"), "segment" with the number  *)
(* of cells behind it, and these.  Drawing letters is external, and so is  *)
(* the transport stream that graphics may come from.                       *)
(***************************************************************************)
EXTENDS Integers, Sequences, FiniteSets, SequencesExt, TLC

CONSTANTS
    Jobs,            \* [text, legal, block, messages, fadeIn, fadeOut, demux, stretch, scaled]
    Pictures,        \* what each text looks like
    Width, Height,   \* of the video
    Shrink,          \* by how much pictures are scaled down
    Frame,           \* the time of a frame
    DecodeRate,      \* pixels decoded in a tick, half of those composed
    Ready,           \* 90: what the end of a display set comes before it is shown
    MaxPg,           \* MAX_PG_PACKET
    MaxPacket        \* MAX_AV_PACKET_SIZE

JobAssumption ==
    /\ {Width, Height, Shrink, Frame, DecodeRate, Ready, MaxPacket} \subseteq Nat \ {0}
    /\ MaxPg \in Nat /\ MaxPg > 1 /\ MaxPacket > 1
    /\ Width % Shrink = 0 /\ Height % Shrink = 0
    /\ \A job \in Jobs : job.block \in Nat \ {0} /\ job.stretch \in Nat \ {0}

VARIABLES options, mux, fed
vars == <<options, mux, fed>>

Less(a, b) == IF a < b THEN a ELSE b
More(a, b) == IF a < b THEN b ELSE a
UpTo(n) == [i \in 1..n |-> i]
Where(cells, what) == SelectSeq(UpTo(Len(cells)), LAMBDA i : cells[i].k = what)

-----------------------------------------------------------------------------
(* Lines of text.                                                          *)

TextReader == [known |-> FALSE, tmp |-> <<>>, last |-> FALSE, lines |-> <<>>, state |-> "first",
               in |-> 0, out |-> 0, text |-> <<>>, number |-> 0, rendered |-> <<>>]

\* detectSrcFormat: three bytes are skipped in UTF-8, with a signature or without one.
PrefixOf(cells) == IF cells[1].k = "mark" \/ options.legal THEN 3 ELSE 0
Line(cells) ==
    LET line == IF cells # <<>> /\ cells[Len(cells)].k = "cr" THEN SubSeq(cells, 1, Len(cells) - 1) ELSE cells IN
    IF \A i \in DOMAIN line : line[i].k = "space" THEN <<>> ELSE line
LinesIn(cells, ends) ==
    [j \in DOMAIN ends |-> Line(SubSeq(cells, (IF j = 1 THEN 0 ELSE ends[j - 1]) + 1, ends[j] - 1))]
Behind(cells, ends) == SubSeq(cells, (IF ends = <<>> THEN 0 ELSE ends[Len(ends)]) + 1, Len(cells))
ParseText(t, cells) ==
    [t EXCEPT !.known = TRUE, !.lines = @ \o LinesIn(cells, Where(cells, "lf")),
              !.tmp = Behind(cells, Where(cells, "lf"))]
TextBuffer(t, cells, last) ==
    LET all == t.tmp \o cells
        now == [t EXCEPT !.last = last] IN
    IF t.known THEN ParseText(now, all)
    ELSE IF Len(all) < 4 THEN [now EXCEPT !.tmp = all]
    ELSE ParseText(now, SubSeq(all, PrefixOf(all) + 1, Len(all)))

-----------------------------------------------------------------------------
(* Pictures.  A color is a number, 0 is transparent, and 2 * n and         *)
(* 2 * n + 1 are the same one when they are shown.                         *)

Yuv(color) == color \div 2
Rgb(color) == color * 2
RasterText(text) ==
    IF text \in DOMAIN Pictures THEN Pictures[text]
    ELSE [rows |-> [y \in 1..Height |-> [x \in 1..Width |-> 0]], forced |-> FALSE]

\* getRepeatCnt: how far a color goes.
Same(a, b) == IF a = 0 \/ b = 0 THEN a = b ELSE Yuv(a) = Yuv(b)
Run(runs, color) ==
    IF runs # <<>> /\ Same(runs[Len(runs)].color, color) THEN [runs EXCEPT ![Len(runs)].n = @ + 1]
    ELSE Append(runs, [n |-> 1, color |-> color])
RunsOf(row) == FoldLeft(Run, <<>>, row)

\* color32To8: colors get their numbers in the order in which they are seen.
Seen(palette, color) == IF \E i \in DOMAIN palette : palette[i] = color THEN palette ELSE Append(palette, color)
PaletteOf(rows) ==
    FoldLeft(LAMBDA palette, row : FoldLeft(Seen, palette, [i \in DOMAIN row |-> Yuv(row[i])]), <<>>, rows)
NumberOf(palette, color) == (CHOOSE i \in DOMAIN palette : palette[i] = color) - 1

\* rlePack: the lines between the first and the last that have more than one color.
PackRun(number, n) ==
    IF number = 0 THEN <<[k |-> "run", n |-> n, color |-> 0]>>
    ELSE IF n > 2 THEN <<[k |-> "run", n |-> n, color |-> number]>>
    ELSE [i \in 1..n |-> [k |-> "color", color |-> number]]
PackRow(row, palette) ==
    LET runs == RunsOf(row) IN
    FlattenSeq([i \in DOMAIN runs |-> PackRun(NumberOf(palette, Yuv(runs[i].color)), runs[i].n)]) \o <<[k |-> "eol"]>>
PackRows(rows, lines, palette) ==
    LET first == lines[1]
        last == lines[Len(lines)] IN
    [min |-> first - 1, max |-> last - 1, palette |-> palette,
     rle |-> FlattenSeq([y \in 1..(last - first + 1) |-> PackRow(rows[first + y - 1], palette)])]
RlePack(rows) ==
    LET lines == SelectSeq(UpTo(Len(rows)), LAMBDA y : Len(RunsOf(rows[y])) > 1) IN
    IF lines = <<>> THEN [min |-> 0, max |-> 0, palette |-> <<>>, rle |-> <<>>]
    ELSE PackRows(rows, lines, PaletteOf(SubSeq(rows, lines[1], Len(rows))))
RenderedHeight(picture) == picture.max - picture.min + 1

\* decodeRleData and yuvToRgb: the lines of an object.
Pixels(cell) ==
    CASE cell.k = "run" -> [i \in 1..cell.n |-> cell.color]
      [] cell.k = "color" -> <<cell.color>>
      [] OTHER -> <<>>
DecodeRow(cells) == FlattenSeq([i \in DOMAIN cells |-> Pixels(cells[i])])
DecodeRleData(cells) ==
    LET ends == Where(cells, "eol") IN
    [y \in DOMAIN ends |-> DecodeRow(SubSeq(cells, (IF y = 1 THEN 0 ELSE ends[y - 1]) + 1, ends[y] - 1))]
YuvToRgb(rows, palette) ==
    [y \in DOMAIN rows |-> [x \in DOMAIN rows[y] |->
        IF rows[y][x] \in DOMAIN palette THEN Rgb(palette[rows[y][x]]) ELSE 0]]

-----------------------------------------------------------------------------
(* Segments.                                                               *)

\* writePGHeader.
PgHeader(pts, dts) ==
    <<[k |-> "pg", pts |-> pts], [k |-> "dts", dts |-> IF dts >= pts THEN 0 ELSE dts]>>
Segment(header, pts, dts, type, body) ==
    [pts |-> pts, dts |-> dts,
     data |-> (IF header THEN PgHeader(pts, dts) ELSE <<>>) \o <<[k |-> "segment", type |-> type, len |-> Len(body)]>> \o body]

\* What is to be written: picture, size, and whether packets have headers of their own.
ComposePresentation(show, mode, update, number, pts, dts) ==
    Segment(show.header, pts, dts, "PCS",
        <<[k |-> "video", width |-> show.width, height |-> show.height, fps |-> show.fps],
          [k |-> "composition", number |-> number, start |-> mode = "start", update |-> update,
           objects |-> IF mode = "finish" THEN 0 ELSE 1]>>
        \o (IF mode = "finish" THEN <<>> ELSE <<[k |-> "object", forced |-> show.forced, top |-> show.top]>>))
ComposeWindow(show, pts, dts) ==
    Segment(show.header, pts, dts, "WDS", <<[k |-> "window", top |-> show.top, height |-> RenderedHeight(show.picture)]>>)
ComposePalette(show, version, level, of, pts, dts) ==
    Segment(show.header, pts, dts, "PDS",
        <<[k |-> "palette", version |-> version, colors |-> show.picture.palette, level |-> level, of |-> of]>>)
ComposeEnd(show, pts, dts) == Segment(show.header, pts, dts, "END", <<>>)

\* composeObjectDefinition: the size stands in the first of the segments.
RleFrom(b) == IF b = 1 THEN 1 ELSE (b - 1) * MaxPg
RlePart(rle, b) == SubSeq(rle, RleFrom(b), Less(Len(rle), RleFrom(b + 1) - 1))
ObjectSegments(rle) == More(1, (Len(rle) + MaxPg) \div MaxPg)
ComposeObject(show, pts, dts) ==
    LET rle == show.picture.rle
        n == ObjectSegments(rle)
        part(b) ==
            <<[k |-> "part", first |-> b = 1, last |-> b = n]>>
            \o (IF b > 1 THEN <<>> ELSE <<[k |-> "size", len |-> Len(rle), width |-> show.width,
                                          height |-> RenderedHeight(show.picture)]>>)
            \o RlePart(rle, b)
        segments == [b \in 1..n |-> Segment(show.header, pts, dts, "ODS", part(b)).data] IN
    [pts |-> pts, dts |-> dts, data |-> FlattenSeq(segments)]

\* What a picture takes to be decoded, and to be put on the screen.
Ceil(n, rate) == (n + rate - 1) \div rate
CompositionDecodeTime(show) == Ceil(RenderedHeight(show.picture) * show.width, DecodeRate)
WindowsTransferTime(show) == Ceil(RenderedHeight(show.picture) * show.width, 2 * DecodeRate)
PresentationDelta(show) == Ceil(show.width * show.height, 2 * DecodeRate) + WindowsTransferTime(show)

ShowSegments(show, number, of, time) ==
    LET dts == time - PresentationDelta(show)
        decoded == dts + CompositionDecodeTime(show) IN
    <<ComposePresentation(show, "start", FALSE, number, time, dts),
      ComposeWindow(show, time - WindowsTransferTime(show), dts),
      ComposePalette(show, 0, 1, of, dts, dts),
      ComposeObject(show, decoded, dts),
      ComposeEnd(show, decoded, decoded)>>
UpdateSegments(show, number, version, update) ==
    LET dts == update.time - WindowsTransferTime(show) IN
    <<ComposePresentation(show, "update", TRUE, number, update.time, dts),
      ComposePalette(show, version, update.level, update.of, dts, dts),
      ComposeEnd(show, update.time - Ready, update.time - Ready)>>
HideSegments(show, number, time) ==
    LET dts == time - WindowsTransferTime(show) IN
    <<ComposePresentation(show, "finish", FALSE, number, time, dts - Ready),
      ComposeWindow(show, dts, dts - Ready),
      ComposeEnd(show, time - Ready, time - Ready)>>

\* The palettes between: brighter from frame to frame, darker before the end.
AlignToGrid(time) == Frame * ((2 * time + Frame) \div (2 * Frame))
FadedIn(in, out) == More(0, Less(options.fadeIn, (out - in) \div Frame - 1))
FadeOutFrom(in, out) == More(in + (FadedIn(in, out) + 1) * Frame, out - options.fadeOut * Frame)
FadesOf(in, out) ==
    [i \in 1..FadedIn(in, out) |-> [time |-> in + i * Frame, level |-> i + 1, of |-> options.fadeIn + 1]]
    \o [j \in 1..((out - FadeOutFrom(in, out)) \div Frame) |->
           [time |-> FadeOutFrom(in, out) + (j - 1) * Frame, level |-> options.fadeOut + 1 - j,
            of |-> options.fadeOut + 1]]
UpdatesOf(show, number, fades) == FlattenSeq([i \in DOMAIN fades |-> UpdateSegments(show, number + i, i, fades[i])])
MessageSegments(show, number, in, out, fades) ==
    ShowSegments(show, number, options.fadeIn + 1, in) \o UpdatesOf(show, number, fades)
        \o HideSegments(show, number + Len(fades) + 1, out)
DataOf(segments) == FlattenSeq([i \in DOMAIN segments |-> segments[i].data])
WithSegments(t, show, in, out, fades) ==
    [t EXCEPT !.rendered = DataOf(MessageSegments(show, t.number, in, out, fades)), !.number = @ + 2 + Len(fades)]
Shown(picture, forced) ==
    [picture |-> picture, forced |-> forced, header |-> TRUE, width |-> Width, height |-> Height,
     fps |-> 1, top |-> Height - RenderedHeight(picture)]
DoConvert(t, raster) ==
    LET picture == RlePack(raster.rows) IN
    IF picture.rle = <<>> THEN t
    ELSE WithSegments(t, Shown(picture, raster.forced), AlignToGrid(t.in), AlignToGrid(t.out),
                      FadesOf(AlignToGrid(t.in), AlignToGrid(t.out)))

-----------------------------------------------------------------------------
(* Messages (renderNextMessage).                                           *)

FirstText(lines) ==
    LET full == SelectSeq(UpTo(Len(lines)), LAMBDA i : lines[i] # <<>>) IN
    IF full = <<>> THEN <<>> ELSE SubSeq(lines, full[1], Len(lines))
IsNumber(line) == \A i \in DOMAIN line : line[i].k \in {"number", "space", "zero"}
ToTime(t) ==
    IF t.lines = <<>> THEN t
    ELSE [t EXCEPT !.state = "time", !.lines = IF IsNumber(@[1]) THEN Tail(@) ELSE @]
FirstLine(t) == IF t.state # "first" THEN t ELSE ToTime([t EXCEPT !.lines = FirstText(@)])
ParseTime(t, at) ==
    IF at = <<>> THEN [t EXCEPT !.state = "thrown"]
    ELSE [t EXCEPT !.state = "text", !.in = t.lines[1][at[1]].in, !.out = t.lines[1][at[1]].out, !.lines = Tail(@)]
TimeLine(t) == IF t.state # "time" \/ t.lines = <<>> THEN t ELSE ParseTime(t, Where(t.lines[1], "time"))
NewLine == [k |-> "newline"]
Joined(text, lines) ==
    FoldLeft(LAMBDA sum, line : IF sum = <<>> THEN line ELSE sum \o <<NewLine>> \o line, text, lines)
Message(t, text, rest) ==
    IF rest # <<>> THEN DoConvert([t EXCEPT !.state = "first", !.text = <<>>, !.lines = Tail(rest)], RasterText(text))
    ELSE IF t.last /\ text # <<>> THEN [t EXCEPT !.state = "first", !.text = <<>>, !.lines = <<>>]
    ELSE [t EXCEPT !.text = text, !.lines = <<>>]
Split(t, blank) ==
    IF blank = <<>> THEN Message(t, Joined(t.text, t.lines), <<>>)
    ELSE Message(t, Joined(t.text, SubSeq(t.lines, 1, blank[1] - 1)), SubSeq(t.lines, blank[1], Len(t.lines)))
TextLines(t) ==
    IF t.state # "text" \/ t.lines = <<>> THEN t
    ELSE Split(t, SelectSeq(UpTo(Len(t.lines)), LAMBDA i : t.lines[i] = <<>>))
RenderNextMessage(t) == TextLines(TimeLine(FirstLine([t EXCEPT !.rendered = <<>>])))

-----------------------------------------------------------------------------
(* The reader of graphics.  It scales when its target is another size than *)
(* that of the video it reads about.                                       *)

ShownBy(demux, stretch, picture, forced) ==
    [picture |-> picture, forced |-> forced, header |-> demux, width |-> Width \div Shrink,
     height |-> Height \div Shrink, fps |-> stretch, top |-> picture.max]
Graphics(demux, scaled, stretch) ==
    [demux |-> demux, scaled |-> scaled, stretch |-> stretch, known |-> FALSE, set |-> FALSE,
     buf |-> <<>>, pos |-> 1, tmp |-> <<>>, end |-> 0, pts |-> -1, dts |-> -1, maxPts |-> -1, fresh |-> FALSE,
     start |-> TRUE, top |-> 0, forced |-> FALSE, palette |-> <<>>, number |-> 0,
     shown |-> ShownBy(demux, stretch, [min |-> 0, max |-> 0, palette |-> <<>>, rle |-> <<>>], FALSE),
     blocks |-> <<>>, firstOfBlock |-> TRUE, more |-> FALSE, packet |-> <<>>]
Remains(g) == Len(g.buf) - g.pos + 1
NeedMore(g) == [g EXCEPT !.tmp = SubSeq(g.buf, g.pos, Len(g.buf)), !.more = TRUE]
SetBuffer(g, cells) ==
    [g EXCEPT !.buf = g.tmp \o cells, !.pos = 1, !.tmp = <<>>, !.set = TRUE, !.more = FALSE]
Packet(g, pts, dts, data, flag) == [g EXCEPT !.packet = <<[pts |-> pts, dts |-> dts, data |-> data, flag |-> flag]>>]
\* A packet without data.
Nothing(g) == [g EXCEPT !.packet = <<>>]

\* intDecodeStream: the size of the video, or what was read is forgotten.
IntDecodeStream(g) ==
    IF Where(g.buf, "video") = <<>> THEN [g EXCEPT !.more = TRUE, !.tmp = <<>>]
    ELSE [g EXCEPT !.known = TRUE]

\* readObjectDef, of an object in one segment, and rescaleRGB.
Placed(rows, top) ==
    [y \in 1..Height |-> IF y - top \in DOMAIN rows THEN rows[y - top] ELSE [x \in 1..Width |-> 255]]
RescaleRGB(rows) == [y \in 1..(Height \div Shrink) |-> [x \in 1..(Width \div Shrink) |-> rows[(y - 1) * Shrink + 1][(x - 1) * Shrink + 1]]]
ReadObjectDef(g, cells) ==
    RlePack(RescaleRGB(YuvToRgb(Placed(DecodeRleData(cells), g.top), g.palette)))
Scaled(g, picture) == ShownBy(g.demux, g.stretch, picture, g.forced)
RenderTextShow(g, show) ==
    [g EXCEPT !.shown = show, !.number = @ + 1, !.firstOfBlock = TRUE,
              !.blocks = ShowSegments(show, g.number, 1, g.maxPts)]
RenderTextHide(g) ==
    [g EXCEPT !.number = @ + 1, !.firstOfBlock = TRUE, !.blocks = HideSegments(g.shown, g.number, g.maxPts)]

\* The segments that a reader looks into.
ReadPalette(g, palette) ==
    [g EXCEPT !.palette = [i \in {j \in 0..(Len(palette.colors) - 1) : palette.colors[j + 1] # 0} |-> palette.colors[i + 1]]]
ReadComposition(g, composition, object) ==
    LET read == [g EXCEPT !.start = composition.start,
                          !.top = IF object = <<>> THEN @ ELSE object[1].top,
                          !.forced = IF object = <<>> THEN @ ELSE object[1].forced] IN
    IF g.scaled /\ ~composition.start THEN RenderTextHide(read) ELSE read
ReadSegment(g, type, body) ==
    CASE type = "PDS" /\ g.scaled -> ReadPalette(g, body[1])
      [] type = "ODS" /\ g.scaled -> RenderTextShow(g, Scaled(g, ReadObjectDef(g, SubSeq(body, 3, Len(body)))))
      [] type = "PCS" -> ReadComposition(g, body[2], SubSeq(body, 3, Len(body)))
      [] OTHER -> g
\* The rate of a video in what is read.
Patched(g, body) == IF g.stretch = 1 THEN body ELSE [body EXCEPT ![1].fps = g.stretch]
Patch(g, at) ==
    IF g.buf[at].type # "PCS" THEN g
    ELSE [g EXCEPT !.buf = SubSeq(g.buf, 1, at) \o Patched(g, SubSeq(g.buf, at + 1, Len(g.buf)))]

\* A segment, or as much of it as a packet may have.
Cut(g, len) == Less(len, MaxPacket - 1)
Sent(g, len) ==
    LET after == [g EXCEPT !.pos = @ + 1 + Cut(g, len), !.fresh = FALSE,
                           !.end = IF len > MaxPacket - 1 THEN g.pos + 1 + len ELSE 0] IN
    IF g.scaled THEN Nothing(after)
    ELSE Packet(after, g.pts, g.dts, SubSeq(g.buf, g.pos, g.pos + Cut(g, len)), g.fresh)
WithSegment(g, header) ==
    IF Remains(g) < 1 + header.len THEN NeedMore(g)
    ELSE Sent(ReadSegment(Patch(g, g.pos), header.type, SubSeq(g.buf, g.pos + 1, g.pos + header.len)), header.len)
Fragment(g) ==
    LET len == Less(g.end - g.pos, MaxPacket)
        after == [g EXCEPT !.pos = @ + len, !.end = IF g.end - g.pos > MaxPacket THEN @ ELSE 0] IN
    IF g.scaled THEN Nothing(after)
    ELSE Packet(after, g.pts, g.dts, SubSeq(g.buf, g.pos, g.pos + len - 1), FALSE)

\* Headers of packets: those of a file tell times that follow the rate.
Timed(g, pts, dts) ==
    Nothing([g EXCEPT !.pts = pts, !.dts = dts, !.maxPts = More(@, pts), !.pos = @ + 2, !.fresh = TRUE])
PgStart(g, pts, dts) == Timed(g, pts * g.stretch, (IF dts = 0 THEN pts ELSE dts) * g.stretch)
PesStart(g, header) ==
    IF header.pts = <<>> THEN Timed(g, g.pts, g.dts)
    ELSE Timed(g, header.pts[1], IF header.dts = <<>> THEN header.pts[1] ELSE header.dts[1])

Block(g) ==
    LET block == g.blocks[1]
        len == Less(MaxPacket, Len(block.data)) IN
    Packet([g EXCEPT !.blocks = IF len = Len(block.data) THEN Tail(@)
                                ELSE [@ EXCEPT ![1].data = SubSeq(block.data, len + 1, Len(block.data))],
                     !.firstOfBlock = len = Len(block.data)],
           block.pts, block.dts, SubSeq(block.data, 1, len), g.firstOfBlock)
InStream(g) ==
    IF g.end > 0 THEN Fragment(g)
    ELSE IF Remains(g) < 1 THEN NeedMore(g)
    ELSE LET cell == g.buf[g.pos] IN
         IF cell.k = "segment" THEN WithSegment(g, cell)
         ELSE IF Remains(g) < 2 THEN NeedMore(g)
         ELSE IF cell.k = "pg" THEN PgStart(g, cell.pts, g.buf[g.pos + 1].dts)
         ELSE PesStart(g, cell)
Decoding(g) == IF g.more THEN g ELSE InStream(g)
ReadPacket(g) ==
    IF g.blocks # <<>> THEN Block(g)
    ELSE IF ~g.set THEN [Nothing(g) EXCEPT !.more = TRUE]
    ELSE Decoding(IF g.known THEN Nothing(g) ELSE IntDecodeStream(Nothing(g)))

\* Text is rendered when the graphics before it are read (SRTStreamReader::readPacket).
Rendered(text, graphics) ==
    IF text.rendered = <<>> THEN [text |-> text, pgs |-> graphics]
    ELSE [text |-> text, pgs |-> ReadPacket(SetBuffer(graphics, text.rendered))]
ReadText(text, graphics) ==
    IF ~graphics.more THEN [text |-> text, pgs |-> graphics] ELSE Rendered(RenderNextMessage(text), graphics)

-----------------------------------------------------------------------------
(* What is read is written to a file, with headers (writeAdditionData).    *)

BlocksOf(file, size) ==
    [b \in 1..((Len(file) + size - 1) \div size) |-> SubSeq(file, (b - 1) * size + 1, Less(b * size, Len(file)))]
Header(packet) == <<[k |-> "pg", pts |-> packet.pts], [k |-> "dts", dts |-> packet.dts]>>
AdditionOf(written, packet, g) ==
    IF g.scaled \/ ~(packet.flag \/ written.packets = <<>>
                     \/ Last(written.packets).pts # packet.pts \/ Last(written.packets).dts # packet.dts)
    THEN <<>> ELSE Header(packet)
Nowhere == [packets |-> <<>>, file |-> <<>>]
Written(written, g) ==
    IF g.packet = <<>> THEN written
    ELSE [packets |-> Append(written.packets, g.packet[1]),
          file |-> written.file \o AdditionOf(written, g.packet[1], g) \o g.packet[1].data]

Phases == <<"text", "copy", "pes", "scale">>
Init ==
    /\ options \in Jobs
    /\ mux = [text |-> TextReader, pgs |-> Graphics(TRUE, FALSE, 1)]
    /\ fed = [phase |-> 1, blocks |-> BlocksOf(options.text, options.block), out |-> Nowhere, done |-> <<>>]
Phase == Phases[fed.phase]
Working == fed.phase <= (IF options.scaled THEN 4 ELSE 3)

\* readPacket gives what it has, until it needs more data.
Feed ==
    /\ Working /\ mux.pgs.more /\ fed.blocks # <<>>
    /\ mux' = IF Phase = "text"
              THEN [mux EXCEPT !.text = TextBuffer(@, Head(fed.blocks), Len(fed.blocks) = 1), !.pgs.more = FALSE]
              ELSE [mux EXCEPT !.pgs = SetBuffer(@, Head(fed.blocks))]
    /\ fed' = [fed EXCEPT !.blocks = Tail(@)] /\ UNCHANGED options
Read ==
    /\ Working /\ ~mux.pgs.more
    /\ mux' = IF Phase = "text" THEN ReadText(mux.text, ReadPacket(mux.pgs))
              ELSE [mux EXCEPT !.pgs = ReadPacket(@)]
    /\ fed' = [fed EXCEPT !.out = Written(@, mux'.pgs)] /\ UNCHANGED options

\* The same graphics as a transport stream has them.
AsPes(cells) ==
    [i \in DOMAIN cells |->
        CASE cells[i].k = "pg" ->
                 [k |-> "pes", pts |-> <<cells[i].pts>>,
                  dts |-> IF cells[i + 1].dts = cells[i].pts THEN <<>> ELSE <<cells[i + 1].dts>>]
          [] OTHER -> cells[i]]
Source(phase, file) ==
    CASE phase = "copy" -> BlocksOf(file, options.cut)
      [] phase = "pes" -> BlocksOf(AsPes(file), options.cut)
      [] OTHER -> <<file>>
NextPhase ==
    /\ Working /\ mux.pgs.more /\ fed.blocks = <<>>
    /\ fed' = [phase |-> fed.phase + 1, out |-> Nowhere, done |-> Append(fed.done, fed.out),
               blocks |-> IF fed.phase = 4 THEN <<>>
                          ELSE Source(Phases[fed.phase + 1], (Append(fed.done, fed.out))[1].file)]
    /\ mux' = [mux EXCEPT !.pgs =
           IF fed.phase = 3 THEN Graphics(options.demux, TRUE, options.stretch)
           ELSE Graphics(TRUE, FALSE, 1)]
    /\ UNCHANGED options
Done == ~Working /\ UNCHANGED vars
Next == Feed \/ Read \/ NextPhase \/ Done
Spec == Init /\ [][Next]_vars

-----------------------------------------------------------------------------

TypeOK ==
    /\ options \in Jobs
    /\ mux.text.state \in {"first", "time", "text", "thrown"}
    /\ mux.text.in <= mux.text.out
    /\ mux.pgs.pos \in 1..(Len(mux.pgs.buf) + 1) /\ mux.pgs.more \in BOOLEAN
    /\ fed.phase \in 1..5

\* What a player does with the packets: a display is shown, and hidden by the next
\* composition that has no object.
Told(packets) ==
    FlattenSeq([i \in DOMAIN packets |-> [j \in DOMAIN packets[i].data |->
        [cell |-> packets[i].data[j], k |-> packets[i].data[j].k, pts |-> packets[i].pts]]])
Cells(told, from, to, kinds) == SelectSeq(SubSeq(told, from, to), LAMBDA t : t.k \in kinds)
Colored(cells, colors) ==
    LET rows == DecodeRleData([i \in DOMAIN cells |-> cells[i].cell]) IN
    [y \in DOMAIN rows |-> [x \in DOMAIN rows[y] |-> colors[rows[y][x] + 1]]]
Levels(palettes, compositions) ==
    [i \in DOMAIN compositions |->
        [time |-> compositions[i].pts, level |-> palettes[i].cell.level, of |-> palettes[i].cell.of]]
DisplayFrom(told, from, to) ==
    LET palettes == Cells(told, from, to, {"palette"}) IN
    [in |-> told[from].pts, out |-> told[to].pts, forced |-> Cells(told, from, to, {"object"})[1].cell.forced,
     rows |-> Colored(Cells(told, from, to, {"run", "color", "eol"}), palettes[1].cell.colors),
     levels |-> Levels(palettes, Cells(told, from, to - 1, {"composition"}))]
DisplaysAt(told, starts, ends) == [i \in DOMAIN starts |-> DisplayFrom(told, starts[i], ends[i])]
DisplaysIn(told) ==
    DisplaysAt(told,
        SelectSeq(UpTo(Len(told)), LAMBDA i : told[i].k = "composition" /\ told[i].cell.start),
        SelectSeq(UpTo(Len(told)), LAMBDA i : told[i].k = "composition" /\ told[i].cell.objects = 0))
Displays(packets) == DisplaysIn(Told(packets))

\* What was to be shown.
Trimmed(rows) ==
    LET lines == SelectSeq(UpTo(Len(rows)), LAMBDA y : Len(RunsOf(rows[y])) > 1) IN
    [y \in 1..(lines[Len(lines)] - lines[1] + 1) |->
        [x \in DOMAIN rows[y] |-> Yuv(rows[lines[1] + y - 1][x])]]
OnScreen(rows) ==
    [y \in 1..Height |-> IF y > Height - Len(rows) THEN [x \in 1..Width |-> Rgb(rows[y - Height + Len(rows)][x])]
                         ELSE [x \in 1..Width |-> 0]]
PictureOf(message) == Trimmed(RasterText(message.text).rows)
NearestFrame(time, of, stretch) ==
    time % (Frame * stretch) = 0 /\ 2 * (time - of * stretch) \in (-(Frame * stretch))..(Frame * stretch)
ShownAs(display, message, rows, stretch) ==
    /\ NearestFrame(display.in, message.in, stretch) /\ NearestFrame(display.out, message.out, stretch)
    /\ display.forced = RasterText(message.text).forced /\ display.rows = rows
Faded(display) ==
    LET levels == display.levels IN
    /\ levels[1].level = 1 /\ levels[1].of = options.fadeIn + 1
    /\ \A i \in 2..Len(levels) : levels[i].time = levels[1].time + Frame * (i - 1) \/ levels[i].time > levels[i - 1].time
    /\ \A i \in DOMAIN levels : levels[i].time < display.out
    /\ (display.out - display.in) \div Frame > options.fadeIn + options.fadeOut =>
           /\ levels[options.fadeIn + 1].level = options.fadeIn + 1
           /\ levels[Len(levels)].level = IF options.fadeOut = 0 THEN options.fadeIn + 1 ELSE 1
           /\ levels[Len(levels)].time = IF options.fadeOut = 0 THEN display.in + options.fadeIn * Frame
                                         ELSE display.out - Frame
InDecodeOrder(packets) ==
    \A i, j \in DOMAIN packets :
        i < j /\ packets[i].dts > packets[j].dts => packets[j].data[1].k = "segment" /\ packets[j].data[1].type = "PCS"

InNumber(told) ==
    LET compositions == SelectSeq(told, LAMBDA t : t.k = "composition") IN
    \A i \in DOMAIN compositions : compositions[i].cell.number = i - 1
SegmentsFit(told) == \A i \in DOMAIN told : told[i].k = "segment" => told[i].cell.len <= MaxPg + 1

\* Every message of a text is shown from its time to its end, to the next frame, with
\* its picture, brighter from frame to frame and darker before the end; no packet is
\* decoded before the one it follows in its display, or shown before it is decoded;
\* displays are numbered one after the other, and no segment is too long for the
\* graphics of a transport stream.  Read again, from a file or a transport stream, in
\* blocks of any size, the graphics are the same; scaled and at another rate they are
\* shown at the times that follow the rate, with the smaller pictures.
SubtitlesShown ==
    fed.out = Nowhere =>
        /\ fed.phase >= 2 =>
               LET packets == fed.done[1].packets
                   displays == Displays(packets) IN
               /\ Len(displays) = Len(options.messages)
               /\ \A i \in DOMAIN displays :
                      ShownAs(displays[i], options.messages[i], PictureOf(options.messages[i]), 1) /\ Faded(displays[i])
               /\ InNumber(Told(packets)) /\ SegmentsFit(Told(packets)) /\ InDecodeOrder(packets)
               /\ \A i \in DOMAIN packets : packets[i].dts <= packets[i].pts
        /\ fed.phase >= 3 => fed.done[2] = fed.done[1]
        /\ fed.phase >= 4 => fed.done[3] = fed.done[1]
        /\ fed.phase = 5 =>
               LET displays == Displays(fed.done[4].packets) IN
               /\ Len(displays) = Len(options.messages) /\ InNumber(Told(fed.done[4].packets))
               /\ \A i \in DOMAIN displays :
                      ShownAs(displays[i], options.messages[i],
                              Trimmed(RescaleRGB(OnScreen(PictureOf(options.messages[i])))), options.stretch)
=============================================================================
