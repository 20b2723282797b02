--------------------------------- MODULE MCMov ---------------------------------
(***************************************************************************)
(* Instances for TLC of the demuxer of MOV and MP4.                        *)
(***************************************************************************)
EXTENDS MCGui

Same(cell, n) == [i \in 1..n |-> cell]
Atom(type, fields) == [k |-> "atom", type |-> type, len |-> 0] @@ fields
AtomsIn(type, kids) == Atom(type, [kids |-> kids])
Laid(a, len) == <<[a EXCEPT !.len = len]>> \o Same([k |-> "inside"], len)
Nothing(type, len) == Laid(Atom(type, <<>>), len)
Samples(cells) == <<[k |-> "atom", type |-> "mdat", len |-> Len(cells)]>> \o cells

\* A table of a track, its chunks where offsets says.
TrackTable(delay, e, tables, scale, offsets) ==
    AtomsIn("trak",
        <<AtomsIn("edts", <<Atom("elst", [edits |-> <<[dur |-> delay, time |-> -1], [dur |-> 9, time |-> 0]>>])>>),
          AtomsIn("mdia",
            <<Atom("mdhd", [scale |-> scale, dur |-> 5]),
              AtomsIn("minf", <<AtomsIn("stbl",
                <<Atom("stsd", [entries |-> <<e>>])>> \o tables \o <<Atom("stco", [offsets |-> offsets])>>)>>)>>)>>)
EntryOf(format, kids) == [format |-> format, kids |-> kids]
MovieHeader == Atom("mvhd", [scale |-> 2, dur |-> 20])

UnitsLen == 2
Unit(from, to) == <<[k |-> "len", n |-> to - from + 1], [k |-> "inside"]>> \o Data(from, to)
StartOfUnit == Same([k |-> "start"], 3)
SetsOfTrack == <<Data(90, 91), Data(92, 92)>>
AdtsOf(n) == Same([k |-> "adts", n |-> n], 2)
Sets == Atom("glbl", [lenSize |-> UnitsLen, sets |-> SetsOfTrack])
CueOf(n, from, to, text) ==
    <<[k |-> "cue", n |-> n, from |-> from, to |-> to]>> \o text \o Same([k |-> "newline"], 2)

\* The chunks of a film, as they lie in it, and what each gives.
ChunkOf(track, cells, out) == [track |-> track, cells |-> cells, out |-> out]
Chunks ==
    <<ChunkOf(1, Unit(1, 2) \o Unit(3, 3),
              StartOfUnit \o Data(90, 91) \o StartOfUnit \o Data(92, 92)
                  \o StartOfUnit \o Data(1, 2) \o StartOfUnit \o Data(3, 3)),
      ChunkOf(2, Data(10, 14), AdtsOf(4) \o Data(10, 11) \o AdtsOf(5) \o Data(12, 14)),
      ChunkOf(3, Unit(20, 22) \o <<[k |-> "styl", runs |-> <<[from |-> 0, to |-> 3, face |-> "b"],
                                                             [from |-> 1, to |-> 2, face |-> "i"],
                                                             [from |-> 2, to |-> 2, face |-> "u"]>>]>>,
              CueOf(1, 0, 6, <<[k |-> "open", face |-> "b"], Datum(20), [k |-> "open", face |-> "i"], Datum(21),
                               [k |-> "close", face |-> "i"], Datum(22), [k |-> "close", face |-> "b"]>>)),
      ChunkOf(5, Data(30, 33), <<>>), ChunkOf(4, Data(40, 42), Data(40, 42)), ChunkOf(3, Unit(1, 0), <<>>),
      ChunkOf(1, Unit(4, 7), StartOfUnit \o Data(4, 7)), ChunkOf(6, Data(50, 50), <<>>),
      ChunkOf(2, Data(15, 16), AdtsOf(4) \o Data(15, 16)),
      ChunkOf(3, Unit(1, 0) \o Unit(23, 23), CueOf(2, 12, 22, Data(23, 23)))>>
CellsOf(chunks) == FlattenSeq([i \in DOMAIN chunks |-> chunks[i].cells])
OutOf(chunks, track) ==
    FlattenSeq([i \in DOMAIN chunks |-> IF chunks[i].track = track THEN chunks[i].out ELSE <<>>])
PlaceIn(chunks, i, base) == base + Len(CellsOf(SubSeq(chunks, 1, i - 1)))
PlacesOf(chunks, track, base) ==
    LET own == SelectSeq([i \in DOMAIN chunks |-> i], LAMBDA i : chunks[i].track = track) IN
    [n \in DOMAIN own |-> PlaceIn(chunks, own[n], base)]

TrackTables(base) ==
    AtomsIn("moov",
        <<MovieHeader,
          TrackTable(1, EntryOf("avc1", <<Sets>>), <<>>, 2, PlacesOf(Chunks, 1, base)),
          TrackTable(3, EntryOf("mp4a", <<AtomsIn("wave", <<Atom("esds", [aac |-> TRUE])>>)>>),
                     <<Atom("stsz", [size |-> 0, sizes |-> <<2, 3, 2>>])>>, 4, PlacesOf(Chunks, 2, base)),
          TrackTable(0, EntryOf("tx3g", <<>>),
                     <<Atom("stts", [entries |-> <<[count |-> 2, dur |-> 3], [count |-> 1, dur |-> 5]>>])>>, 2,
                     PlacesOf(Chunks, 3, base)),
          TrackTable(0, EntryOf("sowt", <<>>), <<>>, 1, PlacesOf(Chunks, 4, base)),
          TrackTable(0, EntryOf("av01", <<Sets>>), <<>>, 2, PlacesOf(Chunks, 5, base)),
          TrackTable(0, EntryOf("tmcd", <<>>), <<>>, 2, PlacesOf(Chunks, 6, base))>>)
TablesFirst(base) == Nothing("ftyp", 2) \o Laid(TrackTables(base), 5) \o Nothing("free", 3)
Wide == <<[k |-> "atom", type |-> "wide", len |-> 0]>>
FrontBase == Len(TablesFirst(0) \o Wide) + 1
FrontFile == TablesFirst(FrontBase) \o Wide \o Samples(CellsOf(Chunks))
BackBase == 4
BackFile == Nothing("ftyp", 2) \o Samples(CellsOf(Chunks)) \o Laid(TrackTables(BackBase), 5) \o Nothing("udta", 1)
WideFile ==
    Laid(TrackTables(8), 5) \o <<[k |-> "atom", type |-> "wide", len |-> 1 + Len(CellsOf(Chunks)), mdat |-> TRUE],
                              [k |-> "inside"]>> \o CellsOf(Chunks)

\* Fragments of one chunk each, with a place of their own or behind the one before.
Fragments == <<Chunks[1], ChunkOf(2, Data(40, 42), Data(40, 42)), Chunks[7]>>
FragmentOf(chunk, base) ==
    Laid(AtomsIn("moof", <<AtomsIn("traf",
        <<Atom("tfhd", [track |-> chunk.track, base |-> base]),
          Atom("trun", [offset |-> IF base = 0 THEN 4 ELSE 0, size |-> Len(chunk.cells)])>>)>>), 2)
        \o Samples(chunk.cells)
FragmentTables ==
    Laid(AtomsIn("moov",
        <<MovieHeader, AtomsIn("mvex", <<Atom("trex", [track |-> 1, entry |-> 1]), Atom("trex", [track |-> 2, entry |-> 1])>>),
          TrackTable(1, EntryOf("hvc1", <<Sets>>), <<>>, 2, <<>>), TrackTable(3, EntryOf("sowt", <<>>), <<>>, 4, <<>>)>>), 3)
Fragmented(tail) ==
    LET two == FragmentTables \o FragmentOf(Fragments[1], 0) \o FragmentOf(Fragments[2], 0) IN
    two \o FragmentOf(Fragments[3], Len(two) + 4) \o tail

OneTrack(offsets, tail) ==
    Laid(AtomsIn("moov", <<MovieHeader, TrackTable(0, EntryOf("ac3", <<>>), <<Atom("stsz", [size |-> 3, sizes |-> <<>>])>>, 2, offsets)>>), 3)
        \o tail

Movie(files, block, accepted, chunks) ==
    [files |-> files, block |-> block, accepted |-> accepted, broken |-> FALSE, dur |-> 40,
     delays |-> (1 :> 0) @@ (2 :> 4) @@ (3 :> -2) @@ (4 :> -2) @@ (5 :> -2), counted |-> 0,
     out |-> [i \in accepted |-> OutOf(chunks, i)]]
Counted(movie, base) == [movie EXCEPT !.counted = base + Len(CellsOf(Chunks))]
Broken(file) == [Movie(<<file>>, 8, {1}, <<>>) EXCEPT !.broken = TRUE]

\* A file that ends within its data, and the rest of the film in a further one; the end
\* of a file that is whole is the end of the film.
CutFile == SubSeq(FrontFile, 1, FrontBase + Len(CellsOf(SubSeq(Chunks, 1, 4))))
Movies ==
    {Counted(Movie(<<FrontFile>>, block, accepted, Chunks), FrontBase) :
        block \in {1, 6, 100}, accepted \in {1..5, {1, 3}, {2, 4}, {3}}}
    \cup {Counted(Movie(<<BackFile>>, 6, 1..5, Chunks), BackBase), Counted(Movie(<<WideFile>>, 6, 1..5, Chunks), 8)}
    \cup {Movie(<<file, FrontFile>>, 6, 1..4, Chunks) : file \in {FrontFile, BackFile}}
    \cup {Movie(<<CutFile, FrontFile>>, 6, 1..5, SubSeq(Chunks, 1, 4) \o Chunks)}
    \cup {[Movie(<<Fragmented(tail)>>, block, accepted, Fragments) EXCEPT !.delays = (1 :> 0) @@ (2 :> 4)] :
            tail \in {<<>>, Nothing("mfra", 2)}, block \in {1, 100}, accepted \in {{1}, {1, 2}}}
    \cup {[Movie(<<OneTrack(<<>>, Samples(Data(1, 7)))>>, 6, {1}, <<ChunkOf(1, <<>>, Data(1, 6))>>)
             EXCEPT !.delays = (1 :> 0), !.counted = 12]}
    \cup {Broken(Samples(Data(1, 4))), Broken(OneTrack(<<30>>, Samples(Data(1, 4)))),
          Broken(Laid(AtomsIn("moov", <<Atom("mdhd", [scale |-> 1, dur |-> 1])>>), 2) \o Samples(Data(1, 4))),
          Broken(Laid(AtomsIn("moov", <<Atom("cmov", <<>>)>>), 2) \o Samples(Data(1, 4)))}

Mov == INSTANCE MovDemuxer WITH StartLen <- 3, AdtsLen <- 2, Least <- 1, PerSecond <- 4

-----------------------------------------------------------------------------

MovAssumptions == GuiAssumptions /\ Mov!MovieAssumption
=============================================================================
