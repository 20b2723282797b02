---------------------------- MODULE MCMetaDemuxer ----------------------------
(***************************************************************************)
(* Inputs of MetaDemuxer for TLC.                                          *)
(***************************************************************************)
EXTENDS MetaDemuxer

Track(kind, src, upto) ==
    [kind |-> kind, src |-> src, upto |-> upto, first |-> 0, shift |-> 0,
     step |-> 2, frame |-> 1]
Video(src, upto) == [Track("nals", src, upto) EXCEPT !.first = -2, !.frame = 2]
Audio(src, upto) == [Track("packets", src, upto) EXCEPT !.step = 1, !.frame = 2]
Subtitles(src, upto) == [Track("pgs", src, upto) EXCEPT !.first = 1, !.step = 3]

Amounts == {0, 1, 3}
Tracks == {<<m, m + n>> : m \in Amounts, n \in Amounts}
FewTracks == {<<0, 1>>, <<1, 1>>, <<0, 3>>, <<3, 4>>}

Merge(streams, containers) ==
    [streams |-> streams, calls |-> [c \in 1..containers |-> 2],
     eofFrom |-> [c \in 1..containers |-> 3], lists |-> FALSE,
     unlimited |-> {}]

One(v, a, s, shift, e, u) ==
    [Merge(<<Video(1, v), [Audio(1, a) EXCEPT !.shift = shift], Subtitles(1, s)>>, 1)
        EXCEPT !.eofFrom[1] = e, !.unlimited = u]
OneContainer ==
    {One(v, a, s, shift, 3, {}) :
       v \in Tracks, a \in Tracks, s \in FewTracks, shift \in {0, 3, -2}}
    \cup {One(v, a, <<0, 1>>, 0, e, u) :
            v \in Tracks, a \in FewTracks, e \in 1..3, u \in {{}, {1}}}
ContainerAndFile ==
    {[Merge(<<Audio(File, <<a>>), Video(1, v)>>, 1) EXCEPT !.lists = l] :
       a \in 0..5, v \in Tracks, l \in BOOLEAN}
TwoContainers ==
    {Merge(<<Video(1, v), Subtitles(2, s)>>, 2) : v \in Tracks, s \in Tracks}
SubtitlesOnly ==
    {Merge(<<Subtitles(1, s), Subtitles(1, t)>>, 1) : s \in Tracks, t \in FewTracks}

\* Data far apart in the container: subtitles that come late beside a video
\* that goes on, that has ended, or that is in a file of its own.
Late(streams) ==
    [Merge(streams, 1) EXCEPT !.calls[1] = 4, !.eofFrom[1] = 5]
LateSubtitles ==
    {Late(<<Subtitles(1, s), Video(1, v)>>) :
       s \in {<<0, 0, 0, 2>>, <<1, 1, 1, 2>>}, v \in {<<5, 8, 8, 8>>, <<5, 5, 8, 9>>}}
    \cup {Late(<<Video(File, <<n>>), Subtitles(1, <<0, 0, 0, 1>>)>>) : n \in 0..3}
    \cup {Late(<<Subtitles(1, <<0, 0, 0, 1>>)>>)}

\* ... and a video that comes after more audio than may be buffered.
LateVideo ==
    {[Late(<<Video(1, <<0, 0, 0, 2>>), Audio(1, <<3, 6, 9, 9>>)>>)
        EXCEPT !.unlimited = u] : u \in {{}, {1}}}

MCInputs == OneContainer \cup ContainerAndFile \cup TwoContainers \cup SubtitlesOnly
            \cup LateSubtitles \cup LateVideo
=============================================================================
