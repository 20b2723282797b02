------------------------------ MODULE MCPictures ------------------------------
(***************************************************************************)
(* Instances for TLC of the reader of video: groups of pictures with every *)
(* order of display, cut by blocks of several sizes.                       *)
(***************************************************************************)
EXTENDS MCMeta

-----------------------------------------------------------------------------
(* Units, and films of them.  A film has a long start code where a picture *)
(* begins.                                                                 *)

Bytes == INSTANCE NalUnits
HeaderOf(i) == 10 + i

PlainUnit(t) ==
    [t |-> t, first |-> FALSE, type |-> "P", idr |-> FALSE, bottom |-> FALSE, lsb |-> 0, order |-> 0]
SliceUnit(type, idr, order, lsb) ==
    [PlainUnit("slice") EXCEPT !.first = TRUE, !.type = type, !.idr = idr, !.order = order, !.lsb = lsb]
Further(slice, type) == [slice EXCEPT !.first = FALSE, !.type = type]
Bottom(slice) == [slice EXCEPT !.bottom = TRUE]
\* What stands behind the header: parameters that must be escaped, and other data.
BodyOf(unit) ==
    CASE unit.t = "sps" -> <<9, 0, 0, 1, 0, 0, 3, 0, 0, 0, 2>>
      [] unit.t = "pps" -> <<0, 0, 0, 0, 3>>
      [] unit.t = "aud" -> <<>>
      [] unit.t = "slice" -> <<9, 9, 9, 0, 0, 2, 9>>
      [] OTHER -> <<9, 9>>
UnitBytes(units, i) ==
    (IF units[i].t \in {"aud", "sps"} THEN <<0>> ELSE <<>>) \o <<0, 0, 1>>
        \o Bytes!EncodeNAL(<<HeaderOf(i)>> \o BodyOf(units[i]))
BytesOf(units) == FlattenSeq([i \in DOMAIN units |-> UnitBytes(units, i)])
VideoFilm(units, block) ==
    [files |-> <<<<9, 1, 0>> \o BytesOf(units)>>, block |-> block, units |-> units,
     starts |-> [i \in DOMAIN units |-> 4 + Len(BytesOf(SubSeq(units, 1, i - 1)))], maxLsb |-> 32, poc |-> 0,
     frames |-> TRUE, hrd |-> TRUE, sei |-> "no", cont |-> FALSE, split |-> FALSE]

\* Groups of pictures.  Orders count fields, or pictures in a film of odd orders; the
\* first letter of a group is for its first picture.
ParameterUnits == <<PlainUnit("sps"), PlainUnit("pps")>>
Delimiter == <<PlainUnit("aud")>>
Timing == <<PlainUnit("timing")>>
Other(t) == <<PlainUnit(t)>>
Slice(type, order) == SliceUnit(type, FALSE, order, (2 * order) % 32)
Idr(order) == SliceUnit("I", TRUE, order, (2 * order) % 32)
Single(type, order) == SliceUnit(type, FALSE, order, order % 8)
Fields(type, idr, order) ==
    LET top == [SliceUnit(type, idr, order, (2 * order) % 32) EXCEPT !.first = TRUE]
        second == [Bottom(top) EXCEPT !.type = IF type = "I" THEN "P" ELSE type, !.idr = FALSE, !.lsb = @ + 1] IN
    <<top, second>>

\* Delimiters, several slices of a picture, filling and the end of a sequence.
Closed ==
    Delimiter \o ParameterUnits \o Timing \o <<Idr(0), Further(Idr(0), "P")>> \o Delimiter \o <<Slice("P", 3)>>
        \o Delimiter \o Timing \o <<Slice("B", 1), Further(Slice("B", 1), "I")>> \o Other("filler") \o Delimiter
        \o <<Slice("B", 2)>> \o Other("eos") \o Delimiter \o ParameterUnits \o <<Idr(0)>> \o Delimiter \o <<Slice("P", 1)>>
        \o Delimiter \o <<Slice("P", 2)>> \o Delimiter \o <<Slice("P", 3)>>
\* Without delimiters, with a pyramid of B pictures; orders wrap, and are odd.
Pyramid ==
    ParameterUnits \o <<SliceUnit("I", TRUE, 0, 0), Single("P", 4), Single("B", 2), Single("B", 1), Single("B", 3),
              Single("P", 6), Single("B", 5), Single("P", 8), Single("B", 7)>>
        \o ParameterUnits \o <<Single("I", 9), Single("P", 10)>>
\* With orders that count fields.
Late ==
    ParameterUnits \o <<Idr(0), Slice("P", 4), Slice("B", 2), Slice("B", 1), Slice("B", 3), Slice("P", 8), Slice("B", 6),
        Slice("B", 5), Slice("B", 7), Slice("P", 9)>>
\* Fields, the second of an I picture of type P.
Interlaced ==
    ParameterUnits \o Fields("I", TRUE, 0) \o Fields("P", FALSE, 2) \o Fields("B", FALSE, 1) \o ParameterUnits \o Fields("I", FALSE, 3)
        \o Fields("P", FALSE, 4)
\* Pictures behind an IDR picture that are shown before it.
Leading ==
    ParameterUnits \o <<Idr(0), Slice("P", 1)>> \o ParameterUnits \o <<Idr(0), Slice("B", -2), Slice("B", -1),
        Slice("P", 1), Slice("P", 2)>>
\* A film that begins inside a sequence, and one where no picture is shown late.
Cut == ParameterUnits \o <<Slice("I", 2), Slice("B", 0), Slice("B", 1), Slice("P", 4), Slice("B", 3), Slice("P", 5)>>
\* Parameters at the beginning only.
Bare == ParameterUnits \o <<Idr(0), Slice("P", 1), Further(Slice("P", 1), "I"), Idr(0), Slice("P", 1), Slice("P", 2), Slice("I", 3), Slice("P", 4)>>
Simple == Delimiter \o ParameterUnits \o <<Idr(0)>> \o Delimiter \o <<Slice("P", 1)>> \o Delimiter \o <<Slice("P", 2)>>

VideoBlocks == {11, 29, 64, 500}
VideoFilms ==
    {VideoFilm(Closed, n) : n \in VideoBlocks}
    \cup {[VideoFilm(Closed, n) EXCEPT !.sei = "force", !.hrd = FALSE] : n \in {29, 64}}
    \cup {[VideoFilm(Pyramid, n) EXCEPT !.maxLsb = 8, !.cont = TRUE, !.split = n # 29] : n \in VideoBlocks}
    \cup {[VideoFilm(Pyramid, n) EXCEPT !.maxLsb = 8, !.sei = "auto"] : n \in {29, 500}}
    \cup {VideoFilm(Late, n) : n \in VideoBlocks}
    \cup {[VideoFilm(Interlaced, n) EXCEPT !.frames = FALSE] : n \in VideoBlocks}
    \cup {VideoFilm(Leading, n) : n \in VideoBlocks}
    \cup {VideoFilm(Cut, n) : n \in VideoBlocks}
    \cup {[VideoFilm(Bare, n) EXCEPT !.cont = n # 500, !.split = n # 64] : n \in VideoBlocks}
    \cup {[VideoFilm(Simple, n) EXCEPT !.poc = 2] : n \in VideoBlocks}

Video == INSTANCE Pictures WITH
    Films <- VideoFilms, Inc <- 4, TypeLen <- 1, HeaderLen <- 3, MaxPacket <- 9, MaxDepth <- 3, ManyFrames <- 4
=============================================================================
