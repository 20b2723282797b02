------------------------------- MODULE NalUnits -------------------------------
(***************************************************************************)
(* Bytes of a video stream: where its units begin (NALUnit), and how bytes *)
(* that would look like a beginning are escaped in a unit.                 *)
(***************************************************************************)
EXTENDS Integers, Sequences
LOCAL INSTANCE FiniteSetsExt

\* findNALWithStartCode, and findNextNAL: the first code from p, or its header; what
\* ends with the data counts as none.
NoCode(data) == Len(data) + 1
Codes(data, p) == {q \in p..(Len(data) - 2) : data[q] = 0 /\ data[q + 1] = 0 /\ data[q + 2] = 1}
FindNextNAL(data, p) ==
    IF Codes(data, p) = {} THEN NoCode(data) ELSE Min(Codes(data, p)) + 3
FindNALWithStartCode(data, p) ==
    IF Codes(data, p) = {} THEN NoCode(data)
    ELSE LET q == Min(Codes(data, p)) IN IF q > p /\ data[q - 1] = 0 THEN q - 1 ELSE q
\* bufFromNAL: the length of the code at the beginning.
CodeLen(data) ==
    CASE Len(data) >= 4 /\ SubSeq(data, 1, 4) = <<0, 0, 0, 1>> -> 4
      [] Len(data) >= 4 /\ SubSeq(data, 1, 3) = <<0, 0, 1>> -> 3
      [] OTHER -> 0

\* encodeNAL and decodeNAL; they look at every third byte where that is enough.
RECURSIVE EncodeFrom(_, _, _)
EncodeFrom(s, start, p) ==
    CASE p > Len(s) -> SubSeq(s, start, Len(s))
      [] p <= Len(s) /\ s[p] > 3 -> EncodeFrom(s, start, p + 3)
      [] p <= Len(s) /\ s[p] <= 3 /\ s[p - 2] = 0 /\ s[p - 1] = 0 ->
            SubSeq(s, start, p - 1) \o <<3, s[p]>> \o (IF p < Len(s) THEN <<s[p + 1]>> ELSE <<>>) \o EncodeFrom(s, p + 2, p + 2)
      [] OTHER -> EncodeFrom(s, start, p + 1)
EncodeNAL(s) == EncodeFrom(s, 1, 3)
RECURSIVE DecodeFrom(_, _, _)
DecodeFrom(s, start, p) ==
    CASE p > Len(s) -> SubSeq(s, start, Len(s))
      [] p <= Len(s) /\ s[p] > 3 -> DecodeFrom(s, start, p + 4)
      [] p <= Len(s) /\ s[p] <= 3 /\ SubSeq(s, p - 3, p - 1) = <<0, 0, 3>> ->
            SubSeq(s, start, p - 2) \o <<s[p]>> \o DecodeFrom(s, p + 1, p + 1)
      [] OTHER -> DecodeFrom(s, start, p + 1)
DecodeNAL(s) == DecodeFrom(s, 1, 4)
=============================================================================
