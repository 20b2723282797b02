------------------------------ MODULE CombinedH264 ------------------------------
(***************************************************************************)
(* Two H.264 streams, a base stream and the one of the other eye, in one   *)
(* (combinedH264Demuxer.cpp): each NAL unit goes to the stream that its    *)
(* type tells, data of a unit that began before go where it went.          *)
(*                                                                         *)
(* A unit is a start code of two or three cells, "zero" and "one", a cell  *)
(* [k |-> "nal", to, id, need] and data: to is the stream, "base", "other" *)
(* or "both", and for parameter sets also "sps" and "pps" with an id; need *)
(* cells of the unit must be there to tell.                                *)
(***************************************************************************)
EXTENDS Blocks, Integers, Sequences, SequencesExt

CONSTANTS
    Films,      \* [files, size of blocks, accepted streams]
    Search,     \* 3: how far behind the beginning of a unit the search begins
    Least,      \* 4: a unit is more than that
    MaxTmp      \* MAX_TMP_BUFFER_SIZE

DemuxerAssumption ==
    /\ Search \in Nat /\ Least \in Nat /\ MaxTmp > Least
    /\ \A f \in Films : f.block > Least + Search

VARIABLES options, mux, fed
vars == <<options, mux, fed>>

-----------------------------------------------------------------------------

\* findNALWithStartCode, with the first of three zeros: the next start code from p on.
RECURSIVE FindNal(_, _)
FindNal(data, p) ==
    CASE p >= Len(data) -> Len(data) + 1
      [] p < Len(data) /\ data[p].k = "zero" /\ data[p + 1].k = "one" -> p
      [] p + 1 < Len(data) /\ data[p].k = "zero" /\ data[p + 1].k = "zero" /\ data[p + 2].k = "one" -> p
      [] OTHER -> FindNal(data, p + 1)

PrefixLen(data, p) ==
    CASE data[p].k = "zero" /\ data[p + 1].k = "one" -> 2
      [] data[p].k = "zero" /\ data[p + 1].k = "zero" /\ data[p + 2].k = "one" -> 3
      [] OTHER -> 0

\* detectStreamByNal: the stream of a unit, of which cells are there; parameter sets
\* of the base stream name another set of parameters than the last of the other's.
DetectStreamByNal(s, nal, cells) ==
    CASE nal.need > cells -> [s EXCEPT !.state = "more"]
      [] nal.need <= cells /\ nal.to = "sps" -> [s EXCEPT !.state = "other", !.sps = nal.id]
      [] nal.need <= cells /\ nal.to = "pps" -> [s EXCEPT !.state = IF nal.id = s.sps THEN "other" ELSE "base"]
      [] OTHER -> [s EXCEPT !.state = nal.to]

Add(s, cells) ==
    LET streams == (IF s.state = "both" THEN {"base", "other"} ELSE {s.state}) IN
    [s EXCEPT !.out = [t \in DOMAIN @ |-> IF t \in streams THEN @[t] \o cells ELSE @[t]]]

\* The units of a block.
RECURSIVE Units(_, _, _)
Unit(s, data, p, next) ==
    LET n == PrefixLen(data, p)
        seen == IF n = 0 THEN s ELSE DetectStreamByNal(s, data[p + n], next - p - n)
        small == Len(data) - p + 1 < MaxTmp
        told == IF seen.state = "more" THEN [seen EXCEPT !.state = "base"] ELSE seen IN
    IF seen.state = "more" /\ small
    THEN [seen EXCEPT !.tmp = SubSeq(data, p, Len(data)), !.at = Len(data) + 1]
    ELSE Units([Add(told, SubSeq(data, p, next - 1)) EXCEPT !.at = next], data, next)
Units(s, data, p) ==
    IF Len(data) - p + 1 <= Least THEN s ELSE Unit(s, data, p, FindNal(data, p + Search))

\* What is too little for a unit waits, or goes where the last one went.
Ends(s, data) ==
    LET rest == SubSeq(data, s.at, Len(data))
        to == IF s.state = "base" THEN s ELSE [s EXCEPT !.state = "other"] IN
    CASE rest = <<>> -> s
      [] rest # <<>> /\ s.eof -> [Add(to, rest) EXCEPT !.state = s.state]
      [] OTHER -> [s EXCEPT !.tmp = rest]

SimpleDemuxBlock(s, block) ==
    LET data == s.tmp \o block.cells IN
    IF data = <<>> \/ (block.cells = <<>> /\ s.eof) THEN [s EXCEPT !.ended = TRUE]
    ELSE Ends(Units([s EXCEPT !.tmp = <<>>, !.eof = block.eof, !.at = 1], data, 1), data)

-----------------------------------------------------------------------------

Init ==
    /\ options \in Films
    /\ mux = [at |-> 1, tmp |-> <<>>, state |-> "base", sps |-> 0, eof |-> FALSE, ended |-> FALSE,
              out |-> [t \in options.accepted |-> <<>>]]
    /\ fed = [at |-> Beginning, read |-> 0]

Block ==
    LET block == BlockAt(options.files, fed.at, options.block) IN
    /\ ~mux.ended
    /\ mux' = SimpleDemuxBlock(mux, block)
    /\ fed' = [at |-> block.next, read |-> fed.read + Len(block.cells)]
    /\ UNCHANGED options

Next == Block \/ (mux.ended /\ UNCHANGED vars)
Spec == Init /\ [][Next]_vars

-----------------------------------------------------------------------------
(* Properties.                                                             *)

TypeOK ==
    /\ options \in Films
    /\ mux.state \in {"base", "other", "both", "more"} /\ Len(mux.tmp) <= MaxTmp
    /\ mux.eof \in BOOLEAN /\ mux.ended \in BOOLEAN

\* The units of a file: where they begin, as three zeros do.
File == options.files[1]
Begins == SelectSeq([p \in 1..(Len(File) - 1) |-> p], LAMBDA p :
    PrefixLen(File, p) > 0 /\ ~(p > 1 /\ PrefixLen(File, p - 1) > 0))
\* No block ends within a start code, or so close in front of one that the search of
\* the next block begins behind it.
Uncut ==
    \A i \in DOMAIN Begins : \A n \in Cuts(File, options.block) :
        ~(Begins[i] - Search <= n /\ n < Begins[i] - 1) /\ ~(Begins[i] <= n /\ n < Begins[i] + PrefixLen(File, Begins[i]) - 1)
Own(i) ==
    LET from == Begins[i]
        to == IF i = Len(Begins) THEN Len(File) ELSE Begins[i + 1] - 1 IN
    SubSeq(File, from, to)
StreamsOf(i) ==
    LET nal(j) == File[Begins[j] + PrefixLen(File, Begins[j])]
        sets == {j \in 1..(i - 1) : nal(j).to = "sps"}
        last == nal(CHOOSE j \in sets : \A l \in sets : l <= j).id IN
    CASE nal(i).to = "both" -> {"base", "other"}
      [] nal(i).to = "sps" -> {"other"}
      [] nal(i).to = "pps" -> IF sets # {} /\ last = nal(i).id THEN {"other"} ELSE {"base"}
      [] OTHER -> {nal(i).to}
Expected(t) ==
    FlattenSeq([i \in DOMAIN Begins |-> IF t \in StreamsOf(i) THEN Own(i) ELSE <<>>])

\* However the blocks cut a stream, if only no start code is cut, each NAL unit goes
\* to its stream as a whole, and the streams' units stay in their order
\* (CombinedH264Demuxer::simpleDemuxBlock, detectStreamByNal).
UnitsDemuxed ==
    mux.ended /\ Uncut => \A t \in options.accepted : mux.out[t] = Expected(t)
=============================================================================
