----------------------------- MODULE ProgramStream -----------------------------
(***************************************************************************)
(* The demuxer of program streams (programStreamDemuxer.cpp): it looks for *)
(* start codes, passes the payload of PES packets to their streams, and    *)
(* keeps how much of a packet the next blocks still have.                  *)
(*                                                                         *)
(* A start code is two cells, [k |-> "zero"] and [k |-> "one", ...] with   *)
(*   code      "pes", "map" for the stream map, or another                 *)
(*   id        the stream; 0 for private streams, whose id is in front of  *)
(*             their payload                                               *)
(*   header    the cells of the header with the start code                 *)
(*   len       the cells of the packet                                     *)
(* In front of the payload of a private stream stand [k |-> "sub", id,     *)
(* after]: after cells in all, and then cells [k |-> "data", n, swapped].  *)
(***************************************************************************)
EXTENDS Blocks, Integers, Sequences, SequencesExt

CONSTANTS
    Films,      \* [files, size of blocks, accepted ids]
    MinHeader,  \* 9: the bytes that a packet needs to be looked at
    Margin,     \* 4: what must stand behind its header
    Pcm         \* the ids of PCM streams, which get a header in front

DemuxerAssumption ==
    /\ MinHeader \in Nat /\ MinHeader > 2 /\ Margin \in Nat
    /\ \A f \in Films : f.block > MinHeader

VARIABLES options, mux, fed
vars == <<options, mux, fed>>

WaveHeader == <<[k |-> "wave"]>>

-----------------------------------------------------------------------------

\* findNextMarker: the next start code that is whole, or the end of the data.
RECURSIVE FindNextMarker(_, _)
FindNextMarker(data, p) ==
    CASE p >= Len(data) -> Len(data) + 1
      [] p < Len(data) /\ data[p].k = "zero" /\ data[p + 1].k = "one" -> p
      [] OTHER -> FindNextMarker(data, p + 1)

\* What is passed by when the search goes on from p.
Sought(s, data, p) ==
    LET q == FindNextMarker(data, p) IN [s EXCEPT !.at = q, !.discarded = @ + q - p]

\* A packet that is not wanted, or the rest of it.
Passed(s, data, len) ==
    LET there == Len(data) - s.at + 1 IN
    IF len > there
    THEN [s EXCEPT !.at = Len(data) + 1, !.discarded = @ + there, !.lastLen = len - there, !.lastId = 0, !.stop = TRUE]
    ELSE Sought([s EXCEPT !.discarded = @ + len], data, s.at + len)

\* processPES: the stream of a packet, and what of its payload is not the stream's.
IdOf(data, p) == IF data[p + 1].id # 0 THEN data[p + 1].id ELSE data[p + data[p + 1].header].id
After(data, p) == IF data[p + 1].id # 0 THEN 0 ELSE data[p + data[p + 1].header].after
\* PCM is made little endian where it stands, as far as the block has it.
Swapped(id, cells) ==
    IF id \notin Pcm THEN cells
    ELSE [i \in DOMAIN cells |-> IF cells[i].k = "data" THEN [cells[i] EXCEPT !.swapped = ~@] ELSE cells[i]]

\* The payload of a packet, which the next block may go on with.
Pes(s, data) ==
    LET head == data[s.at + 1]
        id == IdOf(data, s.at)
        from == s.at + head.header + After(data, s.at)
        len == head.len - head.header - After(data, s.at)
        there == Len(data) - from + 1
        n == IF len < there THEN len ELSE there
        wave == IF id \in Pcm /\ id \notin s.begun THEN WaveHeader ELSE <<>>
        took == [s EXCEPT !.out[id] = @ \o wave \o Swapped(id, SubSeq(data, from, from + n - 1)),
                          !.begun = @ \cup {id}, !.processed = @ + n,
                          !.discarded = @ + from - s.at] IN
    CASE id \notin options.accepted -> Passed(s, data, head.len)
      [] id \in options.accepted /\ n < 0 -> [s EXCEPT !.thrown = TRUE, !.stop = TRUE]
      [] id \in options.accepted /\ n >= 0 /\ n < len ->
            [took EXCEPT !.lastLen = len - n, !.lastId = id, !.stop = TRUE, !.at = Len(data) + 1]
      [] OTHER -> Sought(took, data, s.at + head.len)

\* The packets of a block, one after the other, while there is enough to look at.
RECURSIVE Packets(_, _)
Packet(s, data) ==
    LET head == data[s.at + 1]
        there == Len(data) - s.at + 1
        short == [s EXCEPT !.stop = TRUE]
        other == IF there < 2 THEN there ELSE 2 IN
    CASE head.code = "pes" -> IF head.header + Margin > there THEN short ELSE Pes(s, data)
      [] head.code = "map" -> IF head.len + 1 > there THEN short ELSE Passed(s, data, head.len)
      [] OTHER -> Sought([s EXCEPT !.discarded = @ + other], data, s.at + other)
Packets(s, data) ==
    IF s.stop \/ s.at > Len(data) - MinHeader + 1 THEN s ELSE Packets(Packet(s, data), data)

\* What was left of a packet, which goes where the packet went.
Continued(s, data) ==
    LET n == IF Len(data) < s.lastLen THEN Len(data) ELSE s.lastLen
        passed == [s EXCEPT !.lastLen = @ - n, !.at = 1 + n] IN
    IF s.lastId = 0 THEN [passed EXCEPT !.discarded = @ + n]
    ELSE [passed EXCEPT !.out[s.lastId] = @ \o SubSeq(data, 1, n), !.processed = @ + n]

Rest(s, data) == [s EXCEPT !.tmp = SubSeq(data, s.at, Len(data))]

\* simpleDemuxBlock.
SimpleDemuxBlock(s, block) ==
    LET data == s.tmp \o block.cells
        begun == Continued([s EXCEPT !.tmp = <<>>, !.eof = block.eof, !.stop = FALSE], data) IN
    CASE data = <<>> \/ (block.cells = <<>> /\ s.eof) -> [s EXCEPT !.ended = TRUE]
      [] data # <<>> /\ begun.lastLen > 0 -> begun
      [] OTHER -> Rest(Packets(Sought(begun, data, begun.at), data), data)

-----------------------------------------------------------------------------

Init ==
    /\ options \in Films
    /\ mux = [at |-> 1, tmp |-> <<>>, lastLen |-> 0, lastId |-> 0, eof |-> FALSE, ended |-> FALSE,
              stop |-> FALSE, thrown |-> FALSE, begun |-> {}, discarded |-> 0, processed |-> 0,
              out |-> [id \in options.accepted |-> <<>>]]
    /\ fed = [at |-> Beginning, read |-> 0]

Block ==
    LET block == BlockAt(options.files, fed.at, options.block) IN
    /\ ~mux.ended /\ ~mux.thrown
    /\ mux' = SimpleDemuxBlock(mux, block)
    /\ fed' = [at |-> block.next, read |-> fed.read + Len(block.cells)]
    /\ UNCHANGED options

Next == Block \/ ((mux.ended \/ mux.thrown) /\ UNCHANGED vars)
Spec == Init /\ [][Next]_vars

-----------------------------------------------------------------------------
(* Properties.                                                             *)

TypeOK ==
    /\ options \in Films
    /\ mux.discarded \in Nat /\ mux.processed \in Nat /\ mux.lastLen \in Nat
    /\ mux.lastId \in options.accepted \cup {0}
    /\ \A flag \in {"eof", "ended", "stop", "thrown"} : mux[flag] \in BOOLEAN

\* Packets that a block's end does not cut within their start code; of PCM, that it
\* does not cut at all.
Starts(file) == SelectSeq([p \in 1..(Len(file) - 1) |-> p], LAMBDA p :
    file[p].k = "zero" /\ file[p + 1].k = "one" /\ file[p + 1].code = "pes")
Uncut(file, p) ==
    LET last == IF IdOf(file, p) \in Pcm THEN p + file[p + 1].len - 2 ELSE p IN
    \A n \in p..last : n \notin Cuts(file, options.block)
Expected(id) ==
    LET own(file) == SelectSeq(Starts(file), LAMBDA p : IdOf(file, p) = id /\ Uncut(file, p))
        payload(file, p) ==
            Swapped(id, SubSeq(file, p + file[p + 1].header + After(file, p), p + file[p + 1].len - 1))
        all == FlattenSeq([f \in DOMAIN options.files |->
                  FlattenSeq([i \in DOMAIN own(options.files[f]) |->
                                payload(options.files[f], own(options.files[f])[i])])]) IN
    IF all # <<>> /\ id \in Pcm THEN WaveHeader \o all ELSE all
PcmCut ==
    \E f \in DOMAIN options.files : \E i \in DOMAIN Starts(options.files[f]) :
        LET p == Starts(options.files[f])[i] IN
        IdOf(options.files[f], p) \in Pcm /\ ~Uncut(options.files[f], p)

\* However the blocks cut a stream, the payload of each PES packet goes to its stream,
\* once and in order, if only its start code is within one block; PCM needs to be
\* within one block as a whole; and every byte that was read is delivered, counted
\* as discarded, or held (ProgramStreamDemuxer::simpleDemuxBlock, processPES).
PacketsDemuxed ==
    /\ ~mux.thrown => fed.read = mux.discarded + mux.processed + Len(mux.tmp)
    /\ ~PcmCut => ~mux.thrown
    /\ mux.ended /\ ~PcmCut => \A id \in options.accepted : mux.out[id] = Expected(id)
=============================================================================
