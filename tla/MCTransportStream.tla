-------------------------- MODULE MCTransportStream --------------------------
(***************************************************************************)
(* Instances of TransportStream for TLC.                                   *)
(***************************************************************************)
EXTENDS TransportStream

Plain(m2ts) == [m2ts |-> m2ts, start |-> 5, vbv |-> 2, bitrate |-> 0,
                splitSize |-> 0, splitDuration |-> 0]
MCOptions ==
    {Plain(TRUE), [Plain(FALSE) EXCEPT !.splitSize = 20],
     [Plain(TRUE) EXCEPT !.splitSize = 20],
     [Plain(TRUE) EXCEPT !.splitDuration = 3, !.vbv = 7],
     [Plain(TRUE) EXCEPT !.bitrate = 6]}

\* A fixed bitrate with room for two packets in a tick.
MCFixed == {[Plain(m) EXCEPT !.bitrate = 6, !.start = 20] : m \in BOOLEAN}
=============================================================================
