--------------------------- MODULE MCMuxerManager ---------------------------
(***************************************************************************)
(* Instances of MuxerManager for TLC: the modes of each run.               *)
(***************************************************************************)
EXTENDS MuxerManager

MCStop == [file |-> 0, mux |-> "none", n |-> 0, round |-> 0]

Plain == [stereo |-> FALSE, joined |-> FALSE, interleave |-> FALSE,
          subFirst |-> FALSE, async |-> TRUE, m2ts |-> TRUE, split |-> FALSE,
          bluray |-> FALSE, diskMayFail |-> FALSE]
Ts == [Plain EXCEPT !.m2ts = FALSE]
\* A 3D folder and a 3D image; a single .ssif file.
Folder == [Plain EXCEPT !.stereo = TRUE, !.bluray = TRUE]
Image == [Folder EXCEPT !.interleave = TRUE]
Ssif == [Plain EXCEPT !.stereo = TRUE, !.interleave = TRUE, !.joined = TRUE]

Split(x) == [x EXCEPT !.split = TRUE]
Sync(x) == [x EXCEPT !.async = FALSE]
SubFirst(x) == [x EXCEPT !.subFirst = TRUE]
Faulty(x) == [x EXCEPT !.diskMayFail = TRUE]

MCModes == {Plain, Split(Ts), Sync(Split(Ts)), Sync(Plain),
            Image, SubFirst(Image), Ssif, SubFirst(Ssif),
            Split(Folder), Split(SubFirst(Image)),
            Faulty(Split(Ts))}
MCSplitImage == {Split(Image)}
MCSplitSsif == {Split(Ssif)}
=============================================================================
