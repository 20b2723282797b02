-------------------------------- MODULE Blocks --------------------------------
(***************************************************************************)
(* What a demuxer gets from its reader, by what module BufferedReader      *)
(* shows: the files of a stream one after the other, each in blocks of the *)
(* same size but the last.  A place is [file, pos]; data are sequences of  *)
(* cells, some bytes that belong together.                                 *)
(***************************************************************************)
LOCAL INSTANCE Integers
LOCAL INSTANCE Sequences

Beginning == [file |-> 1, pos |-> 0]

\* The next block: whether it is the first of a further file, and whether the end of
\* the stream is told with it; the reader knows the end by a block that is not full.
BlockAt(files, at, size) ==
    LET more == at.file < Len(files)
        rest == Len(files[at.file]) - at.pos
        here == IF rest = 0 /\ more THEN [file |-> at.file + 1, pos |-> 0] ELSE at
        left == Len(files[here.file]) - here.pos
        n == IF left < size THEN left ELSE size IN
    [cells |-> SubSeq(files[here.file], here.pos + 1, here.pos + n),
     first |-> here.pos = 0 /\ here.file > 1,
     eof |-> here.file = Len(files) /\ n < size,
     next |-> [here EXCEPT !.pos = @ + n]]

\* Where the blocks of a file end, within it.
Cuts(file, size) == {n \in 1..(Len(file) - 1) : n % size = 0}
=============================================================================
