---------------------------- MODULE MuxerManager ----------------------------
(***************************************************************************)
(* The output side of a mux (tsMuxer/muxerManager.cpp and the file and     *)
(* block handling of tsMuxer/tsMuxer.cpp): one TSMuxer, or two of them for *)
(* 3D, cut what they produce into write blocks, hand them to the writer    *)
(* thread, open the next file at a split point and interleave the blocks   *)
(* of the two.  The muxing thread is the caller of BufferedFileWriter.     *)
(*                                                                         *)
(* What a muxer produces is a sequence of write blocks; a call that hands  *)
(* over several at once hands over one here.  Which packet fills a block,  *)
(* is a split point or makes a PCR due is chosen: module TSMuxer decides   *)
(* these by the bytes.  What one packet makes the muxing thread do to the  *)
(* files is computed at once and then carried out step by step (todo),     *)
(* interleaved with the writer thread.                                     *)
(***************************************************************************)
EXTENDS Integers, Sequences, FiniteSets

CONSTANTS
    Modes,                  \* the ways to mux, see ModeSpace
    Stop,                   \* the writer's command wdNone
    QueueMaxSize, MaxQueueSize, \* the writer's limits
    InterleaveBlockSize,    \* m_interliaveBlockSize, in write blocks
    MaxPackets,             \* bound on the packets muxed
    MaxSplits               \* bound on the changes of files

\* What the options, the output's name and the tracks settle before the first
\* packet: two muxers, one file for both (.ssif), blocks interleaved (.ssif or
\* an ISO image), the side track listed first, asynchronous writing, packets
\* of 192 bytes, a split option, numbered names of a Blu-ray disc; and whether
\* writing to and opening a file may fail.
ModeSpace == [stereo : BOOLEAN, joined : BOOLEAN, interleave : BOOLEAN,
              subFirst : BOOLEAN, async : BOOLEAN, m2ts : BOOLEAN,
              split : BOOLEAN, bluray : BOOLEAN, diskMayFail : BOOLEAN]

ASSUME ModesAssumption ==
    /\ \A m \in Modes :
         /\ m \in ModeSpace
         /\ m.interleave => m.stereo
         /\ m.joined => m.interleave /\ ~m.bluray
         /\ m.stereo => m.m2ts /\ (m.joined \/ m.bluray)
         /\ m.bluray => m.m2ts
    /\ InterleaveBlockSize \in Nat \ {0} /\ MaxSplits \in Nat /\ MaxPackets \in Nat

VARIABLES
    mode,       \* the way this run muxes
    mux,        \* the muxers and the manager, see TypeOK
    file,       \* the file objects
    todo,       \* what the muxing thread has still to do to the files
    phase,      \* "mux", "end", "complete", "failed"
    queue, terminated, lastErrorCode, tpc, tcmd, cpc, cblock, accepted, done,
    contents    \* BufferedFileWriter

Muxers == {"main", "sub"}
Objects == 1..2 * (MaxSplits + 1)
BlockSpace == [file : Objects, mux : Muxers, n : Nat, round : Nat]

ASSUME LimitsAssumption ==
    /\ Stop \notin BlockSpace
    /\ MaxQueueSize \in Nat /\ QueueMaxSize \in Nat /\ MaxQueueSize + 2 <= QueueMaxSize

W == INSTANCE BufferedFileWriter
        WITH Files <- Objects, Blocks <- BlockSpace,
             Outcomes <- {"ok", "short", "throws"}, MaxBlocks <- 1000

writerVars == <<queue, terminated, lastErrorCode, tpc, tcmd, cpc, cblock,
                accepted, done, contents>>
vars == <<mode, mux, file, todo, phase, writerVars>>

Active == IF mode.stereo THEN Muxers ELSE {"main"}
Sibling(m) == IF m = "main" THEN "sub" ELSE "main"

-----------------------------------------------------------------------------
(* The operations of the muxing thread, on a record s = mux that collects  *)
(* in s.plan what is to be done to the files.                              *)

Do(s, ops) == [s EXCEPT !.plan = @ \o ops]
Op(name, what) == [op |-> name, arg |-> what]
Expect(s, name, holds) ==
    IF holds THEN s ELSE [s EXCEPT !.asserts = @ \cup {name}]

\* Operations op on the blocks bs, in their order.
Each(op, bs) == [i \in DOMAIN bs |-> Op(op, bs[i])]

\* The next block of muxer m.
NextBlock(s, m) == [file |-> s.muxFile[m], mux |-> m,
                    n |-> Len(s.made) + 1, round |-> s.round]
Made(s, b) == [s EXCEPT !.made = Append(@, b)]

\* Mutant: the main muxer's blocks are not held back.
AsyncWriteBuffers_Straight(s, m, bs) == Do(s, Each("write", bs))

\* MuxerManager::asyncWriteBuffer for the blocks bs: the main muxer's are held
\* back when blocks are interleaved.
AsyncWriteBuffers(s, m, bs) ==
    IF mode.interleave /\ m = "main" THEN [s EXCEPT !.delayed = @ \o bs]
                                     ELSE Do(s, Each("write", bs))

\* MuxerManager::syncWriteBuffer; it asserts that nothing is interleaved.
SyncWriteBuffers(s, bs) ==
    Expect(Do(s, Each("direct", bs)), "sync interleave",
           bs = <<>> \/ ~mode.interleave)

WriteBuffers(s, m, bs) == IF mode.async THEN AsyncWriteBuffers(s, m, bs)
                                        ELSE SyncWriteBuffers(s, bs)
WaitForWriting(s) ==
    IF mode.async THEN Do(s, <<Op("wait", 0)>>) ELSE s

\* MuxerManager::muxBlockFinished: the blocks held back follow once both
\* muxers have finished theirs.
MuxBlockFinished(s, m) ==
    LET t == [s EXCEPT !.finished[m] = TRUE] IN
    IF \A x \in Muxers : t.finished[x]
    THEN [Do(t, Each("write", t.delayed)) EXCEPT
            !.delayed = <<>>, !.finished = [x \in Muxers |-> FALSE],
            !.round = @ + 1]
    ELSE t

\* TSMuxer::writeOutBuffer with a full block: with packets of 192 bytes it is
\* kept until the next PCR tells the arrival times, unless it has them.
WriteOutBuffer(s, m, timed) ==
    LET b == NextBlock(s, m)
        t == [Made(s, b) EXCEPT !.size[m] = @ + 1]
    IN IF mode.m2ts /\ ~(timed /\ s.held[m] = <<>>)
       THEN [t EXCEPT !.held[m] = Append(@, b)]
       ELSE WriteBuffers(t, m, <<b>>)

\* Mutant: the blocks kept for their arrival times are written late.
ProcessM2TSPCR_Keeps(s, m) == s

\* TSMuxer::processM2TSPCR: the arrival times are known, the blocks go.
ProcessM2TSPCR(s, m) ==
    [WriteBuffers(s, m, s.held[m]) EXCEPT !.held[m] = <<>>]

\* Mutant: the buffer handed over stays the muxer's.
DoFlush_KeepsBuffer(s, m, part) ==
    LET t == ProcessM2TSPCR(s, m)
        b == NextBlock(t, m)
    IN [WriteBuffers(Made(t, b), m, <<b>>) EXCEPT !.rest[m] = part /\ ~mode.m2ts]

\* TSMuxer::doFlush: the rest of the buffer goes, up to a physical sector.
\* Only packets of 188 bytes leave a part of one; the others are padded.
DoFlush(s, m, part) ==
    LET t == ProcessM2TSPCR(s, m)
        b == NextBlock(t, m)
    IN [WriteBuffers(Made(t, b), m, <<b>>) EXCEPT
          !.rest[m] = part /\ ~mode.m2ts,
          !.buffer[m] = ~mode.async \/ (part /\ ~mode.m2ts)]

\* The part left over, written past the end of file by the muxing thread.
WriteRest(s, m) ==
    IF s.rest[m]
    THEN LET b == NextBlock(s, m)
         IN [Do(Made(s, b), <<Op("append", b)>>) EXCEPT !.rest[m] = FALSE]
    ELSE s

\* Mutant: the file is reopened while the thread still writes to it.
FlushTSBuffer_NoWait(s, m) ==
    WriteRest(Do(s, <<Op("close", s.muxFile[m]),
                      Op("reopen", s.muxFile[m])>>), m)

\* TSMuxer::flushTSBuffer.
FlushTSBuffer(s, m) ==
    WriteRest(Do(WaitForWriting(s), <<Op("close", s.muxFile[m]),
                                      Op("reopen", s.muxFile[m])>>), m)

\* TSMuxer::getNextName: the number in the name.
GetNextName(s, m) ==
    IF mode.bluray
    THEN [s EXCEPT !.name[m] = s.orig[m] + s.num[m], !.num[m] = @ + 1]
    ELSE IF mode.split
    THEN [s EXCEPT !.name[m] = s.num[m] + 1, !.num[m] = @ + 1]
    ELSE s

\* The name of the next file: every second one if there are two muxers.
NextName(s, m) == IF mode.stereo THEN GetNextName(GetNextName(s, m), m)
                                 ELSE GetNextName(s, m)

\* TSMuxer::openDstFile: a new file object.
OpenDstFile(s, m) ==
    [Do(s, <<Op("open", [obj |-> s.objects + 1, mux |-> m,
                         name |-> s.name[m]])>>) EXCEPT
        !.muxFile[m] = s.objects + 1, !.objects = @ + 1]

\* Mutant: the file is closed while its last blocks are in the queue.
GotoNextFile_NoWait(s, m) ==
    LET t == Expect(Do(s, <<Op("close", s.muxFile[m])>>), "next file",
                    ~s.rest[m])
    IN OpenDstFile(NextName(t, m), m)

\* TSMuxer::gotoNextFile.
GotoNextFile(s, m) ==
    LET t == Expect(Do(WaitForWriting(s), <<Op("close", s.muxFile[m])>>),
                    "next file", ~s.rest[m])
    IN OpenDstFile(NextName(t, m), m)

\* TSMuxer::writePATPMT and writePCR.
WritePCR(s, m) == [ProcessM2TSPCR(s, m) EXCEPT !.started[m] = TRUE]

\* TSMuxer::finishFileBlock of one muxer.
FinishOwnBlock(s, m, doChangeFile, part) ==
    LET f == MuxBlockFinished([DoFlush(s, m, part) EXCEPT !.size[m] = 0], m)
        t == IF mode.m2ts THEN Expect(f, "buffer handed over", ~f.buffer[m])
                          ELSE FlushTSBuffer(f, m)
        u == IF s.started[m] THEN [t EXCEPT !.buffer[m] = TRUE] ELSE s
    IN WritePCR(IF doChangeFile THEN GotoNextFile(u, m) ELSE u, m)

\* ... and then of the other one.
FinishFileBlock(s, m, doChangeFile, part) ==
    LET t == FinishOwnBlock(s, m, doChangeFile, part)
    IN IF mode.stereo THEN FinishOwnBlock(t, Sibling(m), doChangeFile, part)
                      ELSE t

BlockFull(s) == \E m \in Muxers : s.size[m] >= InterleaveBlockSize
\* m_canSwithBlock: only the muxer of the track listed first ends blocks.
CanSwitchBlock(m) == mode.stereo => (m = "sub") = mode.subFirst

-----------------------------------------------------------------------------
(* The steps.                                                              *)

Start(m) ==
    LET num == IF m.bluray \/ m.split THEN 1 ELSE 0
        sideName == IF m.bluray THEN 1 ELSE num
    IN [ muxFile |-> [main |-> 1, sub |-> IF m.joined THEN 1 ELSE 2],
         objects |-> IF m.stereo /\ ~m.joined THEN 2 ELSE 1,
         orig |-> [main |-> 0, sub |-> 1],
         num |-> [main |-> num, sub |-> num],
         name |-> [main |-> IF m.bluray THEN 0 ELSE num, sub |-> sideName],
         started |-> [x \in Muxers |-> FALSE],
         size |-> [x \in Muxers |-> 0], held |-> [x \in Muxers |-> <<>>],
         rest |-> [x \in Muxers |-> FALSE],
         buffer |-> [x \in Muxers |-> TRUE],
         delayed |-> <<>>, finished |-> [x \in Muxers |-> FALSE],
         round |-> 0, packets |-> 0, made |-> <<>>, asserts |-> {},
         plan |-> <<>> ]

\* After MuxerManager::preinitMux: the files are open.
Init == /\ mode \in Modes
        /\ mux = Start(mode)
        /\ file = [o \in Objects |->
                     IF o > mux.objects
                     THEN [state |-> "none", mux |-> "main", name |-> 0]
                     ELSE LET m == IF o = 1 THEN "main" ELSE "sub" IN
                          [state |-> "open", mux |-> m, name |-> mux.name[m]]]
        /\ todo = <<>> /\ phase = "mux"
        /\ W!Init

Carry(s) == mux' = [s EXCEPT !.plan = <<>>] /\ todo' = s.plan

\* The muxing thread is between two packets.
Idle == phase = "mux" /\ todo = <<>> /\ cpc = "idle"

\* What TSMuxer::muxPacket does before and after the choice below.
Opened(m) == IF mux.started[m] THEN mux ELSE WritePCR(mux, m)
Filled(m, full, timed) ==
    IF full THEN WriteOutBuffer(Opened(m), m, timed) ELSE Opened(m)
CountPacket(s) == [s EXCEPT !.packets = @ + 1]

\* TSMuxer::muxPacket at a split point: go to the next file.
MuxSplit(m) ==
    /\ Idle /\ mux.packets < MaxPackets
    /\ mode.split /\ CanSwitchBlock(m)
    /\ mux.objects <= MaxSplits * Cardinality(Active)
    /\ \E full, timed, part \in BOOLEAN :
         Carry(CountPacket(
            FinishFileBlock(Filled(m, full, timed), m, TRUE, part)))
    /\ UNCHANGED <<mode, file, phase, writerVars>>

\* TSMuxer::muxPacket at the end of a block of interleaved muxers.
MuxEndsBlock(m) ==
    /\ Idle /\ mux.packets < MaxPackets
    /\ mode.stereo /\ CanSwitchBlock(m)
    /\ \E full, timed \in BOOLEAN :
         /\ BlockFull(Filled(m, full, timed))
         /\ Carry(CountPacket(
              FinishFileBlock(Filled(m, full, timed), m, FALSE, FALSE)))
    /\ UNCHANGED <<mode, file, phase, writerVars>>

\* TSMuxer::muxPacket otherwise; a PCR may be due.
MuxPacket(m) ==
    /\ Idle /\ mux.packets < MaxPackets
    /\ \E full, timed, pcr \in BOOLEAN :
         LET s == Filled(m, full, timed) IN
         /\ full => ~(mode.stereo /\ CanSwitchBlock(m) /\ BlockFull(s))
         /\ Carry(CountPacket(IF pcr THEN WritePCR(s, m) ELSE s))
    /\ UNCHANGED <<mode, file, phase, writerVars>>

\* TSMuxer::close; a joined side muxer leaves the file to the main one.
Close(s, m) ==
    LET o == <<Op("close", s.muxFile[m])>> IN
    IF m = "sub" /\ mode.joined THEN s
    ELSE IF s.rest[m]
    THEN Do(WriteRest(Do(s, o \o <<Op("reopen", s.muxFile[m])>>), m), o)
    ELSE Do(s, o)

\* Mutant: the blocks held back are forgotten.
EndOfInput_Forgets ==
    /\ Idle
    /\ \E part \in BOOLEAN :
         LET s == IF mode.stereo THEN DoFlush(mux, "sub", FALSE) ELSE mux
             t == DoFlush(s, "main", part)
             u == Do(t, <<Op("wait", 0)>>)
             v == Close(u, "main")
         IN Carry(Do(IF mode.stereo THEN Close(v, "sub") ELSE v,
                     <<Op("destroy", 0)>>))
    /\ phase' = "end"
    /\ UNCHANGED <<mode, file, writerVars>>

\* MuxerManager::doMux after the last packet.
EndOfInput ==
    /\ Idle
    /\ \E part \in BOOLEAN :
         LET s == IF mode.stereo THEN DoFlush(mux, "sub", FALSE) ELSE mux
             t == DoFlush(s, "main", part)
             u == Do(t, Each("write", t.delayed) \o <<Op("wait", 0)>>)
             v == Close(u, "main")
         IN Carry(Do(IF mode.stereo THEN Close(v, "sub") ELSE v,
                     <<Op("destroy", 0)>>))
    /\ phase' = "end"
    /\ UNCHANGED <<mode, file, writerVars>>

\* An exception leaves doMux between two packets: readPacket or muxPacket.
InputThrows ==
    /\ Idle
    /\ phase' = "failed" /\ todo' = <<Op("destroy", 0)>>
    /\ UNCHANGED <<mode, mux, file, writerVars>>

-----------------------------------------------------------------------------
(* What is to be done is carried out in order.                             *)

Doing(op) == cpc = "idle" /\ todo # <<>> /\ Head(todo).op = op
Arg == Head(todo).arg
IsOpen(o) == file[o].state = "open"
SetFile(o, st) == file' = [file EXCEPT ![o].state = st]

\* Mutant: the block's fields are not set.
DoWrite_Unset == /\ Doing("write") /\ W!Submit_Unset(Arg) /\ todo' = Tail(todo)
                 /\ UNCHANGED <<mode, mux, file, phase>>

\* MuxerManager::asyncWriteBlock.
DoWrite == /\ Doing("write") /\ W!Submit(Arg) /\ todo' = Tail(todo)
           /\ UNCHANGED <<mode, mux, file, phase>>
DoWait == /\ Doing("wait") /\ W!StartWaiting /\ todo' = Tail(todo)
          /\ UNCHANGED <<mode, mux, file, phase>>
DoDestroy == /\ Doing("destroy") /\ W!Destroy /\ todo' = Tail(todo)
             /\ UNCHANGED <<mode, mux, file, phase>>

\* What is left after an error: doMux ends, by an exception or returning.
GiveUp == /\ todo' = <<Op("destroy", 0)>>
          /\ phase' = IF phase = "mux" THEN "failed" ELSE phase

WriteHere(b) ==
    contents' = IF IsOpen(b.file)
                THEN [contents EXCEPT ![b.file] = Append(@, b)] ELSE contents

\* A write of the muxing thread itself, its result ignored: syncWriteBuffer.
DoDirect == /\ Doing("direct")
            /\ (WriteHere(Arg) \/ (mode.diskMayFail /\ UNCHANGED contents))
            /\ todo' = Tail(todo)
            /\ UNCHANGED <<mode, mux, file, phase, queue, terminated,
                           lastErrorCode, tpc, tcmd, cpc, cblock, accepted, done>>

\* The last part of a file: flushTSBuffer throws if it is not written, close
\* takes an error for success.
DoAppend ==
    /\ Doing("append")
    /\ \/ WriteHere(Arg) /\ todo' = Tail(todo) /\ UNCHANGED phase
       \/ /\ mode.diskMayFail /\ UNCHANGED contents
          /\ IF phase = "mux" THEN GiveUp
                              ELSE todo' = Tail(todo) /\ UNCHANGED phase
    /\ UNCHANGED <<mode, mux, file, queue, terminated, lastErrorCode, tpc,
                   tcmd, cpc, cblock, accepted, done>>

DoClose == /\ Doing("close") /\ SetFile(Arg, "closed") /\ todo' = Tail(todo)
           /\ UNCHANGED <<mode, mux, phase, writerVars>>
\* The file cannot be opened again: flushTSBuffer throws, close returns.
DoReopen == /\ Doing("reopen")
            /\ \/ SetFile(Arg, "open") /\ todo' = Tail(todo) /\ UNCHANGED phase
               \/ mode.diskMayFail /\ GiveUp /\ UNCHANGED file
            /\ UNCHANGED <<mode, mux, writerVars>>
\* openDstFile throws if the file cannot be created; the object is there.
DoOpen == /\ Doing("open")
          /\ \E st \in {"open", "closed"} :
                /\ st = "closed" => mode.diskMayFail
                /\ file' = [file EXCEPT ![Arg.obj] =
                               [state |-> st, mux |-> Arg.mux, name |-> Arg.name]]
                /\ IF st = "closed" THEN GiveUp
                                    ELSE todo' = Tail(todo) /\ UNCHANGED phase
          /\ UNCHANGED <<mode, mux, writerVars>>

Plan == DoWrite \/ DoWait \/ DoDestroy \/ DoDirect \/ DoAppend \/ DoClose
        \/ DoReopen \/ DoOpen

-----------------------------------------------------------------------------
(* The writer's steps; a write succeeds only on an open file.              *)

own == <<mode, mux, file, todo, phase>>
Written(b) == /\ contents' # contents => IsOpen(b.file)
              /\ b # Stop /\ IsOpen(b.file) /\ ~mode.diskMayFail
                    => contents' # contents
              /\ ~mode.diskMayFail => cpc' # "aborted" /\ lastErrorCode' = 0

WriterThread == /\ \/ W!ThreadTest \/ W!ThreadPeek \/ W!ThreadPop
                   \/ W!ThreadExecute /\ Written(tcmd)
                /\ UNCHANGED own

\* The calls of the muxing thread into the writer go on.
WriterCall == /\ \/ W!AddWriterData \/ W!WaitEnds \/ W!SetTerminated
                 \/ W!PushStop \/ W!Join \/ W!DrainEnds
                 \/ W!Drain /\ Written(Head(queue))
              /\ UNCHANGED own

\* addWriterData throws: doMux is left.
WriterThrows == /\ W!AddThrows
                /\ phase' = "failed" /\ todo' = <<>>
                /\ UNCHANGED <<mode, mux, file>>

\* What the destructors of the muxers delete: the file each has now. Those it
\* had before were closed and are never deleted.
FileOf(m) == {o \in Objects : /\ file[o].mux = m /\ file[o].state # "none"
                              /\ \A p \in {x \in Objects : x > o} :
                                    file[p].mux # m \/ file[p].state = "none"}
DeleteFiles ==
    LET gone == FileOf("main") \cup (IF mode.joined THEN {} ELSE FileOf("sub"))
    IN file' = [o \in Objects |->
                  IF o \in gone THEN [file[o] EXCEPT !.state = "deleted"]
                                ELSE file[o]]

\* Mutant: the muxers, and their files, are destroyed before the writer.
DeleteMuxers_First ==
    /\ \/ phase = "failed" /\ cpc \in {"flag", "gone"}
       \/ phase = "end" /\ cpc = "gone"
    /\ DeleteFiles
    /\ phase' = IF phase = "end" THEN "complete" ELSE "over"
    /\ UNCHANGED <<mode, mux, todo, writerVars>>

\* ~MuxerManager: the muxers, declared before the writer, go after it and
\* delete their files.
DeleteMuxers ==
    /\ cpc = "gone" /\ phase \in {"end", "failed"}
    /\ DeleteFiles
    /\ phase' = IF phase = "end" THEN "complete" ELSE "over"
    /\ UNCHANGED <<mode, mux, todo, writerVars>>

Over == phase \in {"complete", "over"} \/ cpc = "aborted"
Stopped == Over /\ UNCHANGED vars

Packet == \E m \in Active : MuxSplit(m) \/ MuxEndsBlock(m) \/ MuxPacket(m)
GoesOn == Plan \/ WriterCall \/ WriterThrows \/ DeleteMuxers
Next == Packet \/ EndOfInput \/ InputThrows \/ GoesOn \/ WriterThread \/ Stopped

\* Both threads run; packets need not come to an end.
Spec == Init /\ [][Next]_vars /\ WF_vars(GoesOn) /\ WF_vars(WriterThread)
-----------------------------------------------------------------------------
(* Properties.                                                             *)

TypeOK ==
    /\ mode \in Modes
    /\ phase \in {"mux", "end", "failed", "complete", "over"}
    /\ mux \in [ muxFile : [Muxers -> Objects], objects : Objects,
                 orig : [Muxers -> Nat], num : [Muxers -> Nat],
                 name : [Muxers -> Nat], started : [Muxers -> BOOLEAN],
                 size : [Muxers -> Nat], held : [Muxers -> Seq(BlockSpace)],
                 rest : [Muxers -> BOOLEAN], buffer : [Muxers -> BOOLEAN],
                 delayed : Seq(BlockSpace), finished : [Muxers -> BOOLEAN],
                 round : Nat, packets : 0..MaxPackets,
                 made : Seq(BlockSpace),
                 asserts : SUBSET {"sync interleave", "buffer handed over",
                                   "next file"},
                 plan : {<<>>} ]
    /\ file \in [Objects -> [state : {"none", "open", "closed", "deleted"},
                             mux : Muxers, name : Nat]]
    /\ \A i \in DOMAIN todo :
         todo[i].op \in {"write", "direct", "append", "wait", "close",
                        "reopen", "open", "destroy"}
    /\ W!TypeOK

\* Where muxer m's blocks for file o are among those produced, and where the
\* blocks of m are in the file.
Meant(o, m) == {k \in DOMAIN mux.made : mux.made[k].file = o /\ mux.made[k].mux = m}
Found(o, m) == {i \in DOMAIN contents[o] : contents[o][i].mux = m}

\* A mux that ends without an error has put every block a muxer produced into
\* the file the muxer had open at the time, once and in order, whatever was
\* held back, kept for its time stamps, queued, or left in a buffer.  The
\* blocks produced are numbered, no two of them are equal.
FilesComplete ==
    phase = "complete" /\ ~mode.diskMayFail =>
        \A o \in Objects, m \in Active :
            /\ {contents[o][i] : i \in Found(o, m)} = {mux.made[k] : k \in Meant(o, m)}
            /\ \A i, j \in Found(o, m), k, l \in Meant(o, m) :
                 contents[o][i] = mux.made[k] /\ contents[o][j] = mux.made[l] /\ i < j => k < l

\* Neither thread writes to a file that is closed or deleted: files are closed,
\* reopened and deleted by the muxing thread while the writer thread runs.
WritesGoToOpenFiles ==
    /\ tpc = "execute" /\ tcmd # Stop => IsOpen(tcmd.file)
    /\ cpc = "drain" /\ queue # <<>> /\ Head(queue) # Stop
          => IsOpen(Head(queue).file)
    /\ Doing("direct") \/ Doing("append") => IsOpen(Arg.file)

\* Interleaved blocks are handed to the writer in rounds, and in a round the
\* side muxer's come first: the extents of a 3D stream have this order.
Rank(b) == 2 * b.round + (IF b.mux = "main" THEN 1 ELSE 0)
SideBlocksFirst ==
    mode.interleave =>
        \A i, j \in DOMAIN accepted :
            i < j => Rank(accepted[i]) <= Rank(accepted[j])

\* No file is opened under the name of an earlier one, which it would overwrite.
DistinctNames ==
    \A o, p \in Objects :
        o # p /\ file[o].state # "none" /\ file[p].state # "none"
            => file[o].name # file[p].name

\* Both promises for the files: none overwrites another, none lacks a block.
OutputFiles == FilesComplete /\ DistinctNames

\* The assertions of syncWriteBuffer, finishFileBlock and gotoNextFile hold if
\* writing is asynchronous, or the packets have 188 bytes.
AssertionsHold == mode.async \/ ~mode.m2ts => mux.asserts = {}

\* Once the input has ended or has failed, the program ends, whatever fails.
MuxEnds == phase \in {"end", "failed"} ~> Over
=============================================================================
